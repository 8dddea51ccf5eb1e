------------------------------ MODULE Ceremony ------------------------------
(***************************************************************************)
(* The cards that run a ceremony with a citizen's phone: the signature      *)
(* dialog of the document screens, the sign-in card, the sign tab of the    *)
(* signing app and the sign button of its register.  Each pushes a request, *)
(* then polls the session it was given, one poll at a time, until an answer *)
(* ends it.  The operator may leave at any moment; what differs from card   *)
(* to card is how a poll still in flight learns that it was left.           *)
(*                                                                          *)
(* A poll is held open by the server and answers with the session's state   *)
(* as it then is.                                                           *)
(***************************************************************************)
EXTENDS Console

CONSTANTS
    MaxSessions,    \* bound on the requests pushed to phones
    MaxTurns,       \* bound on the operator's turns: attempts begun or left
    Tolerated       \* TOLERATED_POLL_FAILURES, TOLERATED_FAILURES

ASSUME CeremonyAssumption ==
    /\ MaxSessions \in Nat \ {0} /\ MaxTurns \in Nat \ {0} /\ Tolerated \in Nat

VARIABLES
    phone,      \* the state of each session, at the provider
    card,       \* what the card shows, and of which attempt
    attempt,    \* the operator's turns
    ticket,     \* ticket.current (the sign-in card)
    cancelled,  \* cancelled.current (the sign tab), shared by all its loops
    runs        \* the async functions in flight

cardVars == <<phone, card, attempt, ticket, cancelled, runs>>
-----------------------------------------------------------------------------
Cards == {"SignatureDialog", "EIDLogin", "EidSignView", "SignWithEidButton"}
Sessions == 1..MaxSessions
Endings == {"completed", "rejected", "expired", "failed", "cancelled"}

(* dead: the instance or the effect that started it is gone (the cleanup ran). *)
Runs == [attempt : Nat, ticket : Nat, session : 0..MaxSessions, dead : BOOLEAN,
         pc : {"start", "poll", "cancel"}, failures : 0..Tolerated, late : BOOLEAN]

CardPhases == {"idle", "starting", "identity", "waiting", "done", "failed"}

CardTypeOK ==
    /\ phone \in [Sessions -> {"none", "pending"} \cup Endings]
    /\ card \in [of : Nat, phase : CardPhases, session : 0..MaxSessions]
    /\ attempt \in Nat /\ ticket \in Nat /\ cancelled \in BOOLEAN
    /\ runs \subseteq Runs

CardInit ==
    /\ phone = [s \in Sessions |-> "none"]
    /\ card = [of |-> 0, phase |-> "idle", session |-> 0]
    /\ attempt = 0 /\ ticket = 0 /\ cancelled = FALSE
    /\ runs = {}
-----------------------------------------------------------------------------
(* How each card tells that a run was left. *)
SameTicket(r) == r.ticket = ticket
Alive(r) ==
    CASE route = "EIDLogin"    -> ~r.dead /\ SameTicket(r)
      [] route = "EidSignView" -> ~r.dead /\ ~cancelled
      [] OTHER                 -> ~r.dead

Show(r, phase) == card' = [of |-> r.attempt, phase |-> phase, session |-> r.session]
Replace(r, s) == runs' = (runs \ {r}) \cup {s}
RunOver(r) == runs' = runs \ {r}
Killed == {[r EXCEPT !.dead = TRUE] : r \in runs}

Begun(t) == [attempt |-> attempt', ticket |-> t, session |-> 0, dead |-> FALSE,
               pc |-> "start", failures |-> 0, late |-> FALSE]
BlankCard(phase) == [of |-> attempt', phase |-> phase, session |-> 0]

(* A turn of the operator: they begin an attempt, or leave the one they are in. *)
Turn(phase, kept, t) ==
    /\ ticket' = t
    /\ attempt' = attempt + 1
    /\ card' = BlankCard(phase)
    /\ runs' = kept \cup IF phase = "starting" THEN {Begun(t)} ELSE {}

(* A request is pushed to a phone, and opens a session there. *)
Fresh == {s \in Sessions : phone[s] = "none" /\ \A e \in 1..(s - 1) : phone[e] # "none"}
Push(s) == phone' = [phone EXCEPT ![s] = "pending"]

ToleratesOneMore(r) == ~r.late /\ r.failures <= Tolerated     \* planted fault: off by one

Tolerates(r) == ~r.late /\ r.failures < Tolerated

Watching(r, s) == [r EXCEPT !.session = s, !.pc = "poll"]
Seen(r) == phone[r.session]
-----------------------------------------------------------------------------
(* SignatureDialog: the effect of a session owns its flag, and its cleanup raises it
   when the session is dropped or the dialog is closed. *)
DialogSubmit ==
    /\ card.phase \in {"idle", "failed"}
    /\ Turn("starting", runs, ticket)
    /\ UNCHANGED <<phone, cancelled>>

(* Cancel, in any phase; another row may be signed next. *)
DialogClose ==
    /\ Turn("idle", Killed, ticket)
    /\ UNCHANGED <<phone, cancelled>>

(* The push cannot be called back: a dialog that was closed meanwhile shows nothing. *)
DialogStarted(r) ==
    /\ r.pc = "start"
    /\ \/ \E s \in Fresh :
            /\ Push(s)
            /\ IF r.dead THEN RunOver(r) /\ UNCHANGED card
               ELSE Replace(r, Watching(r, s)) /\ Show(Watching(r, s), "waiting")
       \/ /\ UNCHANGED phone /\ RunOver(r)
          /\ IF r.dead THEN UNCHANGED card ELSE Show(r, "failed")
    /\ UNCHANGED <<attempt, ticket, cancelled>>

DialogPolled(r) ==
    /\ r.pc = "poll" /\ Alive(r)
    /\ \/ r.late /\ RunOver(r) /\ Show(r, "failed")
       \/ Seen(r) = "completed" /\ RunOver(r) /\ Show(r, "done")
       \/ Seen(r) \in {"rejected", "expired"} /\ RunOver(r) /\ Show(r, "failed")
       \/ Seen(r) = "pending" /\ ~r.late /\ Replace(r, [r EXCEPT !.failures = 0]) /\ UNCHANGED card
       \/ RunOver(r) /\ Show(r, "failed")             \* a 4xx is an answer
       \/ IF Tolerates(r)
          THEN Replace(r, [r EXCEPT !.failures = @ + 1]) /\ UNCHANGED card
          ELSE RunOver(r) /\ Show(r, "failed")
    /\ UNCHANGED <<phone, attempt, ticket, cancelled>>
-----------------------------------------------------------------------------
(* EIDLogin: every attempt takes a ticket, and so does the watch it ends in. *)
Pending == card.phase \in {"starting", "waiting"}

stop == ticket' = ticket + 1

begin ==
    /\ ~Pending
    /\ Turn("starting", runs, ticket + 1)
    /\ UNCHANGED <<phone, cancelled>>

(* switchMethod begins at once when the QR code is chosen, and stops first; cancel
   and the other tab only stop. *)
switchMethod ==
    /\ Turn("starting", runs, ticket + 2) \/ Turn("idle", runs, ticket + 1)
    /\ UNCHANGED <<phone, cancelled>>

beginNoTicket(r) ==                     \* planted fault: the answer is not compared
    /\ r.pc = "start"
    /\ \/ \E s \in Fresh :
            /\ Push(s) /\ stop
            /\ Replace(r, [Watching(r, s) EXCEPT !.ticket = ticket + 1])
            /\ Show(Watching(r, s), "waiting")
       \/ UNCHANGED <<phone, ticket>> /\ RunOver(r) /\ Show(r, "failed")
    /\ UNCHANGED <<attempt, cancelled>>

LoginStarted(r) ==
    /\ r.pc = "start"
    /\ \/ \E s \in Fresh :
            /\ Push(s)
            /\ IF Alive(r)
               THEN /\ stop
                    /\ Replace(r, [Watching(r, s) EXCEPT !.ticket = ticket + 1])
                    /\ Show(Watching(r, s), "waiting")
               ELSE RunOver(r) /\ UNCHANGED <<card, ticket>>
       \/ /\ UNCHANGED <<phone, ticket>> /\ RunOver(r)
          /\ IF Alive(r) THEN Show(r, "failed") ELSE UNCHANGED card
    /\ UNCHANGED <<attempt, cancelled>>

LoginPolled(r) ==
    /\ r.pc = "poll" /\ Alive(r)
    /\ \/ r.late /\ RunOver(r) /\ Show(r, "failed") /\ UNCHANGED ticket
       \/ Seen(r) = "completed" /\ RunOver(r) /\ Show(r, "done") /\ stop
       \/ Seen(r) \in {"rejected", "expired"} /\ RunOver(r) /\ Show(r, "failed") /\ UNCHANGED ticket
       \/ Seen(r) = "pending" /\ ~r.late /\ Replace(r, [r EXCEPT !.failures = 0]) /\ UNCHANGED <<card, ticket>>
       \/ /\ UNCHANGED ticket
          /\ IF Tolerates(r)
             THEN Replace(r, [r EXCEPT !.failures = @ + 1]) /\ UNCHANGED card
             ELSE RunOver(r) /\ Show(r, "failed")
    /\ UNCHANGED <<phone, attempt, cancelled>>

countdownNoStop(r) ==                   \* planted fault: the loop goes on behind the card
    /\ r.pc = "poll" /\ Alive(r) /\ r.late /\ card.phase = "waiting"
    /\ Show(r, "failed")
    /\ UNCHANGED <<phone, attempt, ticket, cancelled, runs>>

(* The countdown runs beside the loop: it stops it, a poll still in flight or not. *)
LoginCountdown(r) ==
    /\ r.pc = "poll" /\ Alive(r) /\ r.late /\ card.phase = "waiting"
    /\ stop /\ Show(r, "failed")
    /\ UNCHANGED <<phone, attempt, cancelled, runs>>
-----------------------------------------------------------------------------
(* EidSignView: one flag for every loop of the card; beginning lowers it. *)
ViewStart ==
    /\ card.phase \in {"idle", "identity"}
    /\ cancelled' = FALSE
    /\ Turn("starting", runs, ticket)
    /\ UNCHANGED phone

(* Not a PDF, or too large. *)
ViewBadFile ==
    /\ card.phase = "idle"
    /\ Turn("failed", runs, ticket)
    /\ UNCHANGED <<phone, cancelled>>

ViewStarted(r) ==
    /\ r.pc = "start"
    /\ \/ \E s \in Fresh :
            /\ Push(s)
            /\ IF Alive(r) THEN Replace(r, Watching(r, s)) /\ Show(Watching(r, s), "waiting")
               ELSE RunOver(r) /\ UNCHANGED card
       \/ /\ UNCHANGED phone /\ RunOver(r)
          /\ IF r.dead THEN UNCHANGED card
             ELSE \E phase \in {"identity", "failed"} : Show(r, phase)
    /\ UNCHANGED <<attempt, ticket, cancelled>>

ViewPolled(r) ==
    /\ r.pc = "poll" /\ Alive(r)
    /\ \/ Seen(r) = "completed" /\ Show(r, "done")
       \/ Seen(r) \in {"rejected", "expired", "failed"} /\ Show(r, "failed")
    /\ RunOver(r)                          \* anything else, or no answer: it asks again
    /\ UNCHANGED <<phone, attempt, ticket, cancelled>>

reset ==
    /\ card.phase \in {"identity", "done", "failed"}
    /\ cancelled' = TRUE
    /\ Turn("idle", runs, ticket)
    /\ UNCHANGED phone

ViewCancel ==
    /\ card.phase = "waiting"
    /\ cancelled' = TRUE
    /\ runs' = runs \cup {[attempt |-> card.of, ticket |-> ticket, session |-> card.session,
                          dead |-> FALSE, pc |-> "cancel", failures |-> 0, late |-> FALSE]}
    /\ UNCHANGED <<phone, card, attempt, ticket>>

(* Whatever the server made of it, the card is free for the next document. *)
ViewCancelled(r) ==
    /\ r.pc = "cancel"
    /\ phone' \in {phone} \cup
         IF Seen(r) = "pending" THEN {[phone EXCEPT ![r.session] = "cancelled"]} ELSE {}
    /\ IF r.dead THEN RunOver(r) /\ UNCHANGED <<card, attempt, ticket>> ELSE Turn("idle", runs \ {r}, ticket)
    /\ UNCHANGED cancelled

(* The tab is left: the next one has a flag of its own. *)
ViewUnmount ==
    /\ cancelled' = FALSE
    /\ Turn("idle", Killed, ticket)
    /\ UNCHANGED phone
-----------------------------------------------------------------------------
(* SignWithEidButton: disabled while it runs, and left only with its row. *)
ButtonStart ==
    /\ ~Pending
    /\ Turn("starting", runs, ticket)
    /\ UNCHANGED <<phone, cancelled>>

ButtonPolled(r) ==
    /\ r.pc = "poll" /\ Alive(r)
    /\ \/ Seen(r) = "completed" /\ Show(r, "done")
       \/ Seen(r) \notin {"completed", "pending"} /\ Show(r, "failed")
    /\ RunOver(r)
    /\ UNCHANGED <<phone, attempt, ticket, cancelled>>
-----------------------------------------------------------------------------
(* A run that finds itself left says nothing. *)
Left(r) ==
    /\ r.pc = "poll" /\ ~Alive(r)
    /\ RunOver(r)
    /\ UNCHANGED <<phone, card, attempt, ticket, cancelled>>

RunStep(r) ==
    \/ Left(r)
    \/ route \in {"SignatureDialog", "SignWithEidButton"} /\ DialogStarted(r)
    \/ route = "SignatureDialog"   /\ DialogPolled(r)
    \/ route = "EIDLogin"          /\ (LoginStarted(r) \/ LoginPolled(r) \/ LoginCountdown(r))
    \/ route = "EidSignView"       /\ (ViewStarted(r) \/ ViewPolled(r) \/ ViewCancelled(r))
    \/ route = "SignWithEidButton" /\ ButtonPolled(r)

(* Bound: the operator's turns. *)
Operator ==
    /\ attempt < MaxTurns
    /\ \/ route = "SignatureDialog"   /\ (DialogSubmit \/ DialogClose)
       \/ route = "EIDLogin"          /\ (begin \/ switchMethod)
       \/ route = "EidSignView"       /\ (ViewStart \/ ViewBadFile \/ reset \/ ViewCancel \/ ViewUnmount)
       \/ route = "SignWithEidButton" /\ (ButtonStart \/ DialogClose)

(* The citizen answers on their phone, or the provider ends the session. *)
Citizen ==
    /\ \E s \in Sessions, e \in Endings \ {"cancelled"} :
         phone[s] = "pending" /\ phone' = [phone EXCEPT ![s] = e]
    /\ UNCHANGED <<card, attempt, ticket, cancelled, runs>>

(* The deadline of a watch passes: deadlineOf. *)
Elapse(r) ==
    /\ r.pc = "poll" /\ ~r.late /\ route \in {"SignatureDialog", "EIDLogin"}
    /\ Replace(r, [r EXCEPT !.late = TRUE])
    /\ UNCHANGED <<phone, card, attempt, ticket, cancelled>>

CardNext == Operator \/ Citizen \/ \E r \in runs : RunStep(r) \/ Elapse(r)

(* Every request of an attempt is answered, or fails, and time passes; the citizen need
   never answer. *)
CardFairness ==
    /\ \A a \in 1..MaxTurns : WF_cardVars(\E r \in runs : r.attempt = a /\ RunStep(r))
    /\ WF_cardVars(\E r \in runs : Elapse(r))

CardSpec == CardInit /\ [][CardNext /\ UNCHANGED route]_<<route, cardVars>> /\ CardFairness
-----------------------------------------------------------------------------
(* The cards whose loops carry their own ticket, flag or instance. *)
Ticketed == route # "EidSignView"

(* What a card shows is of the attempt the operator is in: an answer that was on its
   way when they left, or started again, never brings a ceremony back. *)
OutcomeIsCurrent == Ticketed => card.of = attempt

(* A card waits exactly while somebody polls the session it shows: it is never left
   spinning over a session nobody watches, and no session is watched behind it. *)
Watchers == {r \in runs : r.pc = "poll" /\ Alive(r)}
WaitingIsWatched ==
    Ticketed => IF card.phase = "waiting"
                THEN \E r \in Watchers : Watchers = {r} /\ r.session = card.session
                ELSE Watchers = {}

(* The sign tab's comment: "an in-flight long poll cannot resurrect a ceremony the
   user has already walked away from". *)
NeverResurrected == card.of = attempt

AbstractCard == INSTANCE Attempt WITH
    current <- IF Ticketed THEN attempt ELSE 0,
    shown <- IF Ticketed THEN [of |-> card.of, phase |-> card.phase] ELSE [of |-> 0, phase |-> "idle"]

(* Each of these cards is the abstract card. *)
CardIsAttempt == AbstractCard!AttemptSpec
=============================================================================
