--------------------------- MODULE CeremonyProofs ---------------------------
(***************************************************************************)
(* Proofs about Ceremony, for any number of sessions, turns of the operator *)
(* and tolerated failures: each card whose loops carry their own ticket,    *)
(* flag or instance shows only the attempt the operator is in, waits        *)
(* exactly while one loop watches the session it shows, and implements the  *)
(* abstract card.                                                           *)
(*                                                                          *)
(* The invariant says who is alive: nobody on a card at rest, and one run,  *)
(* of the operator's attempt, on a card that is starting or waiting.  For   *)
(* the sign-in card it needs that no run holds a ticket still to be given.  *)
(***************************************************************************)
EXTENDS Ceremony, TLAPS

(* The runs that may still show something. *)
Living == {r \in runs : Alive(r)}

(* What is asked of a run's record, whatever else it holds. *)
IsRun(r) == /\ {"attempt", "ticket", "session", "dead", "pc", "failures", "late"} \subseteq DOMAIN r
            /\ r.ticket \in Nat /\ r.ticket <= ticket

(* Who is alive, in each phase. *)
OneIsAlive ==
    CASE card.phase = "starting" -> \E r \in runs : Living = {r} /\ r.pc = "start" /\ r.attempt = attempt
      [] card.phase = "waiting"  -> \E r \in runs : /\ Living = {r} /\ r.pc = "poll"
                                                    /\ r.attempt = attempt /\ r.session = card.session
      [] OTHER                   -> Living = {}

(* The inductive invariant of one card. *)
CardInv ==
    /\ attempt \in Nat /\ ticket \in Nat
    /\ \A r \in runs : IsRun(r)
    /\ card.of = attempt /\ card.phase \in {"idle", "starting", "waiting", "done", "failed"}
    /\ OneIsAlive

(* What a step may do to the card. *)
CardMoves ==
    \/ /\ attempt' = attempt + 1
       /\ card'.of = attempt' /\ card'.phase \in {"idle", "starting"}
    \/ /\ attempt' = attempt
       /\ card'.of = card.of
       /\ \/ card'.phase = card.phase
          \/ card.phase = "starting" /\ card'.phase \in {"waiting", "failed"}
          \/ card.phase = "waiting"  /\ card'.phase \in {"done", "failed"}

(* A step keeps the invariant, and does nothing else to the card. *)
Steps == CardInv' /\ CardMoves

(* The three cards. *)
Ours == route \in {"SignatureDialog", "EIDLogin", "SignWithEidButton"} /\ route' = route
-----------------------------------------------------------------------------
(* Whoever is alive is the one run of the card's attempt. *)
LEMMA WhoIsAlive ==
  ASSUME CardInv, NEW r \in runs, Alive(r)
  PROVE  /\ Living = {r} /\ r.attempt = attempt
         /\ \/ card.phase = "starting" /\ r.pc = "start"
            \/ card.phase = "waiting"  /\ r.pc = "poll" /\ r.session = card.session
  BY DEF CardInv, OneIsAlive, Living

(* A run that was left holds nothing the card still goes by. *)
LEMMA WhoIsDead ==
  ASSUME CardInv, card.phase \notin {"starting", "waiting"}
  PROVE  \A r \in runs : ~Alive(r)
  BY DEF CardInv, OneIsAlive, Living

(* The operator begins an attempt, or leaves one: those who are kept are dead by then. *)
LEMMA TurnSteps ==
  ASSUME CardInv, Ours, attempt' = attempt + 1, ticket' \in Nat, ticket' >= ticket,
         card'.of = attempt', card'.phase \in {"idle", "starting"},
         card'.phase = "starting" => Begun(ticket') \in runs',
         \A r \in runs' : \/ IsRun(r) /\ (r.dead \/ (route = "EIDLogin" /\ r.ticket < ticket'))
                          \/ card'.phase = "starting" /\ r = Begun(ticket')
  PROVE  Steps
<1>1. PICK new : new = Begun(ticket')
  OBVIOUS
<1>2. /\ {"attempt", "ticket", "session", "dead", "pc", "failures", "late"} \subseteq DOMAIN new
      /\ new.ticket = ticket' /\ new.attempt = attempt' /\ ~new.dead /\ new.pc = "start"
  BY <1>1 DEF Begun
<1>3. \A r \in runs' : IsRun(r)' /\ (Alive(r)' <=> card'.phase = "starting" /\ r = new)
  BY <1>1, <1>2 DEF Ours, Alive, SameTicket, IsRun, CardInv
<1>4. OneIsAlive'
  <2>1. CASE card'.phase = "starting"
    <3>1. Living' = {new} /\ new \in runs'
      BY <1>1, <1>3, <2>1 DEF Living
    <3> QED
      BY <1>2, <2>1, <3>1 DEF OneIsAlive
  <2>2. CASE card'.phase = "idle"
    <3>1. Living' = {}
      BY <1>3, <2>2 DEF Living
    <3> QED
      BY <2>2, <3>1 DEF OneIsAlive
  <2> QED
    BY <2>1, <2>2
<1> QED
  BY <1>3, <1>4 DEF Steps, CardInv, CardMoves

(* A run that was left ends, or goes on unseen. *)
LEMMA DeadSteps ==
  ASSUME CardInv, Ours, NEW r \in runs, ~Alive(r), UNCHANGED <<card, attempt, ticket>>, runs' = runs \ {r}
  PROVE  Steps
<1>1. \A q \in runs : Alive(q)' <=> Alive(q)
  BY DEF Ours, Alive, SameTicket
<1>2. Living' = Living
  BY <1>1 DEF Living
<1>3. OneIsAlive'
  BY <1>2 DEF CardInv, OneIsAlive, Living
<1> QED
  BY <1>3 DEF Steps, CardInv, CardMoves, IsRun

(* A run goes on as it was, alive or not, with another count of failures or later. *)
LEMMA GoesOnSteps ==
  ASSUME CardInv, Ours, NEW r \in runs, NEW s, Replace(r, s), UNCHANGED <<card, attempt, ticket>>,
         DOMAIN s = DOMAIN r,
         s.attempt = r.attempt, s.ticket = r.ticket, s.session = r.session, s.dead = r.dead, s.pc = r.pc
  PROVE  Steps
<1>1. runs' = (runs \ {r}) \cup {s}
  BY DEF Replace
<1>2. (\A q \in runs : Alive(q)' <=> Alive(q)) /\ (Alive(s)' <=> Alive(r))
  BY DEF Ours, Alive, SameTicket
<1>3. \A q \in runs' : IsRun(q)'
  BY <1>1 DEF CardInv, IsRun
<1>4. CASE Alive(r)
  <2>1. Living' = {s} /\ s \in runs'
    BY <1>1, <1>2, <1>4, WhoIsAlive DEF Living
  <2>2. OneIsAlive'
    BY <1>4, <2>1, WhoIsAlive DEF OneIsAlive
  <2> QED
    BY <1>3, <2>2 DEF Steps, CardInv, CardMoves
<1>5. CASE ~Alive(r)
  <2>1. Living' = Living /\ Living \subseteq runs'
    BY <1>1, <1>2, <1>5 DEF Living
  <2>2. OneIsAlive'
    BY <2>1 DEF CardInv, OneIsAlive
  <2> QED
    BY <1>3, <2>2 DEF Steps, CardInv, CardMoves
<1> QED
  BY <1>4, <1>5

(* The push was answered: the run watches its session. *)
LEMMA WatchSteps ==
  ASSUME CardInv, Ours, NEW r \in runs, Alive(r), r.pc = "start", NEW s, NEW w, Replace(r, w),
         DOMAIN w = DOMAIN r, w.attempt = r.attempt, w.session = s, w.dead = r.dead, w.pc = "poll",
         w.ticket = IF route = "EIDLogin" THEN ticket' ELSE r.ticket,
         ticket' \in {ticket, ticket + 1}, route = "EIDLogin" => ticket' = ticket + 1,
         attempt' = attempt, card' = [of |-> r.attempt, phase |-> "waiting", session |-> s]
  PROVE  Steps
<1>1. runs' = (runs \ {r}) \cup {w}
  BY DEF Replace
<1>2. Alive(w)' /\ ~r.dead
  BY DEF Ours, Alive, SameTicket
<1>3. \A q \in runs : IsRun(q)' /\ (Alive(q)' => Alive(q))
  BY DEF CardInv, IsRun, Ours, Alive, SameTicket
<1>4. IsRun(w)'
  BY DEF CardInv, IsRun
<1>5. Living' = {w} /\ w \in runs'
  BY <1>1, <1>2, <1>3, WhoIsAlive DEF Living
<1>6. OneIsAlive'
  BY <1>5, WhoIsAlive DEF OneIsAlive
<1> QED
  BY <1>1, <1>3, <1>4, <1>6, WhoIsAlive DEF Steps, CardInv, CardMoves

(* The attempt is over: the run ends, or what it holds is no longer the ticket. *)
LEMMA EndSteps ==
  ASSUME CardInv, Ours, NEW r \in runs, Alive(r), NEW phase \in {"done", "failed"}, Show(r, phase),
         r.pc = "start" => phase = "failed",
         attempt' = attempt, ticket' \in {ticket, ticket + 1},
         \/ RunOver(r)
         \/ route = "EIDLogin" /\ runs' = runs /\ ticket' = ticket + 1
  PROVE  Steps
<1>1. card'.of = r.attempt /\ card'.phase = phase
  BY DEF Show
<1>2. \A q \in runs : IsRun(q)' /\ (Alive(q)' => Alive(q))
  BY DEF CardInv, IsRun, Ours, Alive, SameTicket
<1>3. runs' \subseteq runs
  BY DEF RunOver
<1>4. Living' = {}
  <2>1. CASE RunOver(r)
    BY <1>2, <2>1, WhoIsAlive DEF RunOver, Living
  <2>2. CASE route = "EIDLogin" /\ runs' = runs /\ ticket' = ticket + 1
    BY <2>2 DEF CardInv, IsRun, Ours, Alive, SameTicket, Living
  <2> QED
    BY <2>1, <2>2
<1>5. OneIsAlive'
  BY <1>1, <1>4 DEF OneIsAlive
<1> QED
  BY <1>1, <1>2, <1>3, <1>5, WhoIsAlive DEF Steps, CardInv, CardMoves
-----------------------------------------------------------------------------
(* Whatever the operator does to a card. *)
LEMMA OperatorSteps ==
  ASSUME CardInv, Ours, Operator
  PROVE  Steps
<1> USE DEF Turn, BlankCard
<1>1. (\A r \in runs : IsRun(r) /\ r.ticket < ticket + 1 /\ r.ticket < ticket + 2) /\ ticket \in Nat
  BY DEF CardInv, IsRun
<1>2. CASE route = "SignatureDialog" /\ DialogSubmit
  <2>1. \A r \in runs : r.dead
    BY <1>2, WhoIsDead DEF DialogSubmit, Alive
  <2> QED
    BY <1>1, <1>2, <2>1, TurnSteps DEF DialogSubmit
<1>3. CASE route # "EIDLogin" /\ DialogClose
  <2>1. \A q \in Killed : IsRun(q) /\ q.dead
    BY <1>1 DEF Killed, IsRun
  <2> QED
    BY <1>1, <1>3, <2>1, TurnSteps DEF DialogClose
<1>4. CASE route = "EIDLogin" /\ begin
  BY <1>1, <1>4, TurnSteps DEF begin
<1>5. CASE route = "EIDLogin" /\ switchMethod
  BY <1>1, <1>5, TurnSteps DEF switchMethod
<1>6. CASE route = "SignWithEidButton" /\ ButtonStart
  <2>1. \A r \in runs : r.dead
    BY <1>6, WhoIsDead DEF ButtonStart, Pending, Alive
  <2> QED
    BY <1>1, <1>6, <2>1, TurnSteps DEF ButtonStart
<1> QED
  BY <1>2, <1>3, <1>4, <1>5, <1>6 DEF Operator, Ours

(* The answer to the push, and to each poll. *)
LEMMA StartedSteps ==
  ASSUME CardInv, Ours, NEW r \in runs,
         \/ route # "EIDLogin" /\ DialogStarted(r)
         \/ route = "EIDLogin" /\ LoginStarted(r)
  PROVE  Steps
<1>1. IsRun(r)
  BY DEF CardInv
<1>2. CASE route # "EIDLogin" /\ DialogStarted(r)
  <2>1. Alive(r) <=> ~r.dead
    BY <1>2 DEF Ours, Alive
  <2>2. CASE ~Alive(r)
    BY <1>2, <2>1, <2>2, DeadSteps DEF DialogStarted, RunOver
  <2>3. CASE RunOver(r) /\ Alive(r) /\ Show(r, "failed")
    BY <1>2, <2>3, EndSteps DEF DialogStarted
  <2>4. ASSUME NEW s, Alive(r), Replace(r, Watching(r, s)), Show(Watching(r, s), "waiting") PROVE Steps
    <3> DEFINE w == Watching(r, s)
    <3>1. /\ DOMAIN w = DOMAIN r /\ w.attempt = r.attempt /\ w.session = s /\ w.dead = r.dead
          /\ w.pc = "poll" /\ w.ticket = r.ticket
      BY <1>1 DEF Watching, IsRun
    <3> HIDE DEF w
    <3> QED
      BY <1>2, <2>4, <3>1, WatchSteps DEF DialogStarted, Show, w
  <2> QED
    BY <1>2, <2>1, <2>2, <2>3, <2>4 DEF DialogStarted
<1>3. CASE route = "EIDLogin" /\ LoginStarted(r)
  <2>1. CASE ~Alive(r)
    BY <1>3, <2>1, DeadSteps DEF LoginStarted, RunOver
  <2>2. CASE Alive(r) /\ RunOver(r) /\ Show(r, "failed") /\ ticket' = ticket
    BY <1>3, <2>2, EndSteps DEF LoginStarted
  <2>3. ASSUME NEW s, Alive(r), stop, Replace(r, [Watching(r, s) EXCEPT !.ticket = ticket + 1]),
               Show(Watching(r, s), "waiting")
        PROVE  Steps
    <3> DEFINE w == [Watching(r, s) EXCEPT !.ticket = ticket + 1]
    <3>1. /\ DOMAIN w = DOMAIN r /\ w.attempt = r.attempt /\ w.session = s /\ w.dead = r.dead
          /\ w.pc = "poll" /\ w.ticket = ticket + 1
          /\ Watching(r, s).attempt = r.attempt /\ Watching(r, s).session = s
      BY <1>1 DEF Watching, IsRun
    <3>2. Replace(r, w)
      BY <2>3
    <3> HIDE DEF w
    <3> QED
      BY <1>3, <2>3, <3>1, <3>2, WatchSteps DEF LoginStarted, Show, stop
  <2> QED
    BY <1>3, <2>1, <2>2, <2>3 DEF LoginStarted
<1> QED
  BY <1>2, <1>3

(* The answer to a poll: the attempt goes on, is over, or fails. *)
LEMMA PolledSteps ==
  ASSUME CardInv, Ours, NEW r \in runs,
         \/ DialogPolled(r)
         \/ ButtonPolled(r)
         \/ route = "EIDLogin" /\ (LoginPolled(r) \/ LoginCountdown(r))
  PROVE  Steps
<1>1. IsRun(r)
  BY DEF CardInv
<1>2. ASSUME NEW f, Replace(r, [r EXCEPT !.failures = f]), UNCHANGED <<card, attempt, ticket>> PROVE Steps
  <2> DEFINE s == [r EXCEPT !.failures = f]
  <2>1. /\ DOMAIN s = DOMAIN r /\ s.attempt = r.attempt /\ s.ticket = r.ticket /\ s.session = r.session
        /\ s.dead = r.dead /\ s.pc = r.pc
    BY <1>1 DEF IsRun
  <2>2. Replace(r, s)
    BY <1>2
  <2> HIDE DEF s
  <2> QED
    BY <1>2, <2>1, <2>2, GoesOnSteps
<1>3. ASSUME Alive(r), r.pc = "poll", NEW phase \in {"done", "failed"}, Show(r, phase), attempt' = attempt,
             ticket' \in {ticket, ticket + 1}, RunOver(r)
      PROVE  Steps
  BY <1>3, EndSteps
<1>4. CASE DialogPolled(r)
  BY <1>2, <1>3, <1>4 DEF DialogPolled
<1>5. CASE ButtonPolled(r)
  BY <1>3, <1>5 DEF ButtonPolled
<1>6. CASE route = "EIDLogin" /\ LoginPolled(r)
  BY <1>2, <1>3, <1>6 DEF LoginPolled, stop
<1>7. CASE route = "EIDLogin" /\ LoginCountdown(r)
  BY <1>7, EndSteps DEF LoginCountdown, stop
<1> QED
  BY <1>4, <1>5, <1>6, <1>7

(* Every step of a card keeps the invariant, and is a move of the attempt or none. *)
LEMMA CardNextSteps ==
  ASSUME CardInv, Ours, CardNext
  PROVE  Steps
<1>1. CASE Operator
  BY <1>1, OperatorSteps
<1>2. CASE Citizen
  BY <1>2 DEF Citizen, Ours, Steps, CardInv, CardMoves, IsRun, OneIsAlive, Living, Alive, SameTicket
<1>3. ASSUME NEW r \in runs, RunStep(r) PROVE Steps
  <2>1. CASE Left(r)
    BY <2>1, DeadSteps DEF Left, RunOver
  <2> QED
    BY <1>3, <2>1, StartedSteps, PolledSteps DEF RunStep, Ours
<1>4. ASSUME NEW r \in runs, Elapse(r) PROVE Steps
  <2> DEFINE s == [r EXCEPT !.late = TRUE]
  <2>1. /\ DOMAIN s = DOMAIN r /\ s.attempt = r.attempt /\ s.ticket = r.ticket /\ s.session = r.session
        /\ s.dead = r.dead /\ s.pc = r.pc
    BY DEF CardInv, IsRun
  <2>2. Replace(r, s) /\ UNCHANGED <<card, attempt, ticket>>
    BY <1>4 DEF Elapse
  <2> HIDE DEF s
  <2> QED
    BY <2>1, <2>2, GoesOnSteps
<1> QED
  BY <1>1, <1>2, <1>3, <1>4 DEF CardNext
-----------------------------------------------------------------------------
(* The sign tab, and any other screen, is not one of these cards. *)
CardsInv == Ticketed /\ route \in Cards => CardInv

(* At first no attempt was made. *)
LEMMA CardInitInv == CardInit => CardInv
  BY DEF CardInit, CardInv, OneIsAlive, Living

(* Nothing happens. *)
LEMMA CardIdle ==
  ASSUME CardInv, UNCHANGED <<route, cardVars>>
  PROVE  CardInv'
  BY DEF cardVars, CardInv, IsRun, OneIsAlive, Living, Alive, SameTicket

(* The inductive invariant: at most one run is alive, and it is the one the card shows. *)
THEOREM CardInvariance == CardSpec => []CardsInv
<1>1. CardInit => CardsInv
  BY CardInitInv DEF CardsInv
<1>2. CardsInv /\ [CardNext /\ UNCHANGED route]_<<route, cardVars>> => CardsInv'
  BY CardNextSteps, CardIdle DEF CardsInv, Steps, Ours, Ticketed, Cards
<1> QED
  BY <1>1, <1>2, PTL DEF CardSpec

(* A card waits exactly while one loop polls the session it shows. *)
THEOREM EveryWaitIsWatched == CardSpec => [](route \in Cards => WaitingIsWatched)
<1>1. CardsInv => (route \in Cards => WaitingIsWatched)
  <2> SUFFICES ASSUME CardInv, Ticketed PROVE WaitingIsWatched
    BY DEF CardsInv, WaitingIsWatched
  <2>1. \A r \in Watchers : Living = {r} /\ card.phase = "waiting"
    BY WhoIsAlive DEF Watchers
  <2>2. CASE card.phase = "waiting"
    <3>1. PICK r \in runs : Living = {r} /\ r.pc = "poll" /\ r.session = card.session
      BY <2>2 DEF CardInv, OneIsAlive
    <3>2. Watchers = {r}
      BY <3>1 DEF Watchers, Living
    <3> QED
      BY <2>2, <3>1, <3>2 DEF WaitingIsWatched
  <2>3. CASE card.phase # "waiting"
    BY <2>1, <2>3 DEF WaitingIsWatched
  <2> QED
    BY <2>2, <2>3
<1> QED
  BY <1>1, CardInvariance, PTL

(* What is shown is of the operator's attempt. *)
THEOREM EveryOutcomeIsCurrent == CardSpec => [](route \in Cards => OutcomeIsCurrent)
<1>1. CardsInv => (route \in Cards => OutcomeIsCurrent)
  BY DEF CardsInv, CardInv, OutcomeIsCurrent
<1> QED
  BY <1>1, CardInvariance, PTL

(* The abstract card is implemented: every step of one of these cards is a turn of the
   operator, a move of the attempt they are in, or none; other screens do not show it. *)
THEOREM CardsImplementAttempt == (route \in Cards /\ CardSpec) => CardIsAttempt
<1>1. CardInit => AbstractCard!AttemptInit
  BY DEF CardInit, AbstractCard!AttemptInit
<1>2. /\ route \in Cards /\ [CardNext /\ UNCHANGED route]_<<route, cardVars>>
      => (route \in Cards)'
  BY DEF cardVars
<1>3. /\ route \in Cards /\ CardsInv /\ [CardNext /\ UNCHANGED route]_<<route, cardVars>>
      => [AbstractCard!Turn \/ AbstractCard!Moves]_AbstractCard!attemptVars
  <2> SUFFICES ASSUME route \in Cards, CardsInv, [CardNext /\ UNCHANGED route]_<<route, cardVars>>
               PROVE  [AbstractCard!Turn \/ AbstractCard!Moves]_AbstractCard!attemptVars
    OBVIOUS
  <2>1. CASE ~Ticketed \/ UNCHANGED <<route, cardVars>>
    BY <2>1 DEF AbstractCard!attemptVars, Ticketed, cardVars
  <2>2. CASE Ticketed /\ CardNext /\ UNCHANGED route
    <3>1. CardMoves /\ card.of = attempt /\ Ticketed'
      BY <2>2, CardNextSteps DEF CardsInv, CardInv, Steps, Ours, Ticketed, Cards
    <3> QED
      BY <2>2, <3>1 DEF CardMoves, AbstractCard!Turn, AbstractCard!Moves, AbstractCard!Follows,
                        AbstractCard!attemptVars
  <2> QED
    BY <2>1, <2>2
<1> QED
  BY <1>1, <1>2, <1>3, CardInvariance, PTL DEF CardSpec, CardIsAttempt, AbstractCard!AttemptSpec
-----------------------------------------------------------------------------
(* What is put on a card, and the runs that are kept, started or changed. *)
LEMMA CardParts ==
  ASSUME CardTypeOK
  PROVE  /\ \A r \in runs : /\ r.attempt \in Nat /\ r.session \in 0..MaxSessions
                            /\ r.failures \in 0..Tolerated
                            /\ [r EXCEPT !.dead = TRUE] \in Runs
                            /\ [r EXCEPT !.late = TRUE] \in Runs
                            /\ \A n \in 0..Tolerated : [r EXCEPT !.failures = n] \in Runs
         /\ \A r \in runs, s \in Sessions, t \in Nat :
              /\ Watching(r, s) \in Runs /\ [Watching(r, s) EXCEPT !.ticket = t] \in Runs
              /\ Watching(r, s).attempt \in Nat /\ Watching(r, s).session \in 0..MaxSessions
         /\ Killed \subseteq Runs
         /\ 0 \in 0..MaxSessions /\ 0 \in 0..Tolerated
<1>1. \A r \in runs : r \in Runs
  BY DEF CardTypeOK
<1>2. Sessions \subseteq 0..MaxSessions /\ 0 \in 0..MaxSessions /\ 0 \in 0..Tolerated
  BY CeremonyAssumption DEF Sessions
<1>3. ASSUME NEW r \in runs
      PROVE  /\ r.attempt \in Nat /\ r.session \in 0..MaxSessions /\ r.failures \in 0..Tolerated
             /\ [r EXCEPT !.dead = TRUE] \in Runs /\ [r EXCEPT !.late = TRUE] \in Runs
             /\ \A n \in 0..Tolerated : [r EXCEPT !.failures = n] \in Runs
  BY <1>1 DEF Runs
<1>4. ASSUME NEW r \in runs, NEW s \in Sessions, NEW t \in Nat
      PROVE  /\ Watching(r, s) \in Runs /\ [Watching(r, s) EXCEPT !.ticket = t] \in Runs
             /\ Watching(r, s).attempt \in Nat /\ Watching(r, s).session \in 0..MaxSessions
  <2>1. [r EXCEPT !.session = s, !.pc = "poll"] \in Runs
    BY <1>1, <1>2 DEF Runs
  <2> QED
    BY <2>1 DEF Watching, Runs
<1> QED
  BY <1>2, <1>3, <1>4 DEF Killed

(* A turn of the operator keeps the types. *)
LEMMA TurnTyped ==
  ASSUME CardTypeOK, NEW phase \in CardPhases, NEW kept, kept \subseteq Runs, NEW t \in Nat,
         Turn(phase, kept, t), phone' = phone, cancelled' \in BOOLEAN
  PROVE  CardTypeOK'
<1>1. attempt' \in Nat /\ ticket' \in Nat
  BY DEF Turn, CardTypeOK
<1>2. card' \in [of : Nat, phase : CardPhases, session : 0..MaxSessions]
  BY <1>1, CardParts DEF Turn, BlankCard
<1>3. runs' \subseteq Runs
  <2>1. Begun(t) \in Runs
    BY <1>1, CardParts DEF Begun, Runs
  <2> QED
    BY <2>1 DEF Turn
<1> QED
  BY <1>1, <1>2, <1>3 DEF CardTypeOK

(* So does the operator, on each card. *)
LEMMA OperatorTyped ==
  ASSUME CardTypeOK, Operator
  PROVE  CardTypeOK'
<1> USE DEF CardPhases
<1>1. runs \subseteq Runs /\ ticket \in Nat /\ ticket + 1 \in Nat /\ ticket + 2 \in Nat /\ cancelled \in BOOLEAN
  BY DEF CardTypeOK
<1>2. CASE DialogSubmit \/ DialogClose \/ ButtonStart
  BY <1>1, <1>2, CardParts, TurnTyped DEF DialogSubmit, DialogClose, ButtonStart
<1>3. CASE begin \/ switchMethod
  BY <1>1, <1>3, TurnTyped DEF begin, switchMethod
<1>4. CASE ViewStart \/ ViewBadFile \/ reset \/ ViewUnmount
  BY <1>1, <1>4, CardParts, TurnTyped DEF ViewStart, ViewBadFile, reset, ViewUnmount
<1>5. CASE ViewCancel
  <2>1. [attempt |-> card.of, ticket |-> ticket, session |-> card.session, dead |-> FALSE,
         pc |-> "cancel", failures |-> 0, late |-> FALSE] \in Runs
    BY <1>1, CardParts DEF CardTypeOK, Runs
  <2> QED
    BY <1>5, <2>1 DEF ViewCancel, CardTypeOK
<1> QED
  BY <1>2, <1>3, <1>4, <1>5 DEF Operator

(* What a card shows of a run is typed. *)
LEMMA ShownTyped ==
  ASSUME NEW r, r.attempt \in Nat, r.session \in 0..MaxSessions, NEW phase \in CardPhases, Show(r, phase)
  PROVE  card' \in [of : Nat, phase : CardPhases, session : 0..MaxSessions]
  BY DEF Show

(* A run goes on, or ends. *)
LEMMA RunStepTyped ==
  ASSUME CardTypeOK, NEW r \in runs, RunStep(r) \/ Elapse(r)
  PROVE  CardTypeOK'
<1> USE DEF CardPhases
<1> DEFINE Shown == card' \in [of : Nat, phase : CardPhases, session : 0..MaxSessions]
           Kept  == runs' \subseteq Runs
           Rung  == phone' \in [Sessions -> {"none", "pending"} \cup Endings]
<1>1. /\ runs \subseteq Runs /\ ticket \in Nat /\ ticket + 1 \in Nat /\ attempt \in Nat
      /\ phone \in [Sessions -> {"none", "pending"} \cup Endings]
      /\ card \in [of : Nat, phase : CardPhases, session : 0..MaxSessions]
      /\ cancelled \in BOOLEAN
  BY DEF CardTypeOK
<1>2. \A phase \in CardPhases : Show(r, phase) => Shown
  BY CardParts, ShownTyped
<1>3. /\ RunOver(r) => Kept
      /\ \A s \in Runs : Replace(r, s) => Kept
  BY <1>1 DEF RunOver, Replace
<1>4. \A s \in Sessions : Push(s) => Rung
  BY <1>1 DEF Push
<1>5. ASSUME NEW s \in Sessions
      PROVE  /\ Replace(r, Watching(r, s)) => Kept
             /\ Replace(r, [Watching(r, s) EXCEPT !.ticket = ticket + 1]) => Kept
             /\ Show(Watching(r, s), "waiting") => Shown
  BY <1>1, <1>3, CardParts, ShownTyped
<1>6. /\ Replace(r, [r EXCEPT !.late = TRUE]) => Kept
      /\ Replace(r, [r EXCEPT !.failures = 0]) => Kept
      /\ Tolerates(r) => (Replace(r, [r EXCEPT !.failures = @ + 1]) => Kept)
  <2>1. Tolerates(r) => r.failures + 1 \in 0..Tolerated
    <3>1. r.failures \in 0..Tolerated /\ Tolerated \in Nat
      BY CardParts, CeremonyAssumption
    <3> QED
      BY <3>1 DEF Tolerates
  <2> QED
    BY <1>3, <2>1, CardParts
<1>7. UNCHANGED card => Shown
  BY <1>1
<1>8. Fresh \subseteq Sessions
  BY DEF Fresh
<1> HIDE DEF Shown, Kept, Rung
<1>9. CASE Left(r) \/ Elapse(r)
  <2>1. Kept /\ UNCHANGED <<phone, card, attempt, ticket, cancelled>>
    BY <1>3, <1>6, <1>9 DEF Left, Elapse
  <2> QED
    BY <1>1, <2>1 DEF CardTypeOK, Kept
<1>10. CASE DialogStarted(r)
  <2>1. /\ Kept /\ Shown /\ (Rung \/ UNCHANGED phone)
        /\ UNCHANGED <<attempt, ticket, cancelled>>
    BY <1>2, <1>3, <1>4, <1>5, <1>7, <1>8, <1>10 DEF DialogStarted
  <2> QED
    BY <1>1, <2>1 DEF CardTypeOK, Kept, Shown, Rung
<1>11. CASE DialogPolled(r)
  <2>1. Kept /\ Shown /\ UNCHANGED <<phone, attempt, ticket, cancelled>>
    BY <1>2, <1>3, <1>6, <1>7, <1>11 DEF DialogPolled
  <2> QED
    BY <1>1, <2>1 DEF CardTypeOK, Kept, Shown
<1>12. CASE LoginStarted(r)
  <2>1. /\ Kept /\ Shown /\ (Rung \/ UNCHANGED phone)
        /\ ticket' \in {ticket, ticket + 1} /\ UNCHANGED <<attempt, cancelled>>
    BY <1>2, <1>3, <1>4, <1>5, <1>7, <1>8, <1>12 DEF LoginStarted, stop
  <2> QED
    BY <1>1, <2>1 DEF CardTypeOK, Kept, Shown, Rung
<1>13. CASE LoginPolled(r) \/ LoginCountdown(r)
  <2>1. /\ Kept \/ UNCHANGED runs
        /\ Shown /\ ticket' \in {ticket, ticket + 1} /\ UNCHANGED <<phone, attempt, cancelled>>
    BY <1>2, <1>3, <1>6, <1>7, <1>13 DEF LoginPolled, LoginCountdown, stop
  <2> QED
    BY <1>1, <2>1 DEF CardTypeOK, Kept, Shown
<1>14. CASE ViewStarted(r)
  <2>1. /\ Kept /\ Shown /\ (Rung \/ UNCHANGED phone)
        /\ UNCHANGED <<attempt, ticket, cancelled>>
    BY <1>2, <1>3, <1>4, <1>5, <1>7, <1>8, <1>14 DEF ViewStarted
  <2> QED
    BY <1>1, <2>1 DEF CardTypeOK, Kept, Shown, Rung
<1>15. CASE ViewPolled(r) \/ ButtonPolled(r)
  <2>1. Kept /\ Shown /\ UNCHANGED <<phone, attempt, ticket, cancelled>>
    BY <1>2, <1>3, <1>15 DEF ViewPolled, ButtonPolled
  <2> QED
    BY <1>1, <2>1 DEF CardTypeOK, Kept, Shown
<1>16. CASE ViewCancelled(r)
  <2>1. Rung
    BY <1>1, <1>16 DEF ViewCancelled, Rung, Endings
  <2>2. cancelled' = cancelled
    BY <1>16 DEF ViewCancelled
  <2>3. CASE r.dead
    <3>1. Kept /\ UNCHANGED <<card, attempt, ticket>>
      BY <1>3, <1>16, <2>3 DEF ViewCancelled
    <3> QED
      BY <1>1, <2>1, <2>2, <3>1 DEF CardTypeOK, Kept, Rung
  <2>4. CASE ~r.dead
    <3>1. Turn("idle", runs \ {r}, ticket) /\ runs \ {r} \subseteq Runs
      BY <1>1, <1>16, <2>4 DEF ViewCancelled
    <3>2. attempt' \in Nat /\ ticket' \in Nat /\ runs' \subseteq Runs
      BY <1>1, <3>1 DEF Turn
    <3>3. card' \in [of : Nat, phase : CardPhases, session : 0..MaxSessions]
      BY <3>1, <3>2, CardParts DEF Turn, BlankCard
    <3> QED
      BY <1>1, <2>1, <2>2, <3>2, <3>3 DEF CardTypeOK, Rung
  <2> QED
    BY <2>3, <2>4
<1> QED
  BY <1>9, <1>10, <1>11, <1>12, <1>13, <1>14, <1>15, <1>16 DEF RunStep

(* For any number of sessions, turns and tolerated failures, the cards, the phones and the runs in
   flight have their types, and no run has counted more failures than are tolerated. *)
THEOREM CardTypesHold == CardSpec => []CardTypeOK
<1>1. CardInit => CardTypeOK
  <2>1. 0 \in 0..MaxSessions
    BY CeremonyAssumption
  <2>2. "none" \in {"none", "pending"} \cup Endings /\ "idle" \in CardPhases
    BY DEF CardPhases
  <2>3. CardInit => phone \in [Sessions -> {"none", "pending"} \cup Endings]
    BY <2>2 DEF CardInit
  <2>4. CardInit => card \in [of : Nat, phase : CardPhases, session : 0..MaxSessions]
    BY <2>1, <2>2 DEF CardInit
  <2>5. CardInit => attempt \in Nat /\ ticket \in Nat
    BY DEF CardInit
  <2>6. CardInit => cancelled \in BOOLEAN /\ runs \subseteq Runs
    BY DEF CardInit
  <2> QED
    BY <2>3, <2>4, <2>5, <2>6, Zenon DEF CardTypeOK
<1>2. CardTypeOK /\ [CardNext /\ UNCHANGED route]_<<route, cardVars>> => CardTypeOK'
  <2>1. CardTypeOK /\ UNCHANGED cardVars => CardTypeOK'
    BY DEF cardVars, CardTypeOK
  <2>2. CardTypeOK /\ Citizen => CardTypeOK'
    BY DEF Citizen, CardTypeOK
  <2> QED
    BY <2>1, <2>2, OperatorTyped, RunStepTyped DEF CardNext
<1> QED
  BY <1>1, <1>2, PTL DEF CardSpec
=============================================================================
