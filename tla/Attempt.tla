------------------------------ MODULE Attempt ------------------------------
(***************************************************************************)
(* What a card that runs a ceremony with a citizen's phone promises.  The   *)
(* operator begins attempts and leaves them; only the attempt they are in   *)
(* moves the card, and an attempt that was left never shows again.          *)
(***************************************************************************)
EXTENDS Naturals

VARIABLES
    current,    \* the number of the attempt the operator is in, or was last
    shown       \* [of |-> the attempt the card shows, phase |-> how far it is]

attemptVars == <<current, shown>>

Phases == {"idle", "starting", "waiting", "done", "failed"}

Follows == [idle |-> {}, starting |-> {"waiting", "failed"},
            waiting |-> {"done", "failed"}, done |-> {}, failed |-> {}]

AttemptInit == current = 0 /\ shown = [of |-> 0, phase |-> "idle"]

(* The operator begins an attempt, or leaves the one they are in. *)
Turn ==
    /\ current' = current + 1
    /\ shown' \in [of : {current + 1}, phase : {"idle", "starting"}]

(* The attempt gets further: what the card shows is of the attempt it is in. *)
Moves ==
    /\ current' = current
    /\ shown.of = current
    /\ shown' \in [of : {current}, phase : Follows[shown.phase]]

AttemptSpec == AttemptInit /\ [][Turn \/ Moves]_attemptVars
=============================================================================
