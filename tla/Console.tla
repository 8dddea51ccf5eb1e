------------------------------ MODULE Console ------------------------------
(***************************************************************************)
(* What every screen of the web console rests on: one route is mounted at   *)
(* a time, and a screen learns about the server only through requests       *)
(* (lib/api.ts, lib/gov.ts).  A handler is an async function: what it does  *)
(* between two awaits is one step, everything else may happen in between,   *)
(* and what it read of the screen's state when it was clicked (its closure) *)
(* is carried in the record of its call.                                    *)
(***************************************************************************)
EXTENDS Integers, FiniteSets

VARIABLE route      \* the screen that is mounted

(* How a request can end.  A refusal carries its 4xx status; a request is lost
   on its way there or back, so that whether the server acted is not known. *)
Answers == {"ok", "refused", "lost"}

(* What the server did, for each way a write can end. *)
Commits(answer) == CASE answer = "ok"      -> {TRUE}
                     [] answer = "refused" -> {FALSE}
                     [] answer = "lost"    -> BOOLEAN
=============================================================================
