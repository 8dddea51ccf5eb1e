------------------------------ MODULE Frontend ------------------------------
(***************************************************************************)
(* The web console: its screens side by side.  One route is mounted, and    *)
(* stays: leaving a screen unmounts it, and coming back begins it anew.     *)
(* Where a card or a batch is left for another of its own kind, its module  *)
(* says what outlives it.                                                   *)
(***************************************************************************)
EXTENDS DocumentList, Ceremony, TemplateTable, TypeTables, TaskQueue, BatchRun, FormScreens, Shell

frontVars == <<route, listVars, cardVars, tableVars, typeVars, queueVars, batchVars, formVars, shellVars>>

Routes == ListRoutes \cup Cards \cup {"templates"} \cup TypeRoutes \cup {"requests", "batch"}
          \cup DOMAIN Screens \cup ShellRoutes

(* A screen that is not mounted is in one state, whichever that is. *)
FrontInit ==
    /\ route \in Routes
    /\ ListInit /\ CardInit /\ TablesInit /\ TypesInit /\ QueueInit /\ BatchInit /\ FormsInit /\ ShellInit
    /\ route \notin ListRoutes => \A d \in Docs : store[d].status # "PENDING_APPROVAL"

OnList   == ListNext   /\ UNCHANGED <<cardVars, tableVars, typeVars, queueVars, batchVars, formVars, shellVars>>
OnCard   == CardNext   /\ UNCHANGED <<listVars, tableVars, typeVars, queueVars, batchVars, formVars, shellVars>>
OnTables == TablesNext /\ UNCHANGED <<listVars, cardVars, typeVars, queueVars, batchVars, formVars, shellVars>>
OnTypes  == TypesNext  /\ UNCHANGED <<listVars, cardVars, tableVars, queueVars, batchVars, formVars, shellVars>>
OnQueue  == QueueNext  /\ UNCHANGED <<listVars, cardVars, tableVars, typeVars, batchVars, formVars, shellVars>>
OnBatch  == BatchNext  /\ UNCHANGED <<listVars, cardVars, tableVars, typeVars, queueVars, formVars, shellVars>>
OnForms  == FormsNext  /\ UNCHANGED <<listVars, cardVars, tableVars, typeVars, queueVars, batchVars, shellVars>>
OnShell  == ShellNext  /\ UNCHANGED <<listVars, cardVars, tableVars, typeVars, queueVars, batchVars, formVars>>

FrontNext ==
    /\ UNCHANGED route
    /\ \/ route \in ListRoutes     /\ OnList
       \/ route \in Cards          /\ OnCard
       \/ route = "templates"      /\ OnTables
       \/ route \in TypeRoutes     /\ OnTypes
       \/ route = "requests"       /\ OnQueue
       \/ route = "batch"          /\ OnBatch
       \/ route \in DOMAIN Screens /\ OnForms
       \/ route \in ShellRoutes    /\ OnShell

FrontSpec == FrontInit /\ [][FrontNext]_frontVars /\ ListFairness /\ CardFairness
-----------------------------------------------------------------------------
(* Nothing is left spinning: whichever load of a list is superseded, fails or lands; and
   a card that waits for the citizen stops although the phone is never answered and polls
   get lost.  The sign tab and the sign button wait for as long as it takes. *)
Spinning ==
    \/ route \in ListRoutes /\ loading
    \/ route \in {"SignatureDialog", "EIDLogin"} /\ card.phase = "waiting"


(* The screen that is mounted keeps its state of the types its module gives it. *)
FrontendTypeOK ==
    CASE route \in ListRoutes     -> ListTypeOK
      [] route \in Cards          -> CardTypeOK
      [] route = "templates"      -> TablesTypeOK
      [] route \in TypeRoutes     -> TypesTypeOK
      [] route = "requests"       -> QueueTypeOK
      [] route = "batch"          -> BatchTypeOK
      [] route \in DOMAIN Screens -> FormsTypeOK
      [] route \in ShellRoutes    -> ShellTypeOK
=============================================================================
