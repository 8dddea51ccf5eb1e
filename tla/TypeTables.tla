----------------------------- MODULE TypeTables -----------------------------
(***************************************************************************)
(* The three screens with one row per document type (app/module/documents/  *)
(* workflows, retention and signatures).  Inputs stay editable while a save *)
(* is in flight; only the row that was saved is replaced by what the server *)
(* stored, by a rule of its own on each screen.                             *)
(*                                                                          *)
(* A save is served when it is sent, and its answer lands at any later time.*)
(***************************************************************************)
EXTENDS Console

CONSTANTS
    Types,      \* document types
    MaxSaves    \* bound on the saves of a run

ASSUME TypesAssumption == MaxSaves \in Nat

VARIABLES
    stored,     \* what the server holds for each type
    shown,      \* the rows on screen
    typed,      \* what the operator typed in a row, until an answer about it is given
    counted,    \* retention: the term the row's count of expired documents is of
    told,       \* retention: the term the row was last told is stored
    saving,     \* busy: one id for the whole table
    saves,      \* the saves in flight
    saveCount,
    opened      \* the load of the mount effect

typeVars == <<stored, shown, typed, counted, told, saving, saves, saveCount, opened>>
-----------------------------------------------------------------------------
TypeRoutes == {"workflows", "retention", "signatures"}

(* What the inputs of a row hold.  A spaced text is stored trimmed, and a blank one
   (a step without a name, no years, no channel) cannot be saved. *)
Inputs == {"blank", "one", "two", "spaced"}
Trimmed(c) == IF c = "spaced" THEN "two" ELSE c
Unknown == "unknown"

Saves == [type : Types, row : Inputs, answer : Answers, stored : Inputs \cup {Unknown},
          counts : BOOLEAN, n : Nat, pc : {"save", "reread"}]

TypesTypeOK ==
    /\ stored \in [Types -> Inputs] /\ shown \in [Types -> Inputs]
    /\ {typed, counted, told} \subseteq [Types -> Inputs \cup {Unknown}]
    /\ saving \in Types \cup {Unknown}
    /\ saves \subseteq Saves /\ saveCount \in 0..MaxSaves
    /\ opened \in {"loading", "loaded", "failed"}

(* The table is only drawn once the load has succeeded, and there is no second one. *)
TypesInit ==
    /\ stored = [d \in Types |-> "one"] /\ shown = stored
    /\ typed = [d \in Types |-> Unknown] /\ saves = {} /\ saveCount = 0
    /\ told = stored
    /\ counted = [d \in Types |-> IF route = "retention" THEN "one" ELSE Unknown]
    /\ saving = Unknown /\ opened = "loading"

loadTypes ==
    /\ opened = "loading"
    /\ opened' \in {"loaded", "failed"}
    /\ UNCHANGED <<stored, shown, typed, counted, told, saving, saves, saveCount>>
-----------------------------------------------------------------------------
editType(d, c) ==
    /\ opened = "loaded" /\ shown[d] # c
    /\ shown' = [shown EXCEPT ![d] = c]
    /\ typed' = [typed EXCEPT ![d] = c]
    /\ UNCHANGED <<stored, counted, told, saving, saves, saveCount, opened>>

SavesOffered(d) == opened = "loaded" /\ saving # d /\ shown[d] # "blank"

saveType(d) ==
    /\ SavesOffered(d) /\ saveCount < MaxSaves
    /\ saving' = d /\ saveCount' = saveCount + 1
    /\ \E answer \in Answers, done \in BOOLEAN, counts \in BOOLEAN :
         /\ done \in Commits(answer)
         /\ stored' = IF done THEN [stored EXCEPT ![d] = Trimmed(shown[d])] ELSE stored
         /\ saves' = saves \cup {[type |-> d, row |-> shown[d], answer |-> answer, n |-> saveCount,
                                  stored |-> IF answer = "ok" THEN stored'[d] ELSE Unknown,
                                  counts |-> counts /\ route = "retention", pc |-> "save"]}
    /\ UNCHANGED <<shown, typed, counted, told, opened>>
-----------------------------------------------------------------------------
SaveOver(c) == saves' = saves \ {c} /\ saving' = Unknown

Told(d, c) == told' = IF route = "retention" THEN [told EXCEPT ![d] = c] ELSE told

MergeAll(d, c) ==                       \* planted fault: the table is read again
    /\ shown' = stored
    /\ typed' = [typed EXCEPT ![d] = Unknown]
    /\ Told(d, c)

(* The row is replaced, and with it whatever was typed in it. *)
Merge(d, c) ==
    /\ shown' = [shown EXCEPT ![d] = c]
    /\ typed' = [typed EXCEPT ![d] = Unknown]
    /\ Told(d, c)

(* workflows: only if the row still holds what was sent. *)
ChainSaved(c) ==
    /\ IF shown[c.type] = c.row THEN Merge(c.type, c.stored) ELSE UNCHANGED <<shown, typed, told>>
    /\ UNCHANGED counted

StaleCount(c) ==                        \* planted fault: an absent count is merged as absent
    /\ Merge(c.type, c.stored)
    /\ counted' = IF c.counts THEN [counted EXCEPT ![c.type] = c.stored] ELSE counted

(* retention: the count is named in the patch, so that one the server could not take
   clears the row's old one. *)
TermSaved(c) ==
    /\ Merge(c.type, c.stored)
    /\ counted' = [counted EXCEPT ![c.type] = IF c.counts THEN c.stored ELSE Unknown]

PolicySaved(c) == Merge(c.type, c.stored) /\ UNCHANGED counted

SaveAnswered(c) ==
    /\ c.pc = "save" /\ c.answer = "ok"
    /\ \/ route = "workflows"  /\ ChainSaved(c)
       \/ route = "retention"  /\ TermSaved(c)
       \/ route = "signatures" /\ PolicySaved(c)
    /\ SaveOver(c)
    /\ UNCHANGED <<stored, saveCount, opened>>

(* The draft stays on screen, to be corrected. *)
SaveFailed(c) ==
    /\ c.pc = "save" /\ c.answer # "ok" /\ route # "signatures"
    /\ SaveOver(c)
    /\ UNCHANGED <<stored, shown, typed, counted, told, saveCount, opened>>

(* signatures: the policies are read again, and the row goes back to what is stored. *)
Reread(c) ==
    /\ c.pc = "save" /\ c.answer # "ok" /\ route = "signatures"
    /\ saves' = (saves \ {c}) \cup {[c EXCEPT !.pc = "reread", !.stored = stored[c.type]]}
    /\ UNCHANGED <<stored, shown, typed, counted, told, saving, saveCount, opened>>

RereadLands(c) ==
    /\ c.pc = "reread"
    /\ Merge(c.type, c.stored)
    /\ SaveOver(c)
    /\ UNCHANGED <<stored, counted, saveCount, opened>>

RereadFails(c) ==
    /\ c.pc = "reread"
    /\ SaveOver(c)
    /\ UNCHANGED <<stored, shown, typed, counted, told, saveCount, opened>>

TypesNext ==
    \/ loadTypes
    \/ \E d \in Types : saveType(d) \/ \E c \in Inputs : editType(d, c)
    \/ \E c \in saves : SaveAnswered(c) \/ SaveFailed(c) \/ Reread(c) \/ RereadLands(c) \/ RereadFails(c)

TypesSpec == TypesInit /\ [][TypesNext /\ UNCHANGED route]_<<route, typeVars>>
-----------------------------------------------------------------------------
(* Typed work is never lost without an answer about its own row: a save of another
   type, a refusal or a lost request leaves it on screen; and on the workflows screen
   not even an answer about the row itself does, unless the row still holds exactly
   what was sent. *)
TypedWorkIsKept == \A d \in Types : typed[d] # Unknown => shown[d] = typed[d]

(* Beside a term stands a count taken against that very term, or none. *)
CountBelongsToTerm == \A d \in Types : counted[d] \in {Unknown, told[d]}
=============================================================================
