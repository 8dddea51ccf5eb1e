--------------------------- MODULE TemplateTable ---------------------------
(***************************************************************************)
(* The document templates screen (app/module/documents/templates).  Rows    *)
(* are edited in place while calls about other rows, a create and a load    *)
(* are in flight, and every answer is reconciled with the table as it then  *)
(* is instead of replacing it.                                              *)
(*                                                                          *)
(* A write is served when it is sent; a load is served, and every answer    *)
(* lands, at any later time.  A row's inputs are one text and its tick.     *)
(***************************************************************************)
EXTENDS Console

CONSTANTS
    RowIds,     \* templates there may ever be
    Stocked,    \* the templates there are when the screen is opened
    Texts,      \* what a row's inputs may hold, neither of them blank
    MaxClicks   \* bound on what the operator does: edits and calls

ASSUME TemplatesAssumption == /\ Stocked \subseteq RowIds /\ RowIds \subseteq Nat \ {0}
                              /\ Texts \subseteq Nat \ {0} /\ 1 \in Texts /\ MaxClicks \in Nat

VARIABLES
    held,       \* document_templates: what the server holds
    ever,       \* what it has ever held of each template
    table,      \* the rows on screen
    twice,      \* second copies: a load served a row whose create is answered later
    dirty,      \* dirtyRef: rows with edits that have not been saved
    removed,    \* removedRef
    made,       \* what this operator created, and was not told is gone
    editing,    \* what the operator last typed in each row and has not had saved
    working,    \* busy: a set, not one id
    calls,      \* the calls in flight
    clicks,     \* how much the operator did
    load        \* the load in flight, and whether the last one failed

tableVars == <<held, ever, table, twice, dirty, removed, made, editing, working, calls, clicks, load>>
-----------------------------------------------------------------------------
Contents == [text : Texts, active : BOOLEAN]
Absent == [text |-> 0, active |-> FALSE]
Tables == [RowIds -> Contents \cup {Absent}]
NoRows == [r \in RowIds |-> Absent]
CreateKey == 0                      \* the key "create" in busy

TemplateCalls ==
    [row : RowIds, op : {"create", "save", "use", "delete"}, form : Contents \cup {Absent},
     answer : Answers \cup {"gone", "retired"}, stored : Contents \cup {Absent}]

TablesTypeOK ==
    /\ {held, table, twice, editing} \subseteq Tables
    /\ ever \in [RowIds -> SUBSET Contents]
    /\ {dirty, removed, made} \subseteq SUBSET RowIds
    /\ working \subseteq RowIds \cup {CreateKey}
    /\ calls \subseteq TemplateCalls /\ clicks \in 0..MaxClicks
    /\ load \in [pc : {"none", "asked", "served"}, rows : Tables, failed : BOOLEAN]

OnScreen(r) == table[r] # Absent
Copies(r) == {table[r], twice[r]} \ {Absent}
Without(rs) == [r \in RowIds |-> IF r \in rs THEN Absent ELSE twice[r]]
Loading == load.pc # "none"
Asked == [load EXCEPT !.pc = "asked"]

(* The mount effect's load is in flight. *)
TablesInit ==
    /\ held = [r \in RowIds |-> IF r \in Stocked THEN [text |-> 1, active |-> TRUE] ELSE Absent]
    /\ ever = [r \in RowIds |-> {held[r]} \ {Absent}]
    /\ table = NoRows /\ twice = NoRows /\ editing = NoRows
    /\ dirty = {} /\ removed = {} /\ made = {} /\ working = {}
    /\ calls = {} /\ clicks = 0
    /\ load = [pc |-> "asked", rows |-> NoRows, failed |-> FALSE]
-----------------------------------------------------------------------------
(* The server. *)
Hold(r, c) ==
    /\ held' = [held EXCEPT ![r] = c]
    /\ ever' = [ever EXCEPT ![r] = @ \cup ({c} \ {Absent})]

(* Another administrator retires or deletes a template. *)
AnotherAdmin ==
    /\ \E r \in RowIds : /\ held[r] # Absent
                         /\ \/ held[r].active /\ Hold(r, [held[r] EXCEPT !.active = FALSE])
                            \/ Hold(r, Absent)
    /\ UNCHANGED <<table, twice, dirty, removed, made, editing, working, calls, clicks, load>>

(* A template's id is drawn for it, and never given to another. *)
Unused(r) == ever[r] = {}

Verdict(r, op) ==
    IF op # "create" /\ held[r] = Absent THEN "gone"
    ELSE IF op = "use" /\ ~held[r].active THEN "retired" ELSE "ok"

Effect(r, op, c) == CASE op \in {"create", "save"} -> c
                      [] op = "delete"             -> Absent
                      [] op = "use"                -> held[r]

(* A form may also be refused: a name that is taken, a field that is not plausible. *)
SendsCall(r, op, c, key) ==
    /\ clicks < MaxClicks /\ clicks' = clicks + 1
    /\ working' = working \cup {key}
    /\ \E done \in BOOLEAN, answer \in {Verdict(r, op), "refused", "lost"} :
         /\ answer = "refused" => op # "delete"
         /\ done \in IF Verdict(r, op) = "ok" THEN Commits(answer) ELSE {FALSE}
         /\ IF done THEN Hold(r, Effect(r, op, c)) ELSE UNCHANGED <<held, ever>>
         /\ calls' = calls \cup {[row |-> r, op |-> op, form |-> c, answer |-> answer,
                                  stored |-> IF answer = "ok" THEN Effect(r, op, c) ELSE Absent]}
    /\ UNCHANGED <<table, twice, dirty, removed, made, editing, load>>
-----------------------------------------------------------------------------
(* loadData. *)
Serve ==
    /\ load.pc = "asked"
    /\ load' = [load EXCEPT !.pc = "served", !.rows = held]
    /\ UNCHANGED <<held, ever, table, twice, dirty, removed, made, editing, working, calls, clicks>>

Live == {r \in RowIds : load.rows[r] # Absent} \ removed

ForgetsEdits ==                         \* planted fault: rows created are kept, rows typed in are not
    /\ load.pc = "served"
    /\ table' = [r \in RowIds |-> IF r \in Live THEN load.rows[r] ELSE table[r]]
    /\ twice' = Without(Live)
    /\ load' = [pc |-> "none", rows |-> NoRows, failed |-> FALSE]
    /\ UNCHANGED <<held, ever, dirty, removed, made, editing, working, calls, clicks>>

(* Reconciled, not replaced: served rows that are dirty on screen are kept as typed,
   rows on screen that were not served are kept, rows that were deleted stay gone. *)
LoadLands ==
    /\ load.pc = "served"
    /\ table' = [r \in RowIds |-> IF r \in Live /\ ~(r \in dirty /\ OnScreen(r))
                                  THEN load.rows[r] ELSE table[r]]
    /\ twice' = Without(Live)
    /\ load' = [pc |-> "none", rows |-> NoRows, failed |-> FALSE]
    /\ UNCHANGED <<held, ever, dirty, removed, made, editing, working, calls, clicks>>

TemplatesLoadFails ==
    /\ Loading
    /\ load' = [pc |-> "none", rows |-> NoRows, failed |-> TRUE]
    /\ UNCHANGED <<held, ever, table, twice, dirty, removed, made, editing, working, calls, clicks>>
-----------------------------------------------------------------------------
(* The rows are not there while a load runs; the form that creates one is.  Retry is
   under the table: a screen with no rows has none. *)
Usable(r) == OnScreen(r) /\ ~Loading

RetryOffered == load.failed /\ ~Loading /\ \E r \in RowIds : OnScreen(r)
SaveOffered(r) == Usable(r) /\ r \notin working
UseOffered(r, tpl) == SaveOffered(r) /\ tpl.active /\ r \notin dirty

RetryLoad ==
    /\ RetryOffered /\ clicks < MaxClicks
    /\ clicks' = clicks + 1
    /\ load' = Asked
    /\ UNCHANGED <<held, ever, table, twice, dirty, removed, made, editing, working, calls>>

(* A patch goes to every row with the id. *)
Patch(f, r, c) == [f EXCEPT ![r] = IF @ = Absent THEN @ ELSE c]
Retyped(c, text) == [c EXCEPT !.text = text]
Ticked(c, tick) == [c EXCEPT !.active = tick]

EditedClean(r, first, second) ==        \* planted fault: an edit does not mark its row
    /\ Usable(r) /\ clicks < MaxClicks /\ clicks' = clicks + 1
    /\ table' = Patch(table, r, first) /\ twice' = Patch(twice, r, second)
    /\ editing' = [editing EXCEPT ![r] = first]
    /\ UNCHANGED <<held, ever, dirty, removed, made, working, calls, load>>

Edited(r, first, second) ==
    /\ Usable(r) /\ clicks < MaxClicks /\ clicks' = clicks + 1
    /\ table' = Patch(table, r, first) /\ twice' = Patch(twice, r, second)
    /\ editing' = [editing EXCEPT ![r] = first]
    /\ dirty' = dirty \cup {r}
    /\ UNCHANGED <<held, ever, removed, made, working, calls, load>>

edit(r) ==
    \/ \E text \in Texts : Edited(r, Retyped(table[r], text), Retyped(twice[r], text))
    \/ \E tick \in BOOLEAN : Edited(r, Ticked(table[r], tick), Ticked(twice[r], tick))

handleCreateTemplate(r) ==
    /\ CreateKey \notin working /\ Unused(r) /\ \A c \in calls : c.row # r
    /\ \E text \in Texts : SendsCall(r, "create", [text |-> text, active |-> TRUE], CreateKey)

handleSave(r)   == SaveOffered(r) /\ \E tpl \in Copies(r) : SendsCall(r, "save", tpl, r)
handleUse(r)    == \E tpl \in Copies(r) : UseOffered(r, tpl) /\ SendsCall(r, "use", tpl, r)
handleDelete(r) == SaveOffered(r) /\ SendsCall(r, "delete", table[r], r)
-----------------------------------------------------------------------------
Key(c) == IF c.op = "create" THEN CreateKey ELSE c.row

CallOver(c) == calls' = calls \ {c} /\ working' = working \ {Key(c)}

(* The row is dropped, and no load may bring it back. *)
Drop(r) ==
    /\ removed' = removed \cup {r}
    /\ table' = [table EXCEPT ![r] = Absent]
    /\ made' = made \ {r} /\ twice' = Without({r})
    /\ editing' = [editing EXCEPT ![r] = Absent]
    /\ UNCHANGED dirty

(* edit(..., true): what the server said of a row is applied to it, if it is there. *)
Settle(r, first, second) ==
    /\ table' = Patch(table, r, first) /\ twice' = Patch(twice, r, second)
    /\ dirty' = dirty \ {r}
    /\ editing' = [editing EXCEPT ![r] = Absent]
    /\ UNCHANGED <<removed, made>>

Saved(c) == Settle(c.row, c.stored, c.stored)

(* A refused use retires the row on screen: everything else typed in it stays, and is
   no longer taken to be unsaved. *)
Retired(c) == c.form.active /\ Settle(c.row, Ticked(table[c.row], FALSE), Ticked(twice[c.row], FALSE))

(* Appended to the rows as they now are. *)
Created(c) ==
    /\ IF OnScreen(c.row)
       THEN twice' = [twice EXCEPT ![c.row] = c.stored] /\ UNCHANGED table
       ELSE table' = [table EXCEPT ![c.row] = c.stored] /\ UNCHANGED twice
    /\ made' = made \cup {c.row}
    /\ UNCHANGED <<dirty, removed, editing>>

Nothing == UNCHANGED <<table, twice, dirty, removed, made, editing>>

Answered(c) ==
    /\ CASE c.answer = "ok" /\ c.op = "create" -> Created(c)
         [] c.answer = "ok" /\ c.op = "save"   -> Saved(c)
         [] c.answer = "ok" /\ c.op = "delete" -> Drop(c.row)
         [] c.answer = "gone"                  -> Drop(c.row)
         [] c.answer = "retired"               -> Retired(c)
         [] OTHER                              -> Nothing
    /\ CallOver(c)
    /\ UNCHANGED <<held, ever, clicks, load>>

TablesNext ==
    \/ AnotherAdmin \/ Serve \/ LoadLands \/ TemplatesLoadFails \/ RetryLoad
    \/ \E r \in RowIds : \/ edit(r) \/ handleCreateTemplate(r)
                         \/ handleSave(r) \/ handleUse(r) \/ handleDelete(r)
    \/ \E c \in calls : Answered(c)

TablesSpec == TablesInit /\ [][TablesNext /\ UNCHANGED route]_<<route, tableVars>>
-----------------------------------------------------------------------------
(* The Use button acts on what the server holds: whatever loads, saves and refusals
   overlap, it is never offered on a row whose inputs the server has not held. *)
UseIsOfHeld == \A r \in RowIds : \A tpl \in Copies(r) : UseOffered(r, tpl) => tpl \in ever[r]

(* A row the operator created stays on screen until they are told it is gone. *)
CreatedStay == \A r \in made : OnScreen(r)

(* One they saw disappear stays away: only the answer to its own create puts it back. *)
DeletedStayAway == \A r \in removed : OnScreen(r) => r \in made

(* A row marked unsaved, and not deleted, shows what they last typed in it. *)
UnsavedIsAsTyped == \A r \in dirty \ removed : OnScreen(r) => table[r] = editing[r]

(* No load that was in flight, and no answer about another row, takes a row the operator
   made off the screen, brings back one they deleted, or puts anything else under their
   hands than what they are typing. *)
OperatorsRowsKept == CreatedStay /\ DeletedStayAway /\ UnsavedIsAsTyped
=============================================================================
