---------------------------- MODULE FormScreens ----------------------------
(***************************************************************************)
(* The screens that read something when they open and carry forms that     *)
(* write it: nineteen of them, by one shape.  A screen is a record of what  *)
(* its handlers and controls do differently: which forms a flag disables,   *)
(* what the spinner hides, what a write is followed by, and what else makes *)
(* the screen read again.  None of them numbers its reads, so that of two   *)
(* in flight the one that lands last is shown.                              *)
(*                                                                          *)
(* A write is handled by the server some time after it is sent, and its     *)
(* answer lands some time after that: reads and other writes come between.  *)
(* A read is handled when it is sent, and lands later: handled later it     *)
(* would hold more of this screen's own writes, never fewer.  What is on    *)
(* screen is the set of those writes that it holds.                         *)
(***************************************************************************)
EXTENDS Console

CONSTANTS
    MaxWrites,      \* bound on the forms submitted
    MaxReads        \* bound on the reads of a run

ASSUME FormsAssumption == MaxWrites \in Nat /\ MaxReads \in Nat \ {0}

VARIABLES
    kept,           \* the writes the server has taken
    shownNow,       \* what is on screen, and which filter it answers
    question,       \* the filter in the controls
    reading,        \* the reads in flight
    writing,        \* the writes in flight
    off,            \* saving, busy, actionLoading: the form that raised the flag
    spins,          \* loading
    loaded,         \* a read has landed
    readFailed,     \* the last read to end failed
    toldOf,         \* the writes the operator was told of
    begun, sent,    \* how many reads and writes were begun
    raced           \* what overlapped since the last read that began alone

formVars == <<kept, shownNow, question, reading, writing, off, spins, loaded, readFailed,
              toldOf, begun, sent, raced>>
-----------------------------------------------------------------------------
(* The screens.  after: a write is followed by a read, by putting its answer on
   screen, or by nothing, the screen holding it already.  guard: the flag disables
   every form, or only the row that raised it; "raises" heeds no flag itself.
   hidden: the forms behind the spinner; inRows: those that stand in what was read. *)
Plain == [after  |-> [create |-> "read"], guard |-> [create |-> "none"],
          hidden |-> {}, inRows |-> {},
          spinner |-> "load",       \* every read lowers it, or only the "effect" that raised it,
                                    \* or it is the "first" one's
          each |-> FALSE,           \* every read raises it
          language |-> FALSE,       \* the effect runs again when the language changes
          rereads |-> FALSE,        \* a button that reads again, never disabled
          filters |-> FALSE]

contacts == Plain
products == Plain
billing == [Plain EXCEPT !.each = TRUE]
developer == Plain

inventory == [Plain EXCEPT !.after = [warehouse |-> "read", stock |-> "read"],
                           !.guard = [warehouse |-> "none", stock |-> "none"]]

Toggles == [Plain EXCEPT !.after = [one |-> "read", other |-> "read"],
                         !.guard = [one |-> "row", other |-> "row"],
                         !.hidden = {"one", "other"}, !.inRows = {"one", "other"},
                         !.language = TRUE]
store_apps == Toggles
installed_apps == Toggles

ai == [Plain EXCEPT !.after = [prompt |-> "own", knowledge |-> "read"],
                    !.guard = [prompt |-> "none", knowledge |-> "none"], !.inRows = {"prompt"}]

integrations == [Plain EXCEPT !.after = [create |-> "read", one |-> "read", other |-> "read"],
                              !.guard = [create |-> "none", one |-> "row", other |-> "row"],
                              !.hidden = {"one", "other"}, !.inRows = {"one", "other"},
                              !.each = TRUE, !.language = TRUE, !.rereads = TRUE]

email_verification == [Plain EXCEPT !.after = [test |-> "read"], !.guard = [test |-> "all"],
                                    !.hidden = {"test"}, !.inRows = {"test"},
                                    !.each = TRUE, !.language = TRUE, !.rereads = TRUE]

(* The screens of the government services: the page is not there while its effect
   loads, and one flag, raised until the reload is over, disables its forms. *)
Gated(forms) == [Plain EXCEPT !.after = [f \in forms |-> "read"], !.guard = [f \in forms |-> "all"],
                              !.hidden = forms, !.spinner = "effect", !.language = TRUE]

workflow == Gated({"unit", "template", "rule"})
appointments == Gated({"book"})
sla == Gated({})

(* A service's selects are never disabled by the flag they raise. *)
catalog == [Gated({"create", "configure"}) EXCEPT !.guard.configure = "raises", !.inRows = {"configure"}]

(* The settings of the signing app: the answer to a save is put on screen. *)
Settings(form) == [Plain EXCEPT !.after = [f \in {form} |-> "answer"], !.guard = [f \in {form} |-> "all"],
                                !.hidden = {form}, !.inRows = {form},
                                !.spinner = "first", !.language = TRUE]

policies == Settings("policy")
placement == Settings("placement")
hsm == Settings("test")

logs == [Gated({}) EXCEPT !.spinner = "load", !.each = TRUE, !.filters = TRUE]

(* The sign tab calls back when a ceremony is over, and the register is read again.
   Either dialog can be closed and opened anew while its call is in flight, and so
   its own flag keeps no second call away. *)
esign == [Gated({}) EXCEPT !.after = [upload |-> "read", sign |-> "read", archive |-> "read"],
                           !.guard = [upload |-> "none", sign |-> "none", archive |-> "none"],
                           !.hidden = {"sign", "archive"}, !.inRows = {"sign", "archive"}, !.rereads = TRUE]

Screens == [contacts |-> contacts, products |-> products, billing |-> billing, developer |-> developer,
            inventory |-> inventory, store_apps |-> store_apps, installed_apps |-> installed_apps, ai |-> ai,
            integrations |-> integrations, email_verification |-> email_verification, workflow |-> workflow,
            appointments |-> appointments, sla |-> sla, catalog |-> catalog, policies |-> policies,
            placement |-> placement, hsm |-> hsm, logs |-> logs, esign |-> esign]

Page == Screens[route]
Forms == DOMAIN Page.after
Nobody == "nobody"
-----------------------------------------------------------------------------
Writes == SUBSET (1..MaxWrites)
Questions == {"all", "some"}
Views == [rows : Writes, of : Questions]
Reasons == {"mount", "write", "button", "language"}
FormReads == [n : 1..MaxReads, rows : Writes, of : Questions, why : Reasons]
FormWrites == [n : 1..MaxWrites, form : Forms, ends : Answers \cup {"sent"}, got : Writes, read : 0..MaxReads]

FormsTypeOK ==
    /\ {kept, toldOf} \subseteq Writes /\ shownNow \in Views /\ question \in Questions
    /\ reading \subseteq FormReads /\ writing \subseteq FormWrites
    /\ off \in Forms \cup {Nobody}
    /\ {spins, loaded, readFailed} \subseteq BOOLEAN
    /\ begun \in 0..MaxReads /\ sent \in 0..MaxWrites
    /\ raced \subseteq {"clicks", "language"}

(* The mount effect's read is in flight. *)
FormsInit ==
    /\ kept = {} /\ toldOf = {} /\ question = "all" /\ shownNow = [rows |-> {}, of |-> "all"]
    /\ reading = {[n |-> 1, rows |-> {}, of |-> "all", why |-> "mount"]} /\ begun = 1
    /\ writing = {} /\ sent = 0 /\ off = Nobody
    /\ spins = TRUE /\ loaded = FALSE /\ readFailed = FALSE /\ raced = {}
-----------------------------------------------------------------------------
(* Bound: a write in flight may still need a read. *)
Due == {w \in writing : w.read = 0 /\ w.ends \in {"sent", "ok"} /\ Page.after[w.form] = "read"}
ReadRoom == begun + Cardinality(Due) < MaxReads

Cause(whys) == IF "language" \in whys THEN {"language"} ELSE {"clicks"}

(* A write that no read follows may be handled after a read that is sent while it is under
   way, and be shown before that read lands. *)
Unfollowed == {w \in writing : Page.after[w.form] # "read"}

BeginRead(why, of, wanted) ==
    /\ begun' = begun + 1
    /\ reading' = reading \cup {[n |-> begun + 1, rows |-> kept, of |-> of, why |-> why]}
    /\ spins' = (spins \/ Page.each \/ (why = "language" /\ Page.spinner # "first"))
    /\ raced' = (IF reading = {} THEN {} ELSE raced \cup Cause({why} \cup {r.why : r \in reading}))
                \cup (IF of = wanted THEN {} ELSE {"language"})
                \cup (IF Unfollowed = {} THEN {} ELSE Cause({why}))

(* Whoever awaited a read goes on, and lowers the flag it raised. *)
ReadOver(r) ==
    LET over == {w \in writing : w.read = r.n} IN
    /\ reading' = reading \ {r}
    /\ writing' = writing \ over
    /\ off' = IF \E w \in over : Page.guard[w.form] # "none" THEN Nobody ELSE off
    /\ spins' = (spins /\ Page.spinner = "effect" /\ r.why \notin {"mount", "language"})
    /\ UNCHANGED <<kept, question, toldOf, begun, sent, raced>>

ReadLands(r) ==
    /\ shownNow' = [rows |-> r.rows, of |-> r.of]
    /\ loaded' = TRUE /\ readFailed' = FALSE
    /\ ReadOver(r)

ReadFails(r) ==
    /\ readFailed' = TRUE
    /\ ReadOver(r)
    /\ UNCHANGED <<shownNow, loaded>>
-----------------------------------------------------------------------------
FormOffersAlways(f) == TRUE                 \* planted fault: the flag disables nothing

FormOffers(f) ==
    /\ f \in Page.hidden => ~spins
    /\ f \in Page.inRows => loaded
    /\ CASE Page.guard[f] = "all" -> off = Nobody
         [] Page.guard[f] = "row" -> off # f
         [] OTHER                 -> TRUE

Submit(f) ==
    /\ FormOffers(f) /\ sent < MaxWrites
    /\ Page.after[f] = "read" => ReadRoom
    /\ sent' = sent + 1
    /\ off' = IF Page.guard[f] = "none" THEN off ELSE f
    /\ writing' = writing \cup {[n |-> sent + 1, form |-> f, ends |-> "sent", got |-> {}, read |-> 0]}
    /\ shownNow' = IF Page.after[f] = "own" THEN [shownNow EXCEPT !.rows = @ \cup {sent + 1}] ELSE shownNow
    /\ raced' = IF Page.after[f] = "read" \/ reading = {} THEN raced
                ELSE raced \cup Cause({r.why : r \in reading})
    /\ UNCHANGED <<kept, question, reading, spins, loaded, readFailed, toldOf, begun>>

(* The server handles a write, or it is lost; its answer tells what is stored by then. *)
WriteServed(w) ==
    /\ w.ends = "sent"
    /\ \E answer \in Answers, done \in BOOLEAN :
         /\ done \in Commits(answer)
         /\ kept' = IF done THEN kept \cup {w.n} ELSE kept
         /\ writing' = (writing \ {w}) \cup {[w EXCEPT !.ends = answer, !.got = kept']}
    /\ UNCHANGED <<shownNow, question, reading, off, spins, loaded, readFailed, toldOf, begun, sent, raced>>

Unread(w) == w.read = 0
Done(w) ==
    /\ writing' = writing \ {w}
    /\ off' = IF Page.guard[w.form] = "none" THEN off ELSE Nobody

(* The form closes, and the screen is read again; its flag stays up until that is over. *)
WriteThenRead(w) ==
    /\ Unread(w) /\ w.ends = "ok" /\ Page.after[w.form] = "read"
    /\ toldOf' = toldOf \cup {w.n}
    /\ BeginRead("write", question, question)
    /\ writing' = (writing \ {w}) \cup {[w EXCEPT !.read = begun + 1]}
    /\ UNCHANGED <<kept, shownNow, question, off, loaded, readFailed, sent>>

WriteShown(w) ==
    /\ Unread(w) /\ w.ends = "ok" /\ Page.after[w.form] # "read"
    /\ toldOf' = toldOf \cup {w.n}
    /\ shownNow' = IF Page.after[w.form] = "answer" THEN [shownNow EXCEPT !.rows = w.got] ELSE shownNow
    /\ Done(w)
    /\ UNCHANGED <<kept, question, reading, spins, loaded, readFailed, begun, sent, raced>>

WriteFails(w) ==
    /\ Unread(w) /\ w.ends \in {"refused", "lost"}
    /\ Done(w)
    /\ UNCHANGED <<kept, shownNow, question, reading, spins, loaded, readFailed, toldOf, begun, sent, raced>>
-----------------------------------------------------------------------------
(* The language may be switched at any time: the switcher stands in the shell.  What
   the effect then reads is what it read first. *)
SwitchLanguage ==
    /\ Page.language /\ ReadRoom
    /\ BeginRead("language", "all", question)
    /\ UNCHANGED <<kept, shownNow, question, writing, off, loaded, readFailed, toldOf, sent>>

ReadAgain ==
    /\ Page.rereads /\ ReadRoom
    /\ BeginRead("button", question, question)
    /\ UNCHANGED <<kept, shownNow, question, writing, off, loaded, readFailed, toldOf, sent>>

applyFilter(q) ==
    /\ Page.filters /\ q # question /\ ReadRoom
    /\ question' = q
    /\ BeginRead("button", q, q)
    /\ UNCHANGED <<kept, shownNow, writing, off, loaded, readFailed, toldOf, sent>>

FormsNext ==
    \/ SwitchLanguage \/ ReadAgain \/ \E q \in Questions : applyFilter(q)
    \/ \E f \in Forms : Submit(f)
    \/ \E r \in reading : ReadLands(r) \/ ReadFails(r)
    \/ \E w \in writing : WriteServed(w) \/ WriteThenRead(w) \/ WriteShown(w) \/ WriteFails(w)

FormsSpec == FormsInit /\ [][FormsNext /\ UNCHANGED route]_<<route, formVars>>
-----------------------------------------------------------------------------
Settled == reading = {} /\ writing = {} /\ ~readFailed
UpToDate == toldOf \subseteq shownNow.rows /\ shownNow.of = question

(* The screens on which nothing but a switch of the language can make two reads of one
   screen overlap. *)
OneAtATime ==
    /\ ~Page.rereads /\ ~Page.filters
    /\ \A f \in Forms : Page.guard[f] = "all"

(* When nothing is in flight and the last read succeeded, the screen shows every write
   the operator was told of, and answers the filter in its controls, unless two of its
   reads overlapped, or a read and a write that no read follows; and where one flag
   disables every form until the reload is over, unless the language was switched
   meanwhile. *)
OwnWritesShow ==
    Settled /\ ~UpToDate => IF OneAtATime THEN "language" \in raced ELSE raced # {}
=============================================================================
