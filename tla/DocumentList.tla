---------------------------- MODULE DocumentList ----------------------------
(***************************************************************************)
(* The documents list and the approval queue (app/documents/page.tsx,       *)
(* app/module/documents/approvals/page.tsx) with the actions they share     *)
(* (useDocumentActions, RowActions).  Both read one collection page by page *)
(* behind a ticket, so that only the newest load writes the table; actions  *)
(* on rows refresh it when they are done.                                   *)
(*                                                                          *)
(* A request is served when it is sent, and its answer lands at any later   *)
(* time: what somebody else does in between is as if done just before.      *)
(* A row set is a set of rows: their order is that of the ids.              *)
(***************************************************************************)
EXTENDS Console

CONSTANTS
    Docs,           \* ids, in the order of creation
    PAGE,           \* rows in an answer
    MaxTicket,      \* bound on the loads of a run
    Drafts,         \* documents of before routing on creation, still drafts
    SearchTexts           \* what may be typed into the search box

ASSUME ListAssumption == Docs \subseteq Nat \ {0} /\ IsFiniteSet(Docs) /\ Drafts \subseteq Docs /\ PAGE \in Nat \ {0}
                         /\ MaxTicket \in Nat \ {0} /\ "" \in SearchTexts

VARIABLES
    store,          \* document_records: what the server holds
    rows,           \* the table on screen
    loadedFilter,   \* the filter the rows were fetched under
    filter,         \* what is in the controls
    typing,         \* the search box has the focus
    loading, loadFailed, hasMore,
    answered,       \* a load has succeeded
    loadTicket,
    lastAsked,      \* the filter the operator asked for last, with the controls
    overtaken,      \* another question has been asked since, for the operator
    loads,          \* the loads in flight
    acts,           \* the actions in flight
    busy,           \* the rows whose buttons are disabled
    modal           \* the dialog that covers the page, if any

standing == <<lastAsked, overtaken>>
listVars == <<store, rows, loadedFilter, filter, typing, loading, loadFailed, hasMore,
              answered, loadTicket, standing, loads, acts, busy, modal>>
-----------------------------------------------------------------------------
ListRoutes == {"documents", "approvals"}

Statuses == {"absent", "DRAFT", "PENDING_APPROVAL", "APPROVED", "REJECTED"}
Filters == [q : SearchTexts, status : {"", "PENDING_APPROVAL"}]
Everything == [q |-> "", status |-> ""]
Waiting == [q |-> "", status |-> "PENDING_APPROVAL"]
Opening == IF route = "approvals" THEN Waiting ELSE Everything

Records == [status : Statuses, title : SearchTexts]
Rows == [id : Docs, status : Statuses]
Pages == SUBSET Rows
Loads == [ticket : 1..MaxTicket, filter : Filters, wanted : Nat, got : Pages,
          known : SUBSET Docs,              \* what matched when it began
          page : Pages]                     \* the answer on its way
Acts == [doc : Docs, op : {"route", "reject", "sign", "orphan", "rename", "create"}, shown : Nat,
         pc : {"ok", "failed", "refresh"}, ticket : 0..MaxTicket, saved : Statuses]
NoDialog == 0
CreateDialog == -1         \* any other dialog is the signature dialog of a document

ListTypeOK ==
    /\ store \in [Docs -> Records]
    /\ rows \in Pages
    /\ loadedFilter \in Filters /\ filter \in Filters
    /\ {typing, loading, loadFailed, hasMore, answered, overtaken} \subseteq BOOLEAN
    /\ loadTicket \in 0..MaxTicket /\ lastAsked \in Filters
    /\ loads \subseteq Loads /\ acts \subseteq Acts
    /\ busy \subseteq Docs /\ modal \in Docs \cup {NoDialog, CreateDialog}

Nextborn(d) == \A e \in Docs : e < d => store[e].status # "absent"
-----------------------------------------------------------------------------
(* The server's side: a page is the first PAGE matches after the cursor, newest
   first on the list and oldest first in the queue. *)
Before(d, e) == IF route = "approvals" THEN d < e ELSE d > e

Matches(d, f) ==
    /\ store[d].status # "absent"
    /\ f.status \in {"", store[d].status}
    /\ f.q \in {"", store[d].title}

Beyond(f, cursor) == {d \in Docs : Matches(d, f) /\ (cursor = 0 \/ Before(cursor, d))}

First(docs) == {d \in docs : Cardinality({e \in docs : Before(e, d)}) < PAGE}

AsRow(d) == [id |-> d, status |-> store[d].status]

getDocuments(f, cursor) == {AsRow(d) : d \in First(Beyond(f, cursor))}
-----------------------------------------------------------------------------
(* Bound: an action in flight may still need a ticket for its refresh. *)
Room == loadTicket + Cardinality({a \in acts : a.pc # "refresh"}) < MaxTicket

AtLeast(n) == IF n > PAGE THEN n ELSE PAGE

Load(ticket, n, f) ==
    [ticket |-> ticket, filter |-> f, wanted |-> AtLeast(n), got |-> {},
     known |-> Beyond(f, 0), page |-> getDocuments(f, 0)]

loadSpan(n, f) ==
    /\ loadTicket' = loadTicket + 1
    /\ loading' = TRUE
    /\ loads' = loads \cup {Load(loadTicket + 1, n, f)}

(* The controls pass their question; whatever else loads repeats the one the rows on
   screen answer, be it the last or not. *)
AsksAnew(f) == loadSpan(PAGE, f) /\ lastAsked' = f /\ overtaken' = FALSE
AsksAgain(n) ==
    /\ loadSpan(n, loadedFilter) /\ UNCHANGED lastAsked
    /\ overtaken' = (overtaken \/ loadedFilter # lastAsked)

(* The mount effect's load is in flight. *)
ListInit ==
    /\ store \in [Docs -> {[status |-> s, title |-> ""] : s \in {"absent", "DRAFT", "PENDING_APPROVAL"}}]
    /\ \A d \in Docs : store[d].status = "DRAFT" <=> d \in Drafts
    /\ \A d \in Docs : store[d].status # "absent" => Nextborn(d)
    /\ rows = {} /\ hasMore = FALSE /\ loadFailed = FALSE /\ answered = FALSE
    /\ filter = Opening /\ loadedFilter = Opening /\ typing = FALSE
    /\ loading = TRUE /\ loadTicket = 1 /\ lastAsked = Opening /\ overtaken = FALSE
    /\ loads = {Load(1, PAGE, Opening)}
    /\ acts = {} /\ busy = {} /\ modal = NoDialog
-----------------------------------------------------------------------------
(* Other operators, and the citizens who sign: documents are created and decided
   while the screen is open. *)
Elsewhere ==
    /\ \E d \in Docs :
         \/ /\ store[d].status = "absent"
            /\ Nextborn(d)
            /\ store' = [store EXCEPT ![d].status = "PENDING_APPROVAL"]
         \/ /\ store[d].status = "PENDING_APPROVAL"
            /\ store' = [store EXCEPT ![d].status = "APPROVED"]
    /\ UNCHANGED <<rows, loadedFilter, filter, typing, loading, loadFailed, hasMore,
                   answered, loadTicket, standing, loads, acts, busy, modal>>

Anybody(l) == TRUE                      \* planted fault: no ticket

Newest(l) == l.ticket = loadTicket

(* The load is over: who awaited it goes on, which frees their row. *)
LoadEnds(l) ==
    LET ended == {a \in acts : a.pc = "refresh" /\ a.ticket = l.ticket} IN
    /\ acts' = acts \ ended
    /\ busy' = busy \ {a.doc : a \in {b \in ended : b.op \in {"route", "reject"}}}

SupersededSettles(l) ==                 \* planted fault: whichever load ends lowers the spinner
    /\ ~Newest(l)
    /\ loads' = loads \ {l}
    /\ LoadEnds(l)
    /\ loading' = FALSE
    /\ UNCHANGED <<rows, loadedFilter, loadFailed, hasMore, answered>>

Superseded(l) ==
    /\ ~Newest(l)
    /\ loads' = loads \ {l}
    /\ LoadEnds(l)
    /\ UNCHANGED <<rows, loadedFilter, loading, loadFailed, hasMore, answered>>


ListLoadFails(l) ==
    /\ Newest(l)
    /\ loads' = loads \ {l}
    /\ LoadEnds(l)
    /\ loadFailed' = TRUE /\ loading' = FALSE
    /\ UNCHANGED <<rows, loadedFilter, hasMore, answered>>

Collected(l) == l.got \cup l.page
RanOut(l) == Cardinality(l.page) < PAGE
Enough(l) == RanOut(l) \/ Cardinality(Collected(l)) >= l.wanted
Last(l) == CHOOSE d \in Docs : /\ \E r \in l.page : r.id = d
                               /\ \A r \in l.page : r.id = d \/ Before(r.id, d)

WalksByOffset(l) ==                     \* planted fault: the next page by its offset
    /\ Newest(l) /\ ~Enough(l)
    /\ loads' = (loads \ {l}) \cup {[l EXCEPT !.got = Collected(l), !.page =
         LET found == Beyond(l.filter, 0)
             n == Cardinality(Collected(l)) IN
         {AsRow(d) : d \in {e \in found :
             Cardinality({c \in found : Before(c, e)}) \in n..(n + PAGE - 1)}}]}
    /\ UNCHANGED <<rows, loadedFilter, loading, loadFailed, hasMore, answered, acts, busy>>

(* The next page is asked for by the last row seen. *)
WalksOn(l) ==
    /\ Newest(l) /\ ~Enough(l)
    /\ loads' = (loads \ {l}) \cup {[l EXCEPT !.got = Collected(l),
                                              !.page = getDocuments(l.filter, Last(l))]}
    /\ UNCHANGED <<rows, loadedFilter, loading, loadFailed, hasMore, answered, acts, busy>>

Lands(l) ==
    /\ Newest(l) /\ Enough(l)
    /\ rows' = Collected(l)
    /\ hasMore' = ~RanOut(l)
    /\ loadedFilter' = l.filter
    /\ loadFailed' = FALSE /\ answered' = TRUE /\ loading' = FALSE
    /\ loads' = loads \ {l}
    /\ LoadEnds(l)

LoadStep(l) ==
    /\ \/ Superseded(l) \/ ListLoadFails(l) \/ WalksOn(l) \/ Lands(l)
    /\ UNCHANGED <<store, filter, typing, loadTicket, standing, modal>>
-----------------------------------------------------------------------------
(* The controls.  A page under a dialog cannot be clicked, and a click elsewhere
   takes the focus off the search box first. *)
Clickable == modal = NoDialog /\ ~typing

Still == UNCHANGED <<store, rows, loadedFilter, loadFailed, hasMore, answered, acts, busy, modal>>

Type(q) ==
    /\ route = "documents" /\ modal = NoDialog /\ filter.q # q
    /\ typing' = TRUE
    /\ filter' = [filter EXCEPT !.q = q]
    /\ Still /\ UNCHANGED <<loading, loadTicket, standing, loads>>

Enter ==
    /\ typing /\ Room
    /\ AsksAnew(filter)
    /\ Still /\ UNCHANGED <<filter, typing>>

Blur ==
    /\ typing
    /\ typing' = FALSE
    /\ IF filter.q # loadedFilter.q
       THEN Room /\ AsksAnew(filter)
       ELSE UNCHANGED <<loading, loadTicket, standing, loads>>
    /\ Still /\ UNCHANGED filter

Select(s) ==
    /\ route = "documents" /\ Clickable /\ filter.status # s /\ Room
    /\ filter' = [filter EXCEPT !.status = s]
    /\ AsksAnew([filter EXCEPT !.status = s])
    /\ Still /\ UNCHANGED typing

Shown == Cardinality(rows)

Retry ==
    /\ Clickable /\ loadFailed /\ ~loading /\ Room
    /\ AsksAgain(Shown)
    /\ Still /\ UNCHANGED <<filter, typing>>

LoadMore ==
    /\ Clickable /\ rows # {} /\ hasMore /\ ~loading /\ Room
    /\ AsksAgain(Shown + PAGE)
    /\ Still /\ UNCHANGED <<filter, typing>>
-----------------------------------------------------------------------------
(* Actions on rows.  What a row offers is decided by the row, as it was fetched. *)
Offers(r) ==
    CASE r.status = "DRAFT"            -> IF route = "documents" THEN {"route", "rename"} ELSE {}
      [] r.status = "PENDING_APPROVAL" -> {"sign", "reject"} \cup IF route = "documents" THEN {"rename"} ELSE {}
      [] OTHER                         -> {}

(* What the server makes of an action, if it does. *)
Allowed(d, o) ==
    CASE o = "route"            -> store[d].status = "DRAFT"
      [] o \in {"reject", "sign", "orphan"} -> store[d].status = "PENDING_APPROVAL"
      [] o = "rename"           -> store[d].status \in {"DRAFT", "PENDING_APPROVAL"}
      [] o = "create"           -> store[d].status = "absent"

Written(d, o, title) ==
    CASE o \in {"route", "create"} -> [store[d] EXCEPT !.status = "PENDING_APPROVAL"]
      [] o = "reject"            -> [store[d] EXCEPT !.status = "REJECTED"]
      [] o \in {"sign", "orphan"} -> [store[d] EXCEPT !.status = "APPROVED"]
      [] o = "rename"            -> [store[d] EXCEPT !.title = title]

(* The server answers, and has acted or not; saved is what it stored. *)
SendsAction(d, o, title) ==
    \E answer \in Answers, done \in BOOLEAN :
        /\ done \in Commits(answer)
        /\ done => Allowed(d, o)
        /\ answer = "refused" => ~Allowed(d, o)
        /\ store' = IF done THEN [store EXCEPT ![d] = Written(d, o, title)] ELSE store
        /\ acts' = acts \cup {[doc |-> d, op |-> o,
                              shown |-> IF answer = "ok" /\ o # "rename" THEN AtLeast(Shown) ELSE 0,
                              pc |-> IF answer = "ok" THEN "ok" ELSE "failed", ticket |-> 0,
                              saved |-> IF answer = "ok" /\ o = "rename" THEN store'[d].status ELSE "absent"]}

Quiet == UNCHANGED <<rows, loadedFilter, filter, typing, loading, loadFailed,
                     hasMore, answered, loadTicket, standing, loads>>

(* route, reject: the row's buttons stay disabled until its refresh is over. *)
RowAction(r, o) ==
    /\ Clickable /\ o \in Offers(r) \cap {"route", "reject"} /\ r.id \notin busy /\ Room
    /\ busy' = busy \cup {r.id}
    /\ SendsAction(r.id, o, "")
    /\ Quiet /\ UNCHANGED modal

(* commitRename.  A title that is what it was is not sent: the store would not change. *)
Rename(r, title) ==
    /\ Clickable /\ "rename" \in Offers(r) /\ Room
    /\ SendsAction(r.id, "rename", title)
    /\ Quiet /\ UNCHANGED <<busy, modal>>

OpenCreate ==
    /\ route = "documents" /\ Clickable
    /\ modal' = CreateDialog
    /\ Quiet /\ UNCHANGED <<store, acts, busy>>

Creating == \E a \in acts : a.op = "create"

handleCreateDocument(d) ==
    /\ modal = CreateDialog /\ ~Creating /\ Room
    /\ store[d].status = "absent" /\ Nextborn(d)
    /\ SendsAction(d, "create", "")
    /\ Quiet /\ UNCHANGED <<busy, modal>>

OpenSign(r) ==
    /\ Clickable /\ "sign" \in Offers(r) /\ r.id \notin busy
    /\ modal' = r.id
    /\ Quiet /\ UNCHANGED <<store, acts, busy>>

(* The dialog asks for the signature of its document, by one channel at a time; how an
   E-ID session goes on is the matter of its card. *)
DialogSigns(d) ==
    /\ modal = d /\ ~(\E a \in acts : a.op = "sign" /\ a.pc # "refresh") /\ Room
    /\ SendsAction(d, "sign", "")
    /\ Quiet /\ UNCHANGED <<busy, modal>>

(* The acts as they go on without the dialog that signs: an E-ID session that is being
   waited for dies with it, a DAN call that was sent does not. *)
WithoutDialog(as) ==
    LET signing == {b \in as : b.op = "sign" /\ b.pc # "refresh"} IN
    {(as \ signing) \cup {[b EXCEPT !.op = "orphan"] : b \in lives} : lives \in SUBSET signing}

Close ==
    /\ modal # NoDialog
    /\ modal' = NoDialog
    /\ acts' \in WithoutDialog(acts)
    /\ Quiet /\ UNCHANGED <<store, busy>>
-----------------------------------------------------------------------------
(* What an act closes when it has succeeded: a dialog of its kind, and not only its own. *)
Closes(a) == CASE a.op = "create"             -> {CreateDialog}
               [] a.op \in {"sign", "orphan"} -> Docs
               [] OTHER                       -> {}

RefreshesControls(a) ==                 \* planted fault: the refresh asks what the controls say
    /\ a.pc = "ok" /\ a.op # "rename"
    /\ modal' = IF modal \in Closes(a) THEN NoDialog ELSE modal
    /\ loadSpan(a.shown, filter) /\ UNCHANGED standing
    /\ acts' = (acts \ {a}) \cup {[a EXCEPT !.pc = "refresh", !.ticket = loadTicket + 1, !.shown = 0]}
    /\ UNCHANGED <<store, rows, loadedFilter, filter, typing, loadFailed, hasMore, answered, busy>>

(* succeed: the caller's dialog closes and the rows are read again, as many as were
   on screen when the handler was made, under the filter they were fetched under. *)
Refreshes(a) ==
    /\ a.pc = "ok" /\ a.op # "rename"
    /\ modal' = IF modal \in Closes(a) THEN NoDialog ELSE modal
    /\ AsksAgain(a.shown)
    /\ \E others \in IF modal \in Closes(a) THEN WithoutDialog(acts \ {a}) ELSE {acts \ {a}} :
           acts' = others \cup {[a EXCEPT !.pc = "refresh", !.ticket = loadTicket + 1, !.shown = 0]}
    /\ UNCHANGED <<store, rows, loadedFilter, filter, typing, loadFailed, hasMore, answered, busy>>

(* commitRename puts what the server stored in its row, and reads nothing again. *)
Renamed(a) ==
    /\ a.pc = "ok" /\ a.op = "rename"
    /\ rows' = {IF r.id = a.doc THEN [r EXCEPT !.status = a.saved]
                                ELSE r : r \in rows}
    /\ acts' = acts \ {a}
    /\ UNCHANGED <<store, loadedFilter, filter, typing, loading, loadFailed, hasMore, answered,
                   loadTicket, standing, loads, busy, modal>>

ActFails(a) ==
    /\ a.pc = "failed"
    /\ acts' = acts \ {a}
    /\ busy' = IF a.op \in {"route", "reject"} THEN busy \ {a.doc} ELSE busy
    /\ Quiet /\ UNCHANGED <<store, modal>>

ActStep(a) == Refreshes(a) \/ Renamed(a) \/ ActFails(a)
-----------------------------------------------------------------------------
Controls ==
    \/ \E q \in SearchTexts : Type(q)
    \/ Enter \/ Blur \/ Retry \/ LoadMore \/ OpenCreate \/ Close
    \/ \E s \in {"", "PENDING_APPROVAL"} : Select(s)
    \/ \E d \in Docs : handleCreateDocument(d) \/ DialogSigns(d)
    \/ \E r \in rows : \/ \E o \in {"route", "reject"} : RowAction(r, o)
                        \/ \E title \in SearchTexts : Rename(r, title)
                        \/ OpenSign(r)

ListNext ==
    \/ Elsewhere
    \/ Controls
    \/ \E l \in loads : LoadStep(l)
    \/ \E a \in acts : ActStep(a)

(* Every read is answered, or fails; what the operator and others do is up to them. *)
ListFairness == WF_listVars(\E l \in loads : LoadStep(l))

ListSpec == ListInit /\ [][ListNext /\ UNCHANGED route]_<<route, listVars>> /\ ListFairness
-----------------------------------------------------------------------------
(* What stands on screen when nothing loads and nothing failed answers the question the
   operator asked last, in whatever order the answers to several came (loadTicket); unless
   a refresh, Retry or Load more has asked again what the rows answered before it. *)
ShowsTheLastQuestion == ~loading /\ ~loadFailed /\ ~overtaken => loadedFilter = lastAsked

(* The page's comment over its controls: "the rows below have to be the answer to what is
   in these controls and nothing else", once nothing is being typed or loaded. *)
RowsAnswerControls == ~loading /\ ~loadFailed /\ ~typing => loadedFilter = filter

(* A walk by cursor skips nothing: of the documents that matched when it began and
   still match, none that it has passed is missing, although documents are decided
   between two of its pages.  Of a walk that searches no text: a status is never had
   twice, but a title may go and come back between two pages. *)
Passed(l, d) == RanOut(l) \/ \E r \in Collected(l) : Before(d, r.id)
WalkSkipsNothing ==
    \A l \in loads : l.filter.q = "" =>
        \A d \in l.known :
            Passed(l, d) /\ Matches(d, l.filter) => \E r \in Collected(l) : r.id = d

(* "No documents yet", "nothing is waiting". *)
EmptyClaim == ~loading /\ rows = {} /\ ~loadFailed

(* Only the newest load makes a claim about the tenant: the screen never says it is
   empty before a load has succeeded, nor in the gap while the newest one runs. *)
EmptyIsAnswered == EmptyClaim => answered /\ \A l \in loads : ~Newest(l)

(* A refresh asks the question the rows on screen answer: whatever half-typed text is
   in the search box, only the controls themselves change what the table answers. *)
Refreshing(l) == \E a \in acts : a.pc = "refresh" /\ a.ticket = l.ticket

RefreshKeepsQuestion ==
    [][\A l \in loads : Refreshing(l) /\ Lands(l) => loadedFilter' = loadedFilter]_listVars
=============================================================================
