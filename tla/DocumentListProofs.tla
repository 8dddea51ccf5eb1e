------------------------- MODULE DocumentListProofs -------------------------
(***************************************************************************)
(* Proofs about DocumentList, for any documents, size of page and number of *)
(* loads: in whatever order answers land, the table that stands on screen   *)
(* answers the question its operator asked last, unless an older one was    *)
(* asked again since; it claims to be empty only when it was answered so, a *)
(* refresh does not change its question, and a walk over the pages skips    *)
(* nothing.                                                                 *)
(*                                                                          *)
(* The argument is the ticket's: at most one load in flight is the newest,  *)
(* the spinner turns exactly while there is one, and what it asks is what   *)
(* was asked last or was asked again; a refresh that is still the newest    *)
(* asks what the table answered when it began, because nothing has landed   *)
(* since.                                                                   *)
(*                                                                          *)
(* The argument for the walk is a prefix.  The order of a list is total, so *)
(* a page, and with it all that a load has collected, holds whatever comes  *)
(* before its last row: a document the load knew of is collected or comes   *)
(* after everything that is.  Nothing that is known comes back to a status  *)
(* it has left, so a match that the next page ought to hold matched before. *)
(***************************************************************************)
EXTENDS DocumentList, FiniteSetTheorems, WellFoundedInduction, TLAPS

(* Loads and actions are records, whatever their other fields hold. *)
InFlightAreRecords ==
    /\ \A l \in loads : {"ticket", "filter"} \subseteq DOMAIN l
    /\ \A a \in acts : {"pc", "ticket", "op"} \subseteq DOMAIN a

(* Tickets are handed out once, in order. *)
TicketsInOrder ==
    /\ loadTicket \in Nat
    /\ \A l \in loads : l.ticket \in Nat /\ l.ticket <= loadTicket
    /\ \A l, m \in loads : Newest(l) /\ Newest(m) => l = m
    /\ \A a \in acts : a.ticket \in Nat /\ a.ticket <= loadTicket

(* The newest load asks what the operator asked last, unless it is not the operator's. *)
NewestAsksLast == \A l \in loads : Newest(l) => l.filter = lastAsked \/ overtaken

(* The spinner turns exactly while the newest load is in flight. *)
SpinsForTheNewest == loading <=> \E l \in loads : Newest(l)

(* A table at rest answers what was asked last, the same way. *)
SettledIsAnswered == ~loading /\ ~loadFailed => (loadedFilter = lastAsked \/ overtaken) /\ answered

(* A refresh that is the newest load asks what the table answers. *)
RefreshAsksTheTable ==
    \A l \in loads : Newest(l) /\ Refreshing(l) => l.filter = loadedFilter

(* The inductive invariant of the tickets. *)
ListInv ==
    /\ InFlightAreRecords
    /\ TicketsInOrder
    /\ NewestAsksLast
    /\ loading \in BOOLEAN /\ SpinsForTheNewest
    /\ SettledIsAnswered
    /\ RefreshAsksTheTable
-----------------------------------------------------------------------------
(* At first the load of the mount effect is the only one, and it is the newest. *)
LEMMA ListInitInv == ListInit => ListInv
<1> SUFFICES ASSUME ListInit PROVE ListInv
  OBVIOUS
<1> DEFINE first == Load(1, PAGE, Opening)
<1>1. /\ {"ticket", "filter"} \subseteq DOMAIN first
      /\ first.ticket = 1 /\ first.filter = Opening
  BY DEF Load
<1>2. loads = {first} /\ loadTicket = 1 /\ lastAsked = Opening /\ acts = {} /\ loading = TRUE
  BY DEF ListInit
<1> HIDE DEF first
<1> QED
  BY <1>1, <1>2 DEF ListInv, InFlightAreRecords, TicketsInOrder, NewestAsksLast, SpinsForTheNewest,
                    SettledIsAnswered, RefreshAsksTheTable, Refreshing, Newest

(* An action is as another was, but for what it is called. *)
SameAct(a, b) == DOMAIN a = DOMAIN b /\ a.ticket = b.ticket /\ a.pc = b.pc

(* So are those that go on without their dialog. *)
LEMMA WithoutDialogSame ==
  ASSUME NEW as, \A a \in as : {"pc", "ticket", "op"} \subseteq DOMAIN a, NEW left \in WithoutDialog(as)
  PROVE  \A o \in left : \E a \in as : SameAct(o, a)
<1> DEFINE signing == {a \in as : a.op = "sign" /\ a.pc # "refresh"}
<1>1. PICK lives \in SUBSET signing : left = (as \ signing) \cup {[a EXCEPT !.op = "orphan"] : a \in lives}
  BY DEF WithoutDialog
<1>2. \A a \in signing : SameAct([a EXCEPT !.op = "orphan"], a)
  BY DEF SameAct
<1>3. ASSUME NEW o \in left PROVE \E a \in as : SameAct(o, a)
  <2>1. o \in as \/ \E a \in lives : o = [a EXCEPT !.op = "orphan"]
    BY <1>1
  <2> QED
    BY <1>2, <2>1 DEF SameAct
<1> QED
  BY <1>3

(* A load begins: it is the newest, and the spinner turns for it.  Of the actions only
   the one that asked for it, if any, becomes a refresh, and then of the table. *)
LEMMA LoadBegins ==
  ASSUME ListInv, NEW n, NEW f, loadSpan(n, f), f = lastAsked' \/ overtaken',
         UNCHANGED <<loadFailed, answered, loadedFilter>>,
         \A a \in acts' : \/ \E b \in acts : SameAct(a, b)
                          \/ /\ f = loadedFilter /\ {"pc", "ticket", "op"} \subseteq DOMAIN a
                             /\ a.ticket = loadTicket + 1
  PROVE  ListInv'
<1> DEFINE new == Load(loadTicket + 1, n, f)
<1>1. /\ {"ticket", "filter"} \subseteq DOMAIN new
      /\ new.ticket = loadTicket + 1 /\ new.filter = f
  BY DEF Load
<1>2. loads' = loads \cup {new} /\ loadTicket' = loadTicket + 1 /\ loading' = TRUE
  BY DEF loadSpan
<1> HIDE DEF new
<1>3. \A l \in loads : ~(l.ticket = loadTicket')
  BY <1>2 DEF ListInv, TicketsInOrder
<1>4. InFlightAreRecords'
  BY <1>1, <1>2 DEF ListInv, InFlightAreRecords, SameAct
<1>5. TicketsInOrder'
  BY <1>1, <1>2, <1>3 DEF ListInv, TicketsInOrder, Newest, SameAct
<1>6. NewestAsksLast' /\ SpinsForTheNewest' /\ SettledIsAnswered' /\ loading' \in BOOLEAN
  BY <1>1, <1>2, <1>3 DEF NewestAsksLast, SpinsForTheNewest, SettledIsAnswered, Newest
<1>7. RefreshAsksTheTable'
  BY <1>1, <1>2, <1>3 DEF ListInv, TicketsInOrder, RefreshAsksTheTable, Refreshing, Newest, SameAct
<1> QED
  BY <1>4, <1>5, <1>6, <1>7 DEF ListInv

(* Nothing is asked: actions come and go, none of them becomes a refresh. *)
LEMMA NothingAsked ==
  ASSUME ListInv, UNCHANGED <<loading, loadFailed, answered, loadedFilter, loadTicket, standing, loads>>,
         \A a \in acts' : \/ \E b \in acts : SameAct(a, b)
                          \/ {"pc", "ticket", "op"} \subseteq DOMAIN a /\ a.ticket = 0 /\ a.pc # "refresh"
  PROVE  ListInv'
<1>1. TicketsInOrder'
  BY DEF ListInv, TicketsInOrder, Newest, SameAct
<1>2. RefreshAsksTheTable'
  BY DEF ListInv, RefreshAsksTheTable, Refreshing, Newest, SameAct
<1>3. InFlightAreRecords'
  BY DEF ListInv, InFlightAreRecords, SameAct
<1> QED
  BY <1>1, <1>2, <1>3 DEF ListInv, NewestAsksLast, SpinsForTheNewest, SettledIsAnswered, Newest, standing

(* A load goes on, or ends: the newest alone touches the table and the spinner. *)
LEMMA LoadStepInv ==
  ASSUME ListInv, NEW l \in loads, LoadStep(l)
  PROVE  ListInv'
<1>1. loadTicket' = loadTicket /\ lastAsked' = lastAsked /\ overtaken' = overtaken
  BY DEF LoadStep, standing
<1>2. CASE WalksOn(l)
  <2> DEFINE next == [l EXCEPT !.got = Collected(l), !.page = getDocuments(l.filter, Last(l))]
  <2>1. {"ticket", "filter"} \subseteq DOMAIN next /\ next.ticket = l.ticket /\ next.filter = l.filter
    BY DEF ListInv, InFlightAreRecords
  <2>2. /\ Newest(l) /\ loads' = (loads \ {l}) \cup {next}
        /\ UNCHANGED <<loadedFilter, loading, loadFailed, answered, acts>>
    BY <1>2 DEF WalksOn
  <2> HIDE DEF next
  <2>3. \A m \in loads \ {l} : m.ticket # loadTicket
    BY <2>2 DEF ListInv, TicketsInOrder, Newest
  <2>4. TicketsInOrder' /\ InFlightAreRecords'
    BY <1>1, <2>1, <2>2, <2>3 DEF ListInv, TicketsInOrder, InFlightAreRecords, Newest
  <2>5. NewestAsksLast' /\ SpinsForTheNewest' /\ SettledIsAnswered' /\ loading' \in BOOLEAN
    BY <1>1, <2>1, <2>2, <2>3 DEF ListInv, NewestAsksLast, SpinsForTheNewest, SettledIsAnswered, Newest
  <2>6. RefreshAsksTheTable'
    BY <1>1, <2>1, <2>2, <2>3 DEF ListInv, RefreshAsksTheTable, Refreshing, Newest
  <2> QED
    BY <2>4, <2>5, <2>6 DEF ListInv
<1>3. CASE Superseded(l) \/ ListLoadFails(l) \/ Lands(l)
  <2>1. /\ loads' = loads \ {l} /\ acts' \subseteq acts
        /\ \/ ~Newest(l) /\ UNCHANGED <<loadedFilter, loading, loadFailed, answered>>
           \/ Newest(l) /\ loading' = FALSE /\ loadFailed' = TRUE /\ UNCHANGED loadedFilter
           \/ Newest(l) /\ loading' = FALSE /\ loadedFilter' = l.filter /\ answered' = TRUE
    BY <1>3 DEF Superseded, ListLoadFails, Lands, LoadEnds
  <2>2. TicketsInOrder' /\ InFlightAreRecords'
    BY <1>1, <2>1 DEF ListInv, TicketsInOrder, InFlightAreRecords, Newest
  <2>3. CASE ~Newest(l)
    BY <1>1, <2>1, <2>2, <2>3 DEF ListInv, NewestAsksLast, SpinsForTheNewest, SettledIsAnswered,
                                  RefreshAsksTheTable, Refreshing, Newest
  <2>4. CASE Newest(l)
    <3>1. \A m \in loads' : ~(m.ticket = loadTicket')
      BY <1>1, <2>1, <2>4 DEF ListInv, TicketsInOrder, Newest
    <3>2. NewestAsksLast' /\ SpinsForTheNewest' /\ RefreshAsksTheTable' /\ loading' \in BOOLEAN
      BY <2>1, <2>4, <3>1 DEF NewestAsksLast, SpinsForTheNewest, RefreshAsksTheTable, Newest
    <3>3. SettledIsAnswered'
      BY <1>1, <2>1, <2>4 DEF ListInv, NewestAsksLast, SettledIsAnswered
    <3> QED
      BY <2>2, <3>2, <3>3 DEF ListInv
  <2> QED
    BY <2>3, <2>4
<1> QED
  BY <1>2, <1>3 DEF LoadStep

(* The operator: what they type, select, page through, open, close and send. *)
LEMMA ControlsInv ==
  ASSUME ListInv, Controls
  PROVE  ListInv'
<1> USE DEF Still, Quiet, AsksAnew, AsksAgain, SameAct
<1>1. ASSUME NEW q \in SearchTexts, Type(q) PROVE ListInv'
  BY <1>1, NothingAsked DEF Type
<1>2. CASE Enter
  BY <1>2, LoadBegins DEF Enter
<1>3. CASE Blur
  BY <1>3, LoadBegins, NothingAsked DEF Blur
<1>4. CASE Retry \/ LoadMore
  BY <1>4, LoadBegins DEF Retry, LoadMore
<1>5. ASSUME NEW s \in {"", "PENDING_APPROVAL"}, Select(s) PROVE ListInv'
  BY <1>5, LoadBegins DEF Select
<1>6. ASSUME NEW d, NEW o, NEW title, SendsAction(d, o, title), Quiet PROVE ListInv'
  <2>1. \A a \in acts' : \/ a \in acts
                         \/ {"pc", "ticket", "op"} \subseteq DOMAIN a /\ a.ticket = 0 /\ a.pc # "refresh"
    BY <1>6 DEF SendsAction
  <2> QED
    BY <1>6, <2>1, NothingAsked
<1>7. CASE OpenCreate
  BY <1>7, NothingAsked DEF OpenCreate
<1>8. CASE Close
  <2>1. \A o \in acts' : \E a \in acts : SameAct(o, a)
    BY <1>8, WithoutDialogSame DEF Close, ListInv, InFlightAreRecords
  <2> QED
    BY <1>8, <2>1, NothingAsked DEF Close
<1>9. ASSUME NEW r \in rows, OpenSign(r) PROVE ListInv'
  BY <1>9, NothingAsked DEF OpenSign
<1>10. ASSUME NEW d \in Docs, handleCreateDocument(d) \/ DialogSigns(d) PROVE ListInv'
  BY <1>10, <1>6 DEF handleCreateDocument, DialogSigns
<1>11. ASSUME NEW r \in rows, NEW o \in {"route", "reject"}, RowAction(r, o) PROVE ListInv'
  BY <1>11, <1>6 DEF RowAction
<1>12. ASSUME NEW r \in rows, NEW title \in SearchTexts, Rename(r, title) PROVE ListInv'
  BY <1>12, <1>6 DEF Rename
<1> QED
  BY <1>1, <1>2, <1>3, <1>4, <1>5, <1>7, <1>8, <1>9, <1>10, <1>11, <1>12 DEF Controls

(* The answer to an action: a refresh asks what the table answers. *)
LEMMA ActStepInv ==
  ASSUME ListInv, NEW a \in acts, ActStep(a)
  PROVE  ListInv'
<1>1. CASE Refreshes(a)
  <2> DEFINE now == [a EXCEPT !.pc = "refresh", !.ticket = loadTicket + 1, !.shown = 0]
  <2>1. {"pc", "ticket", "op"} \subseteq DOMAIN now /\ now.ticket = loadTicket + 1
    BY DEF ListInv, InFlightAreRecords
  <2>2. PICK others \in {acts \ {a}} \cup WithoutDialog(acts \ {a}) : acts' = others \cup {now}
    BY <1>1 DEF Refreshes
  <2>3. \A o \in others : \E b \in acts : SameAct(o, b)
    <3>1. \A o \in acts \ {a} : SameAct(o, o)
      BY DEF SameAct
    <3>2. others \in WithoutDialog(acts \ {a}) => \A o \in others : \E b \in acts \ {a} : SameAct(o, b)
      BY WithoutDialogSame DEF ListInv, InFlightAreRecords
    <3> QED
      BY <3>1, <3>2
  <2>4. loadSpan(a.shown, loadedFilter) /\ (loadedFilter = lastAsked' \/ overtaken')
    BY <1>1 DEF Refreshes, AsksAgain
  <2> HIDE DEF now
  <2> QED
    BY <1>1, <2>1, <2>2, <2>3, <2>4, LoadBegins DEF Refreshes
<1>2. CASE Renamed(a)
  BY <1>2, NothingAsked DEF Renamed, SameAct
<1>3. CASE ActFails(a)
  BY <1>3, NothingAsked DEF ActFails, Quiet, SameAct
<1> QED
  BY <1>1, <1>2, <1>3 DEF ActStep
-----------------------------------------------------------------------------
(* The inductive invariant: loads are told apart by their tickets, the spinner is up exactly while
   the newest is in flight, and a refresh asks the question of the table. *)
THEOREM ListInvariance == ListSpec => []ListInv
<1>1. ListInv /\ [ListNext /\ UNCHANGED route]_<<route, listVars>> => ListInv'
  <2>1. ASSUME ListInv, UNCHANGED listVars PROVE ListInv'
    BY <2>1 DEF listVars, ListInv, InFlightAreRecords, TicketsInOrder, NewestAsksLast, SpinsForTheNewest,
                SettledIsAnswered, RefreshAsksTheTable, Refreshing, Newest, standing
  <2>2. ASSUME ListInv, Elsewhere PROVE ListInv'
    BY <2>2, NothingAsked DEF Elsewhere, SameAct
  <2> QED
    BY <2>1, <2>2, ControlsInv, LoadStepInv, ActStepInv DEF ListNext
<1> QED
  BY <1>1, ListInitInv, PTL DEF ListSpec

(* Whatever order answers land in, the table at rest answers the question asked last, unless
   an older one has been asked again. *)
THEOREM TableAnswersTheLastQuestion == ListSpec => []ShowsTheLastQuestion
<1>1. ListInv => ShowsTheLastQuestion
  BY DEF ListInv, SettledIsAnswered, ShowsTheLastQuestion
<1> QED
  BY <1>1, ListInvariance, PTL

(* The screen says that there is nothing only when a load has succeeded and the newest is
   over. *)
THEOREM EmptyWasAnswered == ListSpec => []EmptyIsAnswered
<1>1. ListInv => EmptyIsAnswered
  BY DEF ListInv, SpinsForTheNewest, SettledIsAnswered, EmptyIsAnswered, EmptyClaim
<1> QED
  BY <1>1, ListInvariance, PTL

(* The refresh after an action leaves the question of the table as it was. *)
THEOREM RefreshesKeepTheQuestion == ListSpec => RefreshKeepsQuestion
<1>1. ListInv => [\A l \in loads : Refreshing(l) /\ Lands(l) => loadedFilter' = loadedFilter]_listVars
  BY DEF ListInv, RefreshAsksTheTable, Lands
<1> QED
  BY <1>1, ListInvariance, PTL DEF RefreshKeepsQuestion
-----------------------------------------------------------------------------
(* The order of a list is total: by age in one list, by position in the other. *)
LEMMA BeforeOrders ==
  ASSUME NEW d \in Docs, NEW e \in Docs
  PROVE  /\ ~Before(d, d) /\ (Before(d, e) => ~Before(e, d)) /\ (d = e \/ Before(d, e) \/ Before(e, d))
         /\ \A c \in Docs : Before(c, d) /\ Before(d, e) => Before(c, e)
<1>1. d \in Nat /\ e \in Nat /\ \A c \in Docs : c \in Nat
  BY ListAssumption
<1>2. CASE route = "approvals"
  BY <1>1, <1>2 DEF Before
<1>3. CASE route # "approvals"
  BY <1>1, <1>3 DEF Before
<1> QED
  BY <1>2, <1>3

(* Some documents have a first and a last one. *)
LEMMA HaveEnds ==
  ASSUME NEW T \in SUBSET Docs, T # {}
  PROVE  /\ \E d \in T : \A e \in T : e = d \/ Before(d, e)
         /\ \E d \in T : \A e \in T : e = d \/ Before(e, d)
<1> DEFINE less == {p \in Nat \X Nat : p[1] < p[2]}
           Ends(S) == /\ \E d \in S : \A e \in S : e = d \/ Before(d, e)
                      /\ \E d \in S : \A e \in S : e = d \/ Before(e, d)
           Bad == {n \in Nat : \E S \in SUBSET Docs : S # {} /\ Cardinality(S) = n /\ ~Ends(S)}
<1>1. IsWellFoundedOn(less, Nat)
  BY NatLessThanWellFounded DEF OpToRel
<1>2. \A S \in SUBSET Docs : IsFiniteSet(S) /\ Cardinality(S) \in Nat
  BY ListAssumption, FS_Subset, FS_CardinalityType
<1>3. SUFFICES ASSUME Bad # {} PROVE FALSE
  BY <1>2
<1>4. PICK n \in Bad : \A m \in Bad : <<m, n>> \notin less
  <2> HIDE DEF less, Bad
  <2>1. Bad \subseteq Nat
    BY DEF Bad
  <2> QED
    BY <1>1, <1>3, <2>1, WFMin
<1>5. PICK S \in SUBSET Docs : S # {} /\ Cardinality(S) = n /\ ~Ends(S)
  OBVIOUS
<1>6. PICK x \in S : TRUE
  BY <1>5
<1> DEFINE U == S \ {x}
<1>7. Cardinality(U) = n - 1 /\ n - 1 \in Nat
  <2>1. IsFiniteSet(S) /\ IsFiniteSet(U)
    BY <1>2
  <2>2. Cardinality(U) = Cardinality(S) - 1
    BY <1>6, <2>1, FS_RemoveElement
  <2>3. Cardinality(U) \in Nat
    BY <2>1, FS_CardinalityType
  <2> QED
    BY <1>5, <2>2, <2>3
<1>8. CASE U = {}
  <2>1. S = {x}
    BY <1>6, <1>8
  <2> QED
    BY <1>5, <2>1
<1>9. CASE U # {}
  <2>1. n - 1 \notin Bad
    <3>1. <<n - 1, n>> \in less
      BY <1>7
    <3> HIDE DEF less, Bad
    <3> QED
      BY <1>4, <3>1
  <2>2. Ends(U)
    <3> HIDE DEF Ends
    <3>1. U \in SUBSET Docs
      OBVIOUS
    <3> HIDE DEF U
    <3> QED
      BY <1>7, <1>9, <2>1, <3>1
  <2>3. PICK d \in U : \A e \in U : e = d \/ Before(d, e)
    BY <2>2
  <2>4. PICK c \in U : \A e \in U : e = c \/ Before(e, c)
    BY <2>2
  <2>5. \E y \in S : \A e \in S : e = y \/ Before(y, e)
    <3>1. CASE Before(x, d)
      BY <1>6, <2>3, <3>1, BeforeOrders
    <3>2. CASE Before(d, x)
      BY <1>6, <2>3, <3>2
    <3> QED
      BY <1>6, <2>3, <3>1, <3>2, BeforeOrders
  <2>6. \E y \in S : \A e \in S : e = y \/ Before(e, y)
    <3>1. CASE Before(c, x)
      BY <1>6, <2>4, <3>1, BeforeOrders
    <3>2. CASE Before(x, c)
      BY <1>6, <2>4, <3>2
    <3> QED
      BY <1>6, <2>4, <3>1, <3>2, BeforeOrders
  <2> QED
    BY <1>5, <2>5, <2>6
<1> QED
  BY <1>8, <1>9

(* A page is closed under what comes before, and a short one holds everything. *)
LEMMA FirstIsAPrefix ==
  ASSUME NEW S \in SUBSET Docs
  PROVE  /\ First(S) \in SUBSET S /\ IsFiniteSet(First(S))
         /\ \A d \in S \ First(S), e \in First(S) : Before(e, d)
         /\ Cardinality(First(S)) < PAGE => First(S) = S
<1> DEFINE Ahead(d) == {e \in S : Before(e, d)}
<1>1. \A T \in SUBSET S : IsFiniteSet(T) /\ Cardinality(T) \in Nat
  BY ListAssumption, FS_Subset, FS_CardinalityType
<1>2. First(S) = {d \in S : Cardinality(Ahead(d)) < PAGE}
  BY DEF First
<1>3. PAGE \in Nat
  BY ListAssumption
<1>4. ASSUME NEW d \in S \ First(S), NEW e \in First(S)
      PROVE  Before(e, d)
  <2> SUFFICES ASSUME ~Before(e, d) PROVE FALSE
    OBVIOUS
  <2>1. e \in S /\ d \in S /\ e # d /\ Before(d, e)
    BY <1>2, <1>4, BeforeOrders
  <2>2. Ahead(d) \subseteq Ahead(e) /\ Ahead(e) \in SUBSET S /\ Ahead(d) \in SUBSET S
    BY <2>1, BeforeOrders
  <2>3. Cardinality(Ahead(d)) <= Cardinality(Ahead(e))
    BY <1>1, <2>2, FS_Subset
  <2>4. Cardinality(Ahead(d)) \in Nat /\ Cardinality(Ahead(e)) \in Nat
    BY <1>1, <2>2
  <2>5. Cardinality(Ahead(e)) < PAGE
    BY <1>2
  <2>6. ~(Cardinality(Ahead(d)) < PAGE)
    BY <1>2, <2>1
  <2> QED
    BY <1>3, <2>3, <2>4, <2>5, <2>6
<1>5. ASSUME Cardinality(First(S)) < PAGE, First(S) # S
      PROVE  FALSE
  <2> DEFINE T == S \ First(S)
  <2>1. T # {} /\ T \in SUBSET Docs
    BY <1>2, <1>5
  <2>2. PICK d \in T : \A e \in T : e = d \/ Before(d, e)
    <3> HIDE DEF T
    <3> QED
      BY <2>1, HaveEnds
  <2>3. Ahead(d) \subseteq First(S)
    BY <2>2, BeforeOrders
  <2>4. First(S) \in SUBSET S /\ Ahead(d) \in SUBSET S
    BY <1>2
  <2>5. Cardinality(Ahead(d)) <= Cardinality(First(S))
    BY <1>1, <2>3, <2>4, FS_Subset
  <2>6. Cardinality(Ahead(d)) \in Nat /\ Cardinality(First(S)) \in Nat
    BY <1>1, <2>4
  <2>7. Cardinality(Ahead(d)) < PAGE
    BY <1>3, <1>5, <2>5, <2>6
  <2> QED
    BY <1>2, <2>2, <2>7
<1>6. First(S) \in SUBSET S
  BY <1>2
<1> QED
  BY <1>1, <1>4, <1>5, <1>6

(* A page of answers: what it lacks of the matches comes after it, and only if it is full. *)
LEMMA PageIsAPrefix ==
  ASSUME NEW S \in SUBSET Docs, NEW page, page = {AsRow(d) : d \in First(S)}
  PROVE  /\ IsFiniteSet(page) /\ \A r \in page : r.id \in S
         /\ \A d \in S : \/ \E r \in page : r.id = d
                         \/ ~(Cardinality(page) < PAGE) /\ \A r \in page : Before(r.id, d)
<1>1. /\ First(S) \in SUBSET S /\ IsFiniteSet(First(S))
      /\ \A d \in S \ First(S), e \in First(S) : Before(e, d)
      /\ Cardinality(First(S)) < PAGE => First(S) = S
  BY FirstIsAPrefix
<1>2. \A d \in First(S) : AsRow(d).id = d
  BY DEF AsRow
<1> DEFINE f == [d \in First(S) |-> AsRow(d)]
<1>3. f \in Bijection(First(S), page)
  <2>1. \A d, e \in First(S) : f[d] = f[e] => d = e
    BY <1>2
  <2>2. f \in [First(S) -> page] /\ \A r \in page : \E d \in First(S) : f[d] = r
    OBVIOUS
  <2> QED
    BY <2>1, <2>2 DEF Bijection, Injection, Surjection, IsInjective
<1>4. IsFiniteSet(page) /\ Cardinality(page) = Cardinality(First(S))
  <2> HIDE DEF f
  <2> QED
    BY <1>1, <1>3, FS_Bijection, FS_CardinalityType DEF ExistsBijection
<1> QED
  BY <1>1, <1>2, <1>4
-----------------------------------------------------------------------------
(* An action that has not asked for its refresh yet may still need a load. *)
Unrefreshed == {a \in acts : a.pc # "refresh"}

(* Each action that has not asked for its refresh has a ticket left for it. *)
LoadsAreBounded ==
    /\ IsFiniteSet(acts)
    /\ loadTicket + Cardinality(Unrefreshed) <= MaxTicket

(* The types, and the bound they rest on: tickets never run out for a refresh. *)
ListTypeInv == ListTypeOK /\ LoadsAreBounded

(* There are finitely many rows, so a page has a size. *)
LEMMA RowsAreFinite ==
  /\ IsFiniteSet(Rows)
  /\ \A p \in Pages : IsFiniteSet(p) /\ Cardinality(p) \in Nat
<1>1. IsFiniteSet(Statuses)
  <2> DEFINE f == [n \in 1..5 |-> CASE n = 1 -> "absent" [] n = 2 -> "DRAFT" [] n = 3 -> "PENDING_APPROVAL"
                                    [] n = 4 -> "APPROVED" [] n = 5 -> "REJECTED"]
  <2>1. f \in [1..5 -> Statuses]
    BY DEF Statuses
  <2>2. \A s \in Statuses : \E n \in 1..5 : f[n] = s
    <3>1. f[1] = "absent" /\ f[2] = "DRAFT" /\ f[3] = "PENDING_APPROVAL" /\ f[4] = "APPROVED" /\ f[5] = "REJECTED"
      OBVIOUS
    <3> HIDE DEF f
    <3> QED
      BY <3>1 DEF Statuses
  <2>3. f \in Surjection(1..5, Statuses)
    BY <2>1, <2>2 DEF Surjection
  <2> HIDE DEF f
  <2>4. IsFiniteSet(1..5)
    <3>1. 1 \in Int /\ 5 \in Int
      OBVIOUS
    <3> QED
      BY <3>1, FS_Interval
  <2> QED
    BY <2>3, <2>4, FS_Surjection
<1> DEFINE g == [p \in Docs \X Statuses |-> [id |-> p[1], status |-> p[2]]]
<1>2. g \in Surjection(Docs \X Statuses, Rows)
  <2>1. g \in [Docs \X Statuses -> Rows]
    BY DEF Rows
  <2>2. ASSUME NEW r \in Rows PROVE \E p \in Docs \X Statuses : g[p] = r
    <3>1. r.id \in Docs /\ r.status \in Statuses /\ r = [id |-> r.id, status |-> r.status]
      BY DEF Rows
    <3>2. <<r.id, r.status>> \in Docs \X Statuses
      BY <3>1
    <3>3. g[<<r.id, r.status>>] = r
      BY <3>1, <3>2
    <3> QED
      BY <3>2, <3>3
  <2> QED
    BY <2>1, <2>2 DEF Surjection
<1>3. IsFiniteSet(Docs \X Statuses)
  BY <1>1, FS_Product, ListAssumption
<1>4. IsFiniteSet(Rows)
  <2> HIDE DEF g
  <2> QED
    BY <1>2, <1>3, FS_Surjection
<1> QED
  BY <1>4, FS_Subset, FS_CardinalityType DEF Pages

(* What the server answers is a page. *)
LEMMA AnswersArePages ==
  ASSUME store \in [Docs -> Records], NEW f, NEW cursor
  PROVE  getDocuments(f, cursor) \in Pages
<1>1. First(Beyond(f, cursor)) \subseteq Docs
  BY DEF First, Beyond
<1>2. \A d \in Docs : AsRow(d) \in Rows
  BY DEF AsRow, Rows, Records
<1> QED
  BY <1>1, <1>2 DEF getDocuments, Pages

(* What is shown, and what is asked for next, are numbers of rows. *)
LEMMA CountsAreNumbers ==
  ASSUME rows \in Pages
  PROVE  Shown \in Nat /\ AtLeast(Shown) \in Nat /\ Shown + PAGE \in Nat /\ PAGE \in Nat
         /\ \A n \in Nat : AtLeast(n) \in Nat
<1>1. Cardinality(rows) \in Nat
  BY RowsAreFinite
<1>2. PAGE \in Nat
  BY ListAssumption
<1> QED
  BY <1>1, <1>2 DEF Shown, AtLeast

(* A load that begins is one. *)
LEMMA LoadIsTyped ==
  ASSUME store \in [Docs -> Records], NEW n \in Nat, NEW f \in Filters, NEW t \in 1..MaxTicket
  PROVE  Load(t, n, f) \in Loads
<1>1. AtLeast(n) \in Nat
  BY ListAssumption DEF AtLeast
<1>2. Beyond(f, 0) \subseteq Docs /\ getDocuments(f, 0) \in Pages /\ {} \in Pages
  BY AnswersArePages DEF Beyond, Pages
<1> QED
  BY <1>1, <1>2 DEF Load, Loads

(* The numbers that bound the list. *)
LEMMA ListBounds ==
  /\ PAGE \in Nat /\ PAGE >= 1 /\ PAGE # 0
  /\ MaxTicket \in Nat /\ MaxTicket >= 1 /\ 1 \in 1..MaxTicket
  /\ Docs \subseteq Nat /\ 0 \notin Docs
<1>1. PAGE \in Nat \ {0} /\ MaxTicket \in Nat \ {0} /\ Docs \subseteq Nat \ {0}
  BY ListAssumption, Zenon
<1> QED
  BY <1>1

(* The filters the code spells out are filters. *)
LEMMA OpeningIsAFilter == Opening \in Filters /\ Everything \in Filters /\ Waiting \in Filters
  BY ListAssumption DEF Opening, Everything, Waiting, Filters

(* Actions that have not asked for a refresh can be counted. *)
LEMMA UnrefreshedAreCounted ==
  ASSUME NEW A, IsFiniteSet(A)
  PROVE  Cardinality({a \in A : a.pc # "refresh"}) \in Nat /\ IsFiniteSet({a \in A : a.pc # "refresh"})
  BY FS_Subset, FS_CardinalityType

(* At first the types hold, and a ticket is left for every action. *)
LEMMA ListTypesInit == ListInit => ListTypeInv
<1> SUFFICES ASSUME ListInit PROVE ListTypeInv
  OBVIOUS
<1>0. /\ rows = {} /\ hasMore = FALSE /\ loadFailed = FALSE /\ answered = FALSE
      /\ filter = Opening /\ loadedFilter = Opening /\ typing = FALSE
      /\ loading = TRUE /\ loadTicket = 1 /\ lastAsked = Opening /\ overtaken = FALSE
      /\ loads = {Load(1, PAGE, Opening)}
      /\ acts = {} /\ busy = {} /\ modal = NoDialog
  BY Zenon DEF ListInit
<1>1. store \in [Docs -> Records]
  <2>1. \A e \in SearchTexts, s \in {"absent", "DRAFT", "PENDING_APPROVAL"} : [status |-> s, title |-> e] \in Records
    BY DEF Records, Statuses
  <2>2. \A r \in {[status |-> s, title |-> ""] : s \in {"absent", "DRAFT", "PENDING_APPROVAL"}} : r \in Records
    BY <2>1, ListAssumption, Zenon
  <2>3. \A S, T : (\A r \in S : r \in T) /\ store \in [Docs -> S] => store \in [Docs -> T]
    OBVIOUS
  <2> QED
    BY <2>2, <2>3, Zenon DEF ListInit
<1>2. Load(1, PAGE, Opening) \in Loads
  <2> QED
    BY <1>1, ListBounds, LoadIsTyped, OpeningIsAFilter
<1>3. ListTypeOK
  <2>1. {typing, loading, loadFailed, hasMore, answered, overtaken} \subseteq BOOLEAN
    BY <1>0
  <2>2. /\ rows \in Pages /\ loads \subseteq Loads /\ acts \subseteq Acts /\ busy \subseteq Docs
        /\ modal \in Docs \cup {NoDialog, CreateDialog}
    BY <1>0, <1>2, Zenon DEF Pages
  <2>3. loadTicket \in 0..MaxTicket
    BY <1>0, ListBounds
  <2> QED
    BY <1>0, <1>1, <2>1, <2>2, <2>3, OpeningIsAFilter DEF ListTypeOK
<1>4. Unrefreshed = {} /\ acts = {}
  BY <1>0 DEF Unrefreshed
<1>5. Cardinality({}) = 0 /\ IsFiniteSet({})
  BY FS_EmptySet
<1> QED
  BY <1>0, <1>3, <1>4, <1>5, ListBounds DEF ListTypeInv, LoadsAreBounded

(* A load begins within the bound. *)
LEMMA LoadBeginsTyped ==
  ASSUME ListTypeInv, store' = store, NEW n \in Nat, NEW f \in Filters, loadSpan(n, f),
         lastAsked' \in Filters, overtaken' \in BOOLEAN,
         loadTicket + Cardinality(Unrefreshed') < MaxTicket, acts' \subseteq Acts, IsFiniteSet(acts'),
         UNCHANGED <<rows, loadedFilter, loadFailed, hasMore, answered, busy>>,
         filter' \in Filters, typing' \in BOOLEAN, modal' \in Docs \cup {NoDialog, CreateDialog}
  PROVE  ListTypeInv'
<1>1. loadTicket \in Nat /\ Cardinality(Unrefreshed') \in Nat /\ MaxTicket \in Nat
  BY UnrefreshedAreCounted, ListBounds DEF ListTypeInv, ListTypeOK, Unrefreshed
<1>2. loadTicket + 1 \in 1..MaxTicket /\ loadTicket' = loadTicket + 1
  BY <1>1 DEF loadSpan
<1>3. Load(loadTicket + 1, n, f) \in Loads
  BY <1>2, LoadIsTyped DEF ListTypeInv, ListTypeOK
<1>4. ListTypeOK'
  BY <1>2, <1>3 DEF loadSpan, ListTypeInv, ListTypeOK
<1> QED
  BY <1>1, <1>2, <1>4 DEF ListTypeInv, LoadsAreBounded

(* Nothing is asked, and no action comes that needs a load, or there is room for it. *)
LEMMA NothingAskedTyped ==
  ASSUME ListTypeInv, UNCHANGED <<loadTicket, standing>>, loads' \subseteq Loads,
         store' \in [Docs -> Records], rows' \in Pages, loadedFilter' \in Filters, filter' \in Filters,
         typing' \in BOOLEAN, loading' \in BOOLEAN, loadFailed' \in BOOLEAN, hasMore' \in BOOLEAN,
         answered' \in BOOLEAN, busy' \subseteq Docs, modal' \in Docs \cup {NoDialog, CreateDialog},
         acts' \subseteq Acts, acts' \subseteq acts \/ (Room /\ \E a : acts' = acts \cup {a})
  PROVE  ListTypeInv'
<1>1. ListTypeOK'
  BY DEF ListTypeInv, ListTypeOK, standing
<1>2. loadTicket \in Nat /\ MaxTicket \in Nat /\ IsFiniteSet(acts) /\ IsFiniteSet(Unrefreshed)
      /\ Cardinality(Unrefreshed) \in Nat /\ loadTicket + Cardinality(Unrefreshed) <= MaxTicket
  BY UnrefreshedAreCounted, ListBounds DEF ListTypeInv, ListTypeOK, LoadsAreBounded, Unrefreshed
<1>3. CASE acts' \subseteq acts
  <2>1. IsFiniteSet(acts') /\ Unrefreshed' \in SUBSET Unrefreshed
    BY <1>2, <1>3, FS_Subset DEF Unrefreshed
  <2>2. Cardinality(Unrefreshed') <= Cardinality(Unrefreshed) /\ Cardinality(Unrefreshed') \in Nat
    BY <1>2, <2>1, FS_Subset, FS_CardinalityType
  <2> QED
    BY <1>1, <1>2, <2>1, <2>2 DEF ListTypeInv, LoadsAreBounded
<1>4. CASE Room /\ \E a : acts' = acts \cup {a}
  <2>1. PICK a : acts' = acts \cup {a}
    BY <1>4
  <2>2. IsFiniteSet(acts') /\ Unrefreshed' \in SUBSET (Unrefreshed \cup {a})
    BY <1>2, <2>1, FS_AddElement DEF Unrefreshed
  <2>3. /\ IsFiniteSet(Unrefreshed \cup {a})
        /\ Cardinality(Unrefreshed \cup {a}) \in {Cardinality(Unrefreshed), Cardinality(Unrefreshed) + 1}
    BY <1>2, FS_AddElement
  <2>4. Cardinality(Unrefreshed') <= Cardinality(Unrefreshed \cup {a}) /\ Cardinality(Unrefreshed') \in Nat
    BY <2>2, <2>3, FS_Subset, FS_CardinalityType
  <2>5. loadTicket + Cardinality(Unrefreshed) < MaxTicket
    BY <1>4 DEF Room, Unrefreshed
  <2> QED
    BY <1>1, <1>2, <2>2, <2>3, <2>4, <2>5 DEF ListTypeInv, LoadsAreBounded
<1> QED
  BY <1>3, <1>4

(* The statuses an action writes, and the records it leaves. *)
LEMMA StatusesAre ==
  /\ {"absent", "DRAFT", "PENDING_APPROVAL", "APPROVED", "REJECTED"} \subseteq Statuses
  /\ \A r \in Records : /\ r.status \in Statuses /\ r.title \in SearchTexts
                        /\ \A s \in Statuses : [r EXCEPT !.status = s] \in Records
                        /\ \A t \in SearchTexts : [r EXCEPT !.title = t] \in Records
  BY DEF Statuses, Records

(* An action is sent: what the server stored and what was answered are of their types. *)
LEMMA SendsTyped ==
  ASSUME ListTypeInv, Room, NEW d \in Docs, NEW o \in {"route", "reject", "sign", "rename", "create"},
         NEW title, o = "rename" => title \in SearchTexts, SendsAction(d, o, title), Quiet,
         busy' \subseteq Docs, modal' = modal
  PROVE  ListTypeInv'
<1>1. PICK answer \in Answers, done \in BOOLEAN :
        /\ store' = IF done THEN [store EXCEPT ![d] = Written(d, o, title)] ELSE store
        /\ acts' = acts \cup {[doc |-> d, op |-> o,
                              shown |-> IF answer = "ok" /\ o # "rename" THEN AtLeast(Shown) ELSE 0,
                              pc |-> IF answer = "ok" THEN "ok" ELSE "failed", ticket |-> 0,
                              saved |-> IF answer = "ok" /\ o = "rename" THEN store'[d].status ELSE "absent"]}
  BY DEF SendsAction
<1>2. store \in [Docs -> Records] /\ rows \in Pages
  BY DEF ListTypeInv, ListTypeOK
<1>3. store' \in [Docs -> Records]
  <2>1. store[d] \in Records
    BY <1>2
  <2>2. Written(d, o, title) \in Records
    BY <2>1, StatusesAre DEF Written
  <2> QED
    BY <1>1, <1>2, <2>2
<1>4. PICK a : acts' = acts \cup {a} /\ a \in Acts
  <2>1. store'[d].status \in Statuses /\ "absent" \in Statuses
    BY <1>3, StatusesAre
  <2>2. AtLeast(Shown) \in Nat /\ 0 \in 0..MaxTicket
    BY <1>2, CountsAreNumbers, ListBounds
  <2>3. \A s \in Nat, p \in {"ok", "failed"}, v \in Statuses :
          [doc |-> d, op |-> o, shown |-> s, pc |-> p, ticket |-> 0, saved |-> v] \in Acts
    BY <2>2 DEF Acts
  <2> QED
    BY <1>1, <2>1, <2>2, <2>3
<1>5. /\ UNCHANGED <<loadTicket, standing, loads, rows, loadedFilter, filter, typing, loading, loadFailed,
                     hasMore, answered>>
  BY DEF Quiet
<1>6. acts' \subseteq Acts
  BY <1>4 DEF ListTypeInv, ListTypeOK
<1>7. ListTypeOK
  BY DEF ListTypeInv
<1> QED
  BY <1>3, <1>4, <1>5, <1>6, <1>7, NothingAskedTyped DEF ListTypeOK

(* What goes on without its dialog are actions, and no more than there were. *)
LEMMA WithoutDialogCounts ==
  ASSUME NEW A \in SUBSET Acts, IsFiniteSet(A), NEW B \in WithoutDialog(A)
  PROVE  LET still(S) == {a \in S : a.pc # "refresh"} IN
         /\ B \subseteq Acts /\ IsFiniteSet(B)
         /\ Cardinality(still(B)) \in Nat /\ Cardinality(still(A)) \in Nat
         /\ Cardinality(still(B)) <= Cardinality(still(A))
<1> DEFINE signing == {a \in A : a.op = "sign" /\ a.pc # "refresh"}
           still(S) == {a \in S : a.pc # "refresh"}
<1>1. PICK lives \in SUBSET signing : B = (A \ signing) \cup {[a EXCEPT !.op = "orphan"] : a \in lives}
  BY DEF WithoutDialog
<1> DEFINE orphan(a) == [a EXCEPT !.op = "orphan"]
           f == [a \in (A \ signing) \cup lives |-> IF a \in signing THEN orphan(a) ELSE a]
           g == [a \in (still(A) \ signing) \cup lives |-> IF a \in signing THEN orphan(a) ELSE a]
<1>2. \A a \in signing : orphan(a) \in Acts /\ orphan(a).pc # "refresh"
  BY DEF Acts
<1>3. B \subseteq Acts
  BY <1>1, <1>2
<1>4. f \in Surjection((A \ signing) \cup lives, B)
  BY <1>1 DEF Surjection
<1>5. IsFiniteSet(B)
  <2> HIDE DEF f
  <2>1. IsFiniteSet((A \ signing) \cup lives)
    BY FS_Subset
  <2> QED
    BY <1>4, <2>1, FS_Surjection
<1>6. g \in Surjection((still(A) \ signing) \cup lives, still(B))
  <2>1. still(B) = (still(A) \ signing) \cup {orphan(a) : a \in lives}
    BY <1>1, <1>2
  <2> QED
    BY <2>1 DEF Surjection
<1>7. Cardinality(still(B)) <= Cardinality(still(A)) /\ Cardinality(still(B)) \in Nat
      /\ Cardinality(still(A)) \in Nat
  <2> DEFINE D == (still(A) \ signing) \cup lives
             SA == still(A)
             SB == still(B)
  <2>1. D \in SUBSET SA /\ IsFiniteSet(SA)
    BY FS_Subset
  <2>2. g \in Surjection(D, SB)
    BY <1>6
  <2> HIDE DEF g, D, SA, SB
  <2>3. IsFiniteSet(D) /\ Cardinality(D) <= Cardinality(SA)
    BY <2>1, FS_Subset
  <2>4. IsFiniteSet(SB) /\ Cardinality(SB) <= Cardinality(D)
    BY <2>2, <2>3, FS_Surjection
  <2>5. Cardinality(D) \in Nat /\ Cardinality(SB) \in Nat /\ Cardinality(SA) \in Nat
    BY <2>1, <2>3, <2>4, FS_CardinalityType
  <2>6. Cardinality(SB) <= Cardinality(SA)
    BY <2>3, <2>4, <2>5
  <2> QED
    BY <2>5, <2>6 DEF SA, SB
<1> QED
  BY <1>3, <1>5, <1>7

(* Closing the dialog keeps the types: an action in it goes on, or is dropped. *)
LEMMA ClosingTyped ==
  ASSUME ListTypeInv, Close
  PROVE  ListTypeInv'
<1>1. acts \in SUBSET Acts /\ IsFiniteSet(acts) /\ acts' \in WithoutDialog(acts)
  BY DEF Close, ListTypeInv, ListTypeOK, LoadsAreBounded
<1>2. /\ acts' \subseteq Acts /\ IsFiniteSet(acts')
      /\ Cardinality(Unrefreshed') \in Nat /\ Cardinality(Unrefreshed) \in Nat
      /\ Cardinality(Unrefreshed') <= Cardinality(Unrefreshed)
  BY <1>1, WithoutDialogCounts DEF Unrefreshed
<1>3. /\ UNCHANGED <<store, rows, loadedFilter, filter, typing, loading, loadFailed, hasMore, answered,
                      loadTicket, standing, loads, busy>>
      /\ modal' = NoDialog
  BY DEF Close, Quiet
<1>4. ListTypeOK'
  BY <1>2, <1>3 DEF ListTypeInv, ListTypeOK, standing
<1>5. loadTicket \in Nat /\ MaxTicket \in Nat /\ loadTicket + Cardinality(Unrefreshed) <= MaxTicket
  BY ListBounds DEF ListTypeInv, ListTypeOK, LoadsAreBounded
<1>6. loadTicket' + Cardinality(Unrefreshed') <= MaxTicket
  BY <1>2, <1>3, <1>5
<1> QED
  BY <1>2, <1>4, <1>6 DEF ListTypeInv, LoadsAreBounded

(* A control changes one part of the filter. *)
LEMMA FiltersAre ==
  /\ \A f \in Filters, q \in SearchTexts : [f EXCEPT !.q = q] \in Filters
  /\ \A f \in Filters, s \in {"", "PENDING_APPROVAL"} : [f EXCEPT !.status = s] \in Filters
  BY DEF Filters

(* What the operator does keeps the types. *)
LEMMA ControlsTyped ==
  ASSUME ListTypeInv, Controls
  PROVE  ListTypeInv'
<1>0. /\ ListTypeOK /\ rows \in Pages /\ filter \in Filters /\ loadedFilter \in Filters
      /\ \A r \in rows : r.id \in Docs
      /\ IsFiniteSet(acts) /\ acts \subseteq Acts
  BY DEF ListTypeInv, LoadsAreBounded, ListTypeOK, Pages, Rows
<1>1. ASSUME NEW n \in Nat, NEW f \in Filters, loadSpan(n, f), Room, Still,
             lastAsked' \in Filters, overtaken' \in BOOLEAN, filter' \in Filters, typing' \in BOOLEAN
      PROVE  ListTypeInv'
  <2>1. loadTicket + Cardinality(Unrefreshed') < MaxTicket
    BY <1>1 DEF Room, Unrefreshed, Still
  <2> QED
    BY <1>0, <1>1, <2>1, LoadBeginsTyped DEF Still, ListTypeOK
<1>2. ASSUME NEW q \in SearchTexts, Type(q) PROVE ListTypeInv'
  <2>1. filter' \in Filters
    BY <1>0, <1>2, FiltersAre, Zenon DEF Type
  <2>2. /\ UNCHANGED <<store, rows, loadedFilter, loadFailed, hasMore, answered, acts, busy, modal>>
        /\ UNCHANGED <<loading, loadTicket, standing, loads>> /\ typing' = TRUE
    BY <1>2, Zenon DEF Type, Still
  <2> QED
    BY <1>0, <2>1, <2>2, NothingAskedTyped DEF ListTypeOK
<1>3. CASE Enter
  BY <1>0, <1>1, <1>3, ListBounds DEF Enter, AsksAnew, ListTypeOK
<1>4. CASE Blur
  <2>1. CASE Room /\ AsksAnew(filter)
    BY <1>0, <1>1, <1>4, <2>1, ListBounds DEF Blur, AsksAnew
  <2>2. CASE UNCHANGED <<loading, loadTicket, standing, loads>>
    BY <1>0, <1>4, <2>2, NothingAskedTyped DEF Blur, Still, ListTypeOK
  <2> QED
    BY <1>4, <2>1, <2>2 DEF Blur
<1>5. CASE Retry \/ LoadMore
  BY <1>0, <1>1, <1>5, CountsAreNumbers DEF Retry, LoadMore, AsksAgain, ListTypeOK
<1>6. ASSUME NEW s \in {"", "PENDING_APPROVAL"}, Select(s) PROVE ListTypeInv'
  <2>1. [filter EXCEPT !.status = s] \in Filters
    BY <1>0, FiltersAre, Zenon
  <2>2. /\ filter' = [filter EXCEPT !.status = s] /\ loadSpan(PAGE, [filter EXCEPT !.status = s])
        /\ lastAsked' = [filter EXCEPT !.status = s] /\ overtaken' = FALSE
        /\ Room /\ Still /\ typing' = typing
    BY <1>6, Zenon DEF Select, AsksAnew
  <2>3. PAGE \in Nat /\ typing' \in BOOLEAN
    BY <1>0, <2>2, ListBounds DEF ListTypeOK
  <2> HIDE DEF Filters
  <2>4. PICK g : g = [filter EXCEPT !.status = s]
    OBVIOUS
  <2> QED
    BY <1>1, <2>1, <2>2, <2>3, <2>4
<1>7. CASE OpenCreate
  BY <1>0, <1>7, NothingAskedTyped DEF OpenCreate, Quiet, ListTypeOK
<1>8. CASE Close
  BY <1>8, ClosingTyped
<1>9. ASSUME NEW r \in rows, OpenSign(r) PROVE ListTypeInv'
  BY <1>0, <1>9, NothingAskedTyped DEF OpenSign, Quiet, ListTypeOK
<1>10. ASSUME NEW d \in Docs, handleCreateDocument(d) \/ DialogSigns(d) PROVE ListTypeInv'
  <2>1. PICK o \in {"create", "sign"} : SendsAction(d, o, "")
    BY <1>10, Zenon DEF handleCreateDocument, DialogSigns
  <2>2. Room /\ Quiet /\ UNCHANGED <<busy, modal>> /\ busy' \subseteq Docs
    BY <1>0, <1>10, Zenon DEF handleCreateDocument, DialogSigns, ListTypeOK
  <2>3. PICK e : e = ""
    OBVIOUS
  <2>4. SendsAction(d, o, e)
    BY <2>1, <2>3, Zenon
  <2> QED
    BY <2>2, <2>4, SendsTyped
<1>11. ASSUME NEW r \in rows, NEW o \in {"route", "reject"}, RowAction(r, o) PROVE ListTypeInv'
  <2>1. PICK e : SendsAction(r.id, o, e)
    BY <1>11, Zenon DEF RowAction
  <2>2. Room /\ Quiet /\ modal' = modal /\ busy' = busy \cup {r.id}
    BY <1>11, Zenon DEF RowAction
  <2>3. busy' \subseteq Docs
    BY <1>0, <2>2 DEF ListTypeOK
  <2> QED
    BY <1>0, <2>1, <2>2, <2>3, SendsTyped
<1>12. ASSUME NEW r \in rows, NEW title \in SearchTexts, Rename(r, title) PROVE ListTypeInv'
  BY <1>0, <1>12, SendsTyped DEF Rename, ListTypeOK
<1> QED
  BY <1>2, <1>3, <1>4, <1>5, <1>6, <1>7, <1>8, <1>9, <1>10, <1>11, <1>12 DEF Controls

(* A load that goes on or ends keeps the types. *)
LEMMA LoadStepTyped ==
  ASSUME ListTypeInv, NEW l \in loads, LoadStep(l)
  PROVE  ListTypeInv'
<1>1. /\ ListTypeOK /\ l \in Loads /\ Collected(l) \in Pages /\ l.filter \in Filters
      /\ loads \subseteq Loads /\ store \in [Docs -> Records]
  BY DEF ListTypeInv, ListTypeOK, Loads, Collected, Pages
<1>2. UNCHANGED <<store, filter, typing, loadTicket, standing, modal>>
  BY DEF LoadStep
<1>3. CASE WalksOn(l)
  <2> DEFINE next == [l EXCEPT !.got = Collected(l), !.page = getDocuments(l.filter, Last(l))]
  <2>1. next \in Loads
    BY <1>1, AnswersArePages DEF Loads
  <2>2. loads' = (loads \ {l}) \cup {next}
        /\ UNCHANGED <<rows, loadedFilter, loading, loadFailed, hasMore, answered, acts, busy>>
    BY <1>3 DEF WalksOn
  <2> HIDE DEF next
  <2> QED
    BY <1>1, <1>2, <2>1, <2>2, NothingAskedTyped DEF ListTypeOK
<1>4. CASE Superseded(l) \/ ListLoadFails(l) \/ Lands(l)
  <2>1. /\ loads' = loads \ {l} /\ acts' \subseteq acts /\ busy' \subseteq busy
    BY <1>4 DEF Superseded, ListLoadFails, Lands, LoadEnds
  <2>2. /\ rows' \in Pages /\ loadedFilter' \in Filters
        /\ loading' \in BOOLEAN /\ loadFailed' \in BOOLEAN /\ hasMore' \in BOOLEAN /\ answered' \in BOOLEAN
    BY <1>1, <1>4 DEF Superseded, ListLoadFails, Lands, ListTypeOK
  <2> QED
    BY <1>1, <1>2, <2>1, <2>2, NothingAskedTyped DEF ListTypeOK
<1> QED
  BY <1>3, <1>4 DEF LoadStep

(* The answer to an action keeps the types: its refresh takes the ticket left for it. *)
LEMMA ActStepTyped ==
  ASSUME ListTypeInv, NEW a \in acts, ActStep(a)
  PROVE  ListTypeInv'
<1>1. /\ ListTypeOK /\ a \in Acts /\ acts \subseteq Acts /\ IsFiniteSet(acts) /\ loads \subseteq Loads
      /\ rows \in Pages
  BY DEF ListTypeInv, ListTypeOK, LoadsAreBounded
<1>2. CASE Refreshes(a)
  <2> DEFINE now == [a EXCEPT !.pc = "refresh", !.ticket = loadTicket + 1, !.shown = 0]
  <2>1. loadTicket \in Nat /\ MaxTicket \in Nat /\ loadTicket + Cardinality(Unrefreshed) <= MaxTicket
        /\ IsFiniteSet(Unrefreshed)
    BY <1>1, UnrefreshedAreCounted, ListBounds DEF ListTypeInv, LoadsAreBounded, ListTypeOK, Unrefreshed
  <2>2. a \in Unrefreshed /\ now.pc = "refresh"
    BY <1>1, <1>2 DEF Refreshes, Unrefreshed, Acts
  <2>3. Cardinality(Unrefreshed \ {a}) = Cardinality(Unrefreshed) - 1 /\ Cardinality(Unrefreshed \ {a}) \in Nat
        /\ Cardinality(Unrefreshed) \in Nat
    BY <2>1, <2>2, FS_RemoveElement, FS_CardinalityType
  <2>11. PICK others \in {acts \ {a}} \cup WithoutDialog(acts \ {a}) : acts' = others \cup {now}
    BY <1>2 DEF Refreshes
  <2> DEFINE still(S) == {b \in S : b.pc # "refresh"}
  <2>12. acts \ {a} \in SUBSET Acts /\ IsFiniteSet(acts \ {a}) /\ still(acts \ {a}) = Unrefreshed \ {a}
    BY <1>1, FS_RemoveElement DEF Unrefreshed
  <2>13. /\ others \subseteq Acts /\ IsFiniteSet(others) /\ Cardinality(still(others)) \in Nat
         /\ Cardinality(still(others)) <= Cardinality(Unrefreshed \ {a})
    <3>1. CASE others = acts \ {a}
      <4>1. still(others) = Unrefreshed \ {a} /\ others \subseteq Acts /\ IsFiniteSet(others)
        BY <2>12, <3>1
      <4> HIDE DEF still
      <4>2. Cardinality(still(others)) = Cardinality(Unrefreshed \ {a})
        BY <4>1
      <4> QED
        BY <2>3, <4>1, <4>2
    <3>2. CASE others \in WithoutDialog(acts \ {a})
      BY <2>12, <3>2, WithoutDialogCounts
    <3> QED
      BY <3>1, <3>2
  <2> HIDE DEF now
  <2>4. Unrefreshed' = still(others)
    BY <2>2, <2>11 DEF Unrefreshed
  <2> HIDE DEF still
  <2>5. loadTicket + Cardinality(Unrefreshed') < MaxTicket
    BY <2>1, <2>3, <2>4, <2>13
  <2>6. loadTicket + 1 \in 0..MaxTicket
    BY <2>1, <2>3
  <2>7. now \in Acts
    BY <1>1, <2>6 DEF now, Acts
  <2>8. acts' \subseteq Acts /\ IsFiniteSet(acts')
    BY <2>7, <2>11, <2>13, FS_AddElement
  <2>9. a.shown \in Nat
    BY <1>1 DEF Acts
  <2>10. /\ loadSpan(a.shown, loadedFilter) /\ modal' \in {modal, NoDialog}
         /\ lastAsked' = lastAsked /\ overtaken' \in BOOLEAN
         /\ UNCHANGED <<store, rows, loadedFilter, filter, typing, loadFailed, hasMore, answered, busy>>
    BY <1>1, <1>2 DEF Refreshes, AsksAgain, ListTypeOK
  <2> QED
    BY <1>1, <2>5, <2>8, <2>9, <2>10, LoadBeginsTyped DEF ListTypeOK
<1>3. CASE Renamed(a)
  <2>1. rows' \in Pages
    <3>1. \A r \in Rows : [r EXCEPT !.status = a.saved] \in Rows
      BY <1>1 DEF Acts, Rows
    <3> QED
      BY <1>1, <1>3, <3>1 DEF Renamed, Pages
  <2> QED
    BY <1>1, <1>3, <2>1, NothingAskedTyped DEF Renamed, ListTypeOK
<1>4. CASE ActFails(a)
  BY <1>1, <1>4, NothingAskedTyped DEF ActFails, Quiet, ListTypeOK
<1> QED
  BY <1>2, <1>3, <1>4 DEF ActStep

(* What others do to a document keeps the types. *)
LEMMA ElsewhereTyped == ListTypeInv /\ Elsewhere => ListTypeInv'
<1> SUFFICES ASSUME ListTypeInv, Elsewhere PROVE ListTypeInv'
  OBVIOUS
<1>1. ListTypeOK
  BY DEF ListTypeInv
<1>2. PICK d \in Docs, s \in {"PENDING_APPROVAL", "APPROVED"} : store' = [store EXCEPT ![d].status = s]
  BY DEF Elsewhere
<1>3. store' \in [Docs -> Records]
  <2>1. store[d] \in Records
    BY <1>1 DEF ListTypeOK
  <2>2. [store[d] EXCEPT !.status = s] \in Records
    BY <2>1, StatusesAre
  <2> QED
    BY <1>1, <1>2, <2>2 DEF ListTypeOK
<1> QED
  BY <1>1, <1>3, NothingAskedTyped DEF Elsewhere, ListTypeOK

(* Every step keeps the types. *)
LEMMA ListNextTyped ==
  ASSUME ListTypeInv, [ListNext /\ UNCHANGED route]_<<route, listVars>>
  PROVE  ListTypeInv'
<1>1. CASE UNCHANGED listVars
  BY <1>1 DEF listVars, standing, ListTypeInv, ListTypeOK, LoadsAreBounded, Unrefreshed
<1>2. CASE ListNext
  BY <1>2, ElsewhereTyped, ControlsTyped, LoadStepTyped, ActStepTyped DEF ListNext
<1> QED
  BY <1>1, <1>2

(* For any finite set of documents, size of page and number of loads, what the list screen keeps
   and what is in flight has its types, the tickets within their bound. *)
THEOREM ListTypesHold == ListSpec => []ListTypeOK
<1>1. ListTypeInv => ListTypeOK
  BY DEF ListTypeInv
<1> QED
  BY <1>1, ListTypesInit, ListNextTyped, PTL DEF ListSpec
-----------------------------------------------------------------------------
(* A document that a load knows is there, and was routed if the load asks for the waiting ones: it
   can leave that status but not come back to it. *)
KnownStay ==
    \A l \in loads : l.filter.q = "" =>
        \A d \in l.known : /\ store[d].status # "absent"
                           /\ l.filter.status = "PENDING_APPROVAL" => store[d].status # "DRAFT"

(* A match is in the pages of the walk, or comes after all they hold. *)
CollectedOrAhead(l, d) ==
    \/ \E r \in Collected(l) : r.id = d
    \/ ~RanOut(l) /\ \A r \in Collected(l) : Before(r.id, d)

(* Whatever a load knows of and still matches it has collected, or has yet to reach. *)
WalkIsAPrefix ==
    \A l \in loads : l.filter.q = "" =>
        \A d \in l.known : Matches(d, l.filter) => CollectedOrAhead(l, d)

(* The inductive invariant of the walk: types, what stays known, and the prefix. *)
WalkInv == ListTypeOK /\ KnownStay /\ WalkIsAPrefix

(* The parts of a load. *)
LEMMA LoadIs ==
  ASSUME ListTypeOK, NEW l \in loads
  PROVE  /\ l.known \subseteq Docs /\ l.filter.status \in {"", "PENDING_APPROVAL"} /\ l.filter \in Filters
         /\ IsFiniteSet(l.page) /\ \A r \in Collected(l) : r.id \in Docs
         /\ DOMAIN l = {"ticket", "filter", "wanted", "got", "known", "page"}
<1>1. l \in Loads
  BY DEF ListTypeOK
<1>2. l.known \subseteq Docs /\ l.filter \in Filters /\ l.page \in Pages /\ l.got \in Pages
      /\ DOMAIN l = {"ticket", "filter", "wanted", "got", "known", "page"}
  BY <1>1 DEF Loads
<1>3. \A r \in Collected(l) : r.id \in Docs
  BY <1>2 DEF Collected, Pages, Rows
<1> QED
  BY <1>2, <1>3, RowsAreFinite DEF Filters

(* A walk that collects a prefix has skipped nothing it has passed. *)
LEMMA PrefixSkipsNothing == WalkInv => WalkSkipsNothing
<1> SUFFICES ASSUME WalkInv, NEW l \in loads, l.filter.q = "", NEW d \in l.known,
                    Passed(l, d), Matches(d, l.filter)
             PROVE  \E r \in Collected(l) : r.id = d
  BY DEF WalkSkipsNothing
<1>1. CollectedOrAhead(l, d)
  BY DEF WalkInv, WalkIsAPrefix
<1>2. d \in Docs /\ \A r \in Collected(l) : r.id \in Docs
  BY LoadIs DEF WalkInv
<1> QED
  BY <1>1, <1>2, BeforeOrders DEF Passed, CollectedOrAhead

(* A load that begins. *)
LEMMA NewLoadIs ==
  ASSUME NEW t, NEW n, NEW f
  PROVE  LET l == Load(t, n, f) IN
         /\ l.filter = f /\ l.known \subseteq Docs
         /\ \A d \in l.known : Matches(d, f) /\ CollectedOrAhead(l, d)
<1> DEFINE l == Load(t, n, f)
           S == Beyond(f, 0)
<1>1. /\ l.filter = f /\ l.known = S /\ l.got = {} /\ l.page = getDocuments(f, 0)
  BY DEF Load
<1>2. S \in SUBSET Docs /\ \A d \in S : Matches(d, f)
  BY DEF Beyond
<1>3. l.page = {AsRow(d) : d \in First(S)}
  BY <1>1 DEF getDocuments
<1> HIDE DEF l, S
<1>4. \A d \in S : \/ \E r \in l.page : r.id = d
                   \/ ~(Cardinality(l.page) < PAGE) /\ \A r \in l.page : Before(r.id, d)
  BY <1>2, <1>3, PageIsAPrefix
<1>5. Collected(l) = l.page
  BY <1>1 DEF Collected
<1>6. \A d \in l.known : Matches(d, f) /\ CollectedOrAhead(l, d)
  BY <1>1, <1>2, <1>4, <1>5 DEF RanOut, CollectedOrAhead
<1> QED
  BY <1>1, <1>2, <1>6 DEF l

(* The store moves on: no document is deleted, and none comes back to where it was. *)
StoreMoves ==
    \A d \in Docs : /\ store[d].status # "absent" => store'[d].status # "absent"
                    /\ store[d].status \notin {"absent", "DRAFT"} => store'[d].status \notin {"absent", "DRAFT"}
                    /\ store'[d].status = "PENDING_APPROVAL" =>
                         store[d].status \in {"absent", "DRAFT", "PENDING_APPROVAL"}

(* What a load knows matches after a step only if it did before: nothing comes back. *)
LEMMA KnownComeBackFromNowhere ==
  ASSUME WalkInv, StoreMoves, NEW l \in loads, l.filter.q = "", NEW d \in l.known
  PROVE  Matches(d, l.filter)' => Matches(d, l.filter)
<1>1. /\ d \in Docs /\ l.filter.status \in {"", "PENDING_APPROVAL"}
      /\ store[d].status # "absent"
      /\ l.filter.status = "PENDING_APPROVAL" => store[d].status # "DRAFT"
  BY LoadIs DEF WalkInv, KnownStay
<1> QED
  BY <1>1 DEF StoreMoves, Matches

(* The store moves on, and loads end. *)
LEMMA StoreMovesWalk ==
  ASSUME WalkInv, StoreMoves, route' = route, loads' \subseteq loads
  PROVE  KnownStay' /\ WalkIsAPrefix'
<1>1. ASSUME NEW l \in loads, l.filter.q = "", NEW d \in l.known
      PROVE  /\ store'[d].status # "absent"
             /\ l.filter.status = "PENDING_APPROVAL" => store'[d].status # "DRAFT"
             /\ Matches(d, l.filter)' => CollectedOrAhead(l, d)'
  <2>1. CollectedOrAhead(l, d)' <=> CollectedOrAhead(l, d)
    BY DEF CollectedOrAhead, Collected, RanOut, Before
  <2>2. /\ d \in Docs /\ store[d].status # "absent"
        /\ l.filter.status = "PENDING_APPROVAL" => store[d].status # "DRAFT"
    BY <1>1, LoadIs DEF WalkInv, KnownStay
  <2> QED
    BY <1>1, <2>1, <2>2, KnownComeBackFromNowhere DEF WalkInv, WalkIsAPrefix, StoreMoves
<1> QED
  BY <1>1 DEF KnownStay, WalkIsAPrefix

(* A load begins, and the store stays. *)
LEMMA LoadBeginsWalk ==
  ASSUME WalkInv, route' = route, store' = store, NEW n, NEW f, loadSpan(n, f)
  PROVE  KnownStay' /\ WalkIsAPrefix'
<1>1. PICK new : new = Load(loadTicket + 1, n, f)
  OBVIOUS
<1>2. /\ new.filter = f /\ new.known \subseteq Docs
      /\ \A d \in new.known : Matches(d, f) /\ CollectedOrAhead(new, d)
  BY <1>1, NewLoadIs
<1>3. loads' = loads \cup {new}
  BY <1>1 DEF loadSpan
<1>4. \A d, g : Matches(d, g)' <=> Matches(d, g)
  BY DEF Matches
<1>5. \A l, d : CollectedOrAhead(l, d)' <=> CollectedOrAhead(l, d)
  BY DEF CollectedOrAhead, Collected, RanOut, Before
<1>6. \A d \in new.known : /\ store'[d].status # "absent"
                           /\ f.status = "PENDING_APPROVAL" => store'[d].status # "DRAFT"
  BY <1>2 DEF Matches
<1> QED
  BY <1>2, <1>3, <1>4, <1>5, <1>6 DEF WalkInv, KnownStay, WalkIsAPrefix

(* A walk asks for the next page after the last row it has. *)
LEMMA WalksOnWalk ==
  ASSUME WalkInv, route' = route, store' = store, NEW l \in loads, WalksOn(l)
  PROVE  KnownStay' /\ WalkIsAPrefix'
<1> DEFINE last == Last(l)
           S == Beyond(l.filter, last)
           next == [l EXCEPT !.got = Collected(l), !.page = getDocuments(l.filter, last)]
<1>1. ~RanOut(l) /\ loads' = (loads \ {l}) \cup {next}
  BY DEF WalksOn, Enough
<1>2. /\ l.filter \in Filters /\ l.known \subseteq Docs
      /\ IsFiniteSet(l.page) /\ \A r \in Collected(l) : r.id \in Docs
      /\ DOMAIN l = {"ticket", "filter", "wanted", "got", "known", "page"}
  BY LoadIs DEF WalkInv
<1>3. /\ next.filter = l.filter /\ next.known = l.known
      /\ next.got = Collected(l) /\ next.page = getDocuments(l.filter, last)
  BY <1>2
<1>4. /\ last \in Docs /\ \E r \in l.page : r.id = last
      /\ \A r \in l.page : r.id = last \/ Before(r.id, last)
  <2> DEFINE T == {r.id : r \in l.page}
  <2>1. l.page # {}
    <3> SUFFICES ASSUME l.page = {} PROVE FALSE
      OBVIOUS
    <3>1. Cardinality(l.page) = 0
      BY FS_EmptySet
    <3> QED
      BY <1>1, <3>1, ListBounds DEF RanOut
  <2>2. T \in SUBSET Docs /\ T # {}
    BY <1>2, <2>1 DEF Collected
  <2>3. \E d \in T : \A e \in T : e = d \/ Before(e, d)
    <3> HIDE DEF T
    <3> QED
      BY <2>2, HaveEnds
  <2> QED
    BY <2>2, <2>3 DEF Last
<1>5. next.page = {AsRow(d) : d \in First(S)}
  BY <1>3 DEF getDocuments
<1>6. S = {d \in Docs : Matches(d, l.filter) /\ Before(last, d)}
  BY <1>4, ListBounds DEF Beyond
<1> HIDE DEF last, S, next
<1>7. \A d \in S : \/ \E r \in next.page : r.id = d
                   \/ ~(Cardinality(next.page) < PAGE) /\ \A r \in next.page : Before(r.id, d)
  BY <1>5, <1>6, PageIsAPrefix
<1>8. ASSUME l.filter.q = "", NEW d \in l.known, Matches(d, l.filter)
      PROVE  CollectedOrAhead(next, d)
  <2>1. CASE \E r \in Collected(l) : r.id = d
    BY <1>3, <2>1 DEF CollectedOrAhead, Collected
  <2>2. CASE \A r \in Collected(l) : Before(r.id, d)
    <3>1. d \in S
      BY <1>2, <1>4, <1>6, <1>8, <2>2 DEF Collected
    <3> QED
      BY <1>3, <1>7, <2>2, <3>1 DEF CollectedOrAhead, Collected, RanOut
  <2> QED
    BY <1>8, <2>1, <2>2 DEF WalkInv, WalkIsAPrefix, CollectedOrAhead
<1>9. \A m, d : CollectedOrAhead(m, d)' <=> CollectedOrAhead(m, d)
  BY DEF CollectedOrAhead, Collected, RanOut, Before
<1>10. \A d, f : Matches(d, f)' <=> Matches(d, f)
  BY DEF Matches
<1>11. KnownStay'
  BY <1>1, <1>3 DEF WalkInv, KnownStay
<1>12. WalkIsAPrefix'
  BY <1>1, <1>3, <1>8, <1>9, <1>10 DEF WalkInv, WalkIsAPrefix
<1> QED
  BY <1>11, <1>12

(* What an action does to the store only moves it on. *)
LEMMA SendsMoveOn ==
  ASSUME WalkInv, NEW d, NEW o \in {"route", "reject", "sign", "rename", "create"}, NEW title,
         SendsAction(d, o, title)
  PROVE  StoreMoves
<1>1. PICK done \in BOOLEAN :
        /\ done => Allowed(d, o)
        /\ store' = IF done THEN [store EXCEPT ![d] = Written(d, o, title)] ELSE store
  BY DEF SendsAction
<1>2. store \in [Docs -> Records]
  BY DEF WalkInv, ListTypeOK
<1>3. CASE ~done
  BY <1>1, <1>3 DEF StoreMoves
<1>4. CASE done /\ d \in Docs
  <2>1. store[d] \in Records /\ DOMAIN store[d] = {"status", "title"}
    BY <1>2, <1>4 DEF Records
  <2>2. \/ o \in {"route", "create"} /\ store[d].status \in {"absent", "DRAFT"}
           /\ Written(d, o, title).status = "PENDING_APPROVAL"
        \/ o \in {"reject", "sign"} /\ store[d].status = "PENDING_APPROVAL"
           /\ Written(d, o, title).status \in {"REJECTED", "APPROVED"}
        \/ o = "rename" /\ Written(d, o, title).status = store[d].status
    BY <1>1, <1>4, <2>1 DEF Written, Allowed
  <2>3. \A e \in Docs : store'[e] = IF e = d THEN Written(d, o, title) ELSE store[e]
    BY <1>1, <1>2, <1>4
  <2> QED
    BY <2>2, <2>3 DEF StoreMoves
<1>5. CASE done /\ d \notin Docs
  BY <1>1, <1>2, <1>5 DEF StoreMoves
<1> QED
  BY <1>3, <1>4, <1>5

(* Every step keeps the prefix. *)
LEMMA WalkNext ==
  ASSUME WalkInv, ListNext, route' = route
  PROVE  KnownStay' /\ WalkIsAPrefix'
<1>0. ASSUME store' = store PROVE StoreMoves
  BY <1>0 DEF StoreMoves
<1>1. CASE Elsewhere
  <2>1. StoreMoves
    BY <1>1 DEF Elsewhere, StoreMoves, WalkInv, ListTypeOK, Records
  <2> QED
    BY <1>1, <2>1, StoreMovesWalk DEF Elsewhere
<1>2. ASSUME NEW l \in loads, LoadStep(l) PROVE KnownStay' /\ WalkIsAPrefix'
  <2>1. store' = store
    BY <1>2 DEF LoadStep
  <2>2. CASE WalksOn(l)
    BY <2>1, <2>2, WalksOnWalk
  <2>3. CASE Superseded(l) \/ ListLoadFails(l) \/ Lands(l)
    BY <1>0, <2>1, <2>3, StoreMovesWalk DEF Superseded, ListLoadFails, Lands
  <2> QED
    BY <1>2, <2>2, <2>3 DEF LoadStep
<1>3. ASSUME NEW a \in acts, ActStep(a) PROVE KnownStay' /\ WalkIsAPrefix'
  BY <1>0, <1>3, LoadBeginsWalk, StoreMovesWalk DEF ActStep, Refreshes, AsksAgain, Renamed, ActFails, Quiet
<1>4. CASE Controls
  <2>1. \/ StoreMoves /\ loads' \subseteq loads
        \/ store' = store /\ \E n, f : loadSpan(n, f)
    <3> USE DEF Still, Quiet, AsksAnew, AsksAgain
    <3>1. ASSUME NEW q, Type(q) PROVE store' = store /\ loads' = loads
      BY <3>1, Zenon DEF Type
    <3>2. CASE Enter \/ Retry \/ LoadMore
      BY <3>2, Zenon DEF Enter, Retry, LoadMore
    <3>3. CASE Blur
      BY <1>0, <3>3, Zenon DEF Blur
    <3>4. CASE OpenCreate \/ Close
      BY <1>0, <3>4, Zenon DEF OpenCreate, Close
    <3>5. ASSUME NEW s, Select(s) PROVE store' = store /\ \E n, f : loadSpan(n, f)
      BY <3>5, Zenon DEF Select
    <3>6. ASSUME NEW d, handleCreateDocument(d) \/ DialogSigns(d) PROVE StoreMoves /\ loads' = loads
      BY <3>6, SendsMoveOn, Zenon DEF handleCreateDocument, DialogSigns
    <3>7. ASSUME NEW r, NEW o \in {"route", "reject"}, RowAction(r, o) PROVE StoreMoves /\ loads' = loads
      BY <3>7, SendsMoveOn, Zenon DEF RowAction
    <3>8. ASSUME NEW r, NEW title, Rename(r, title) PROVE StoreMoves /\ loads' = loads
      BY <3>8, SendsMoveOn, Zenon DEF Rename
    <3>9. ASSUME NEW r, OpenSign(r) PROVE store' = store /\ loads' = loads
      BY <3>9, Zenon DEF OpenSign
    <3> QED
      BY <1>0, <1>4, <3>1, <3>2, <3>3, <3>4, <3>5, <3>6, <3>7, <3>8, <3>9 DEF Controls
  <2> QED
    BY <2>1, StoreMovesWalk, LoadBeginsWalk
<1> QED
  BY <1>1, <1>2, <1>3, <1>4 DEF ListNext

(* The first load has collected the first page of what there is. *)
LEMMA WalkInit == ListInit => KnownStay /\ WalkIsAPrefix
<1> SUFFICES ASSUME ListInit PROVE KnownStay /\ WalkIsAPrefix
  OBVIOUS
<1>1. PICK new : new = Load(1, PAGE, Opening) /\ loads = {new}
  BY Zenon DEF ListInit
<1>2. /\ new.filter = Opening /\ new.known \subseteq Docs
      /\ \A d \in new.known : Matches(d, Opening) /\ CollectedOrAhead(new, d)
  BY <1>1, NewLoadIs
<1>3. \A d \in new.known : /\ store[d].status # "absent"
                           /\ Opening.status = "PENDING_APPROVAL" => store[d].status # "DRAFT"
  BY <1>2 DEF Matches
<1> QED
  BY <1>1, <1>2, <1>3 DEF KnownStay, WalkIsAPrefix

(* A walk by cursor skips nothing. *)
THEOREM WalksSkipNothing == ListSpec => []WalkSkipsNothing
<1>1. ListInit => KnownStay /\ WalkIsAPrefix
  BY WalkInit
<1>2. /\ ListTypeOK /\ KnownStay /\ WalkIsAPrefix
      /\ [ListNext /\ UNCHANGED route]_<<route, listVars>>
      => (KnownStay /\ WalkIsAPrefix)'
  <2> SUFFICES ASSUME ListTypeOK, KnownStay, WalkIsAPrefix, [ListNext /\ UNCHANGED route]_<<route, listVars>>
               PROVE  KnownStay' /\ WalkIsAPrefix'
    OBVIOUS
  <2>1. WalkInv
    BY DEF WalkInv
  <2>2. CASE UNCHANGED <<route, listVars>>
    <3>1. StoreMoves /\ route' = route /\ loads' \subseteq loads
      BY <2>2 DEF listVars, StoreMoves
    <3> QED
      BY <2>1, <3>1, StoreMovesWalk
  <2> QED
    BY <2>1, <2>2, WalkNext
<1>3. ListTypeOK /\ KnownStay /\ WalkIsAPrefix => WalkSkipsNothing
  BY PrefixSkipsNothing DEF WalkInv
<1> QED
  BY <1>1, <1>2, <1>3, ListTypesHold, PTL DEF ListSpec
=============================================================================
