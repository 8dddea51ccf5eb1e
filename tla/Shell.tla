------------------------------- MODULE Shell -------------------------------
(***************************************************************************)
(* What outlives the screens.  The language of a tab, and those its         *)
(* switchers offer, against what the tabs of one browser have in common     *)
(* (lib/i18n); and who is signed in, against the identity a tab keeps from  *)
(* one screen to the next (lib/access.ts, Layout, the sign-in page).        *)
(*                                                                          *)
(* A request for the identity is served when it is sent, and its answer     *)
(* lands at any later time.  Nobody signs in through another tab.           *)
(***************************************************************************)
EXTENDS Console

CONSTANTS
    Tabs,           \* the tabs of one browser
    OPTIONAL_LOCALES,
    People,         \* who may sign in at this desk
    MaxMe           \* bound on the requests for the identity, and on the sign-ins

ASSUME ShellAssumption == /\ MaxMe \in Nat
                          /\ {"mn", "en"} \cap OPTIONAL_LOCALES = {} /\ "no one" \notin People

VARIABLES
    storage,        \* localStorage: locale, locales.enabled
    tabs,           \* of each tab, locale and extraLocales
    cookie,         \* whose session the browser holds
    place,          \* where the tab is
    signedIn,       \* how many have signed in in this tab, and who was the last
    identity,       \* access.ts: the request that is kept, if any
    mes,            \* the requests made since the page was loaded, by number
    screens         \* the screens mounted: the request each awaits, and what it was told

shellVars == <<storage, tabs, cookie, place, signedIn, identity, mes, screens>>
preferenceVars == <<storage, tabs>>
sessionVars == <<cookie, place, signedIn, identity, mes, screens>>
-----------------------------------------------------------------------------
ShellRoutes == {"appearance", "session"}

DEFAULT_LOCALE == "mn"
DEFAULT_LOCALES == {"mn", "en"}
LOCALES == DEFAULT_LOCALES \cup OPTIONAL_LOCALES
NoOne == "no one"
NoRequest == 0

ShellTypeOK ==
    /\ storage \in [locale : LOCALES, enabled : SUBSET OPTIONAL_LOCALES]
    /\ tabs \in [Tabs -> [locale : LOCALES, extra : SUBSET OPTIONAL_LOCALES]]
    /\ cookie \in People \cup {NoOne}
    /\ place \in {"login", "inside", "leaving", "left"}
    /\ signedIn \in [n : 0..MaxMe, who : People \cup {NoOne}]
    /\ identity \in 0..MaxMe
    /\ mes \subseteq [n : 1..MaxMe, who : People \cup {NoOne}, session : 0..MaxMe, pc : {"sent", "landed"}]
    /\ screens \subseteq [request : 1..MaxMe, me : People \cup {NoOne, "waits"}]

ShellInit ==
    /\ storage = [locale |-> DEFAULT_LOCALE, enabled |-> {}]
    /\ tabs = [b \in Tabs |-> [locale |-> DEFAULT_LOCALE, extra |-> {}]]
    /\ cookie = NoOne /\ place = "login" /\ signedIn = [n |-> 0, who |-> NoOne]
    /\ identity = NoRequest /\ mes = {} /\ screens = {}
-----------------------------------------------------------------------------
(* The language.  Every tab keeps its own, and reads the others' only when it is loaded. *)
availableLocales(b) == DEFAULT_LOCALES \cup tabs[b].extra

restoreAnyway(b) ==                     \* planted fault: it is not asked whether it is on offer
    /\ tabs' = [tabs EXCEPT ![b] = [locale |-> storage.locale, extra |-> storage.enabled]]
    /\ UNCHANGED <<storage, sessionVars>>

restore(b) ==
    /\ tabs' = [tabs EXCEPT ![b] =
         [locale |-> IF storage.locale \in DEFAULT_LOCALES \cup storage.enabled
                     THEN storage.locale ELSE DEFAULT_LOCALE,
          extra |-> storage.enabled]]
    /\ UNCHANGED <<storage, sessionVars>>

(* Both switchers show what is on offer. *)
setLocale(b, l) ==
    /\ l \in availableLocales(b)
    /\ storage' = [storage EXCEPT !.locale = l]
    /\ tabs' = [tabs EXCEPT ![b].locale = l]
    /\ UNCHANGED sessionVars

(* The list that is stored is this tab's, whatever another tab switched on. *)
setLocaleEnabled(b, l) ==
    /\ l \notin DEFAULT_LOCALES
    /\ LET off == l \in tabs[b].extra
           extra == IF off THEN tabs[b].extra \ {l} ELSE tabs[b].extra \cup {l}
           resets == off /\ tabs[b].locale = l IN
       /\ tabs' = [tabs EXCEPT ![b] = [locale |-> IF resets THEN DEFAULT_LOCALE ELSE @.locale, extra |-> extra]]
       /\ storage' = [locale |-> IF resets THEN DEFAULT_LOCALE ELSE storage.locale, enabled |-> extra]
    /\ UNCHANGED sessionVars

PreferenceStep == \E b \in Tabs : restore(b) \/ \E l \in LOCALES : setLocale(b, l) \/ setLocaleEnabled(b, l)
-----------------------------------------------------------------------------
(* The session.  useAccess: a screen that mounts awaits the request that is kept, or
   makes one and keeps it. *)
getMe == [n |-> Cardinality(mes) + 1, who |-> cookie, session |-> signedIn.n, pc |-> "sent"]

useAccess ==
    /\ place # "login"
    /\ IF identity = NoRequest
       THEN /\ Cardinality(mes) < MaxMe
            /\ mes' = mes \cup {getMe} /\ identity' = getMe.n
       ELSE UNCHANGED <<mes, identity>>
    /\ screens' = screens \cup {[request |-> identity', me |-> "waits"]}
    /\ UNCHANGED <<preferenceVars, cookie, place, signedIn>>

Tell(request, who) ==
    screens' = {IF s.request = request THEN [s EXCEPT !.me = who] ELSE s : s \in screens}

MeLands(m) ==
    /\ m.who # NoOne
    /\ m.pc = "sent" \/ [request |-> m.n, me |-> "waits"] \in screens
    /\ mes' = (mes \ {m}) \cup {[m EXCEPT !.pc = "landed"]}
    /\ Tell(m.n, m.who)
    /\ UNCHANGED <<preferenceVars, cookie, place, signedIn, identity>>

(* A failure is never kept: not even the request that is kept by now. *)
MeFails(m) ==
    /\ m.pc = "sent"
    /\ mes' = (mes \ {m}) \cup {[m EXCEPT !.pc = "landed", !.who = NoOne]}
    /\ identity' = NoRequest
    /\ Tell(m.n, NoOne)
    /\ UNCHANGED <<preferenceVars, cookie, place, signedIn>>

Expires ==
    /\ cookie' = NoOne
    /\ UNCHANGED <<preferenceVars, place, signedIn, identity, mes, screens>>

(* Whether the server took the sign-out is not looked at. *)
logout ==
    /\ place = "inside" /\ place' = "leaving"
    /\ cookie' \in {cookie, NoOne}
    /\ UNCHANGED <<preferenceVars, signedIn, identity, mes, screens>>

(* resetAccess, and the way to the sign-in page. *)
LogoutAnswered ==
    /\ place = "leaving" /\ place' = "left"
    /\ identity' = NoRequest
    /\ UNCHANGED <<preferenceVars, cookie, signedIn, mes, screens>>

(* The sign-in page, by the sign-out or because Layout's own request failed. *)
ToLogin ==
    /\ place \in {"inside", "leaving", "left"} /\ place' = "login"
    /\ screens' = {}
    /\ UNCHANGED <<preferenceVars, cookie, signedIn, identity, mes>>

SignsIn(p) ==
    /\ place = "login" /\ place' = "inside"
    /\ signedIn.n < MaxMe /\ signedIn' = [n |-> signedIn.n + 1, who |-> p]
    /\ cookie' = p
    /\ UNCHANGED <<preferenceVars, screens>>

passwordLoginKeeps(p) == SignsIn(p) /\ UNCHANGED <<identity, mes>>     \* planted fault: no resetAccess

passwordLogin(p) == SignsIn(p) /\ identity' = NoRequest /\ UNCHANGED mes

(* The sign-in card loads the page anew. *)
eidLogin(p) == SignsIn(p) /\ identity' = NoRequest /\ mes' = {}

SessionStep ==
    \/ useAccess \/ Expires \/ logout \/ LogoutAnswered \/ ToLogin
    \/ \E m \in mes : MeLands(m) \/ MeFails(m)
    \/ \E p \in People : passwordLogin(p) \/ eidLogin(p)

ShellNext ==
    \/ route = "appearance" /\ PreferenceStep
    \/ route = "session" /\ SessionStep

ShellSpec == ShellInit /\ [][ShellNext /\ UNCHANGED route]_<<route, shellVars>>
-----------------------------------------------------------------------------
(* No tab is left in a language its switchers do not show, whatever another tab
   switched off and however the two reload: there is always a way back. *)
NeverStuck == \A b \in Tabs : tabs[b].locale \in availableLocales(b)

(* "the next person to sign in at the same desk was shown the previous one's screens,
   and a caller who signed in after an expired session kept the failure": what a screen
   awaits was asked for after the last sign-in in this tab, and whoever it is told of is
   the one who signed in, whatever failed, expired or was on its way meanwhile. *)
ScreensAreOfTheSession ==
    \A s \in screens : /\ s.me \in {"waits", NoOne, signedIn.who}
                       /\ \A m \in mes : m.n = s.request => m.session = signedIn.n
=============================================================================
