--------------------------- MODULE FrontendProofs ---------------------------
(***************************************************************************)
(* Proofs about the console: about the screens that have no module of       *)
(* proofs of their own, one after another, and about all of them side by    *)
(* side.                                                                    *)
(*                                                                          *)
(* Languages and session: no tab is stuck in a language it does not offer,  *)
(* and no screen is told of anybody but who signed in last.  The first is   *)
(* inductive beside the types.  The second is not: a screen may come to     *)
(* await a request that is kept from before it was mounted, so whatever is  *)
(* kept must be of the session that is on, at the sign-in page too; a       *)
(* request must be told from every other by its number; and what a request  *)
(* of this session is answered must be who signed in, or no one.            *)
(*                                                                          *)
(* Chain, retention and policy screens: typed work is kept, because only    *)
(* the signatures screen reads a row again, and it does so for an answer    *)
(* about that row.                                                          *)
(*                                                                          *)
(* Templates: what is offered for use was held, because whatever is served  *)
(* or answered was, and a row that is not marked unsaved shows such a one.  *)
(*                                                                          *)
(* Forms: a screen at rest shows its own writes, because a read that        *)
(* overlapped no other began after each write that was told of before it,   *)
(* and reads that overlap leave a mark.                                     *)
(*                                                                          *)
(* Batches: an item tells what became of its ceremony, because a run has    *)
(* its document to itself until two have picked it, what is due was running *)
(* and never is pending again, and how a ceremony ended is not taken back.  *)
(*                                                                          *)
(* The console: a step of the console is a step of the screen mounted, and  *)
(* leaves every other alone, so it keeps what each screen promises.         *)
(***************************************************************************)
EXTENDS Frontend, DocumentListProofs, CeremonyProofs, TaskQueueProofs, FiniteSetTheorems, TLAPS

(* The requests of this session are answered with who signed in, or with no one. *)
AnswersAreOfTheSession ==
    /\ cookie \in {NoOne, signedIn.who}
    /\ \A m \in mes : /\ m.session <= signedIn.n
                      /\ m.session = signedIn.n => m.who \in {NoOne, signedIn.who}

(* Requests are told apart by their numbers, which are those of mes, and what is kept
   or awaited is one of them. *)
RequestsAreNumbered ==
    /\ IsFiniteSet(mes)
    /\ \A m \in mes : m.n <= Cardinality(mes)
    /\ \A m, o \in mes : m.n = o.n => m = o
    /\ identity <= Cardinality(mes)
    /\ \A s \in screens : s.request <= Cardinality(mes)

(* The request that is kept was made after the last sign-in. *)
KeptIsOfTheSession ==
    identity # NoRequest => \A m \in mes : m.n = identity => m.session = signedIn.n

(* What is kept, asked and shown is of the session. *)
SessionInv ==
    /\ AnswersAreOfTheSession
    /\ RequestsAreNumbered
    /\ KeptIsOfTheSession
    /\ ScreensAreOfTheSession
    /\ place = "login" => screens = {}

(* The inductive invariant of languages and session. *)
ShellInv == ShellTypeOK /\ NeverStuck /\ SessionInv
-----------------------------------------------------------------------------
(* The bound on requests is a number. *)
LEMMA MaxMeIsNat == MaxMe \in Nat
  BY ShellAssumption

(* At first there is the default language, and nobody. *)
LEMMA ShellInitInv == ShellInit => ShellInv
<1> SUFFICES ASSUME ShellInit PROVE ShellInv
  OBVIOUS
<1>1. Cardinality({}) = 0 /\ IsFiniteSet({})
  BY FS_EmptySet
<1>2. ShellTypeOK
  <2>1. 0 \in 0..MaxMe
    BY MaxMeIsNat
  <2>2. [locale |-> DEFAULT_LOCALE, extra |-> {}] \in [locale : LOCALES, extra : SUBSET OPTIONAL_LOCALES]
    BY DEF LOCALES, DEFAULT_LOCALES, DEFAULT_LOCALE
  <2>3. tabs \in [Tabs -> [locale : LOCALES, extra : SUBSET OPTIONAL_LOCALES]]
    BY <2>2 DEF ShellInit
  <2>4. storage \in [locale : LOCALES, enabled : SUBSET OPTIONAL_LOCALES]
    BY DEF ShellInit, LOCALES, DEFAULT_LOCALES, DEFAULT_LOCALE
  <2> QED
    BY <2>1, <2>3, <2>4 DEF ShellInit, ShellTypeOK, NoRequest
<1>3. NeverStuck
  BY DEF ShellInit, NeverStuck, availableLocales, DEFAULT_LOCALES, DEFAULT_LOCALE
<1>4. SessionInv
  BY <1>1 DEF ShellInit, SessionInv, AnswersAreOfTheSession, RequestsAreNumbered, KeptIsOfTheSession,
              ScreensAreOfTheSession, NoRequest
<1> QED
  BY <1>2, <1>3, <1>4 DEF ShellInv

(* The switchers move within what is on offer, a reload restores nothing else, and the
   language that is switched off is left first. *)
LEMMA PreferenceStepInv ==
  ASSUME ShellInv, PreferenceStep
  PROVE  ShellInv'
<1> USE DEF LOCALES, DEFAULT_LOCALES, DEFAULT_LOCALE, availableLocales
<1>1. ShellTypeOK /\ NeverStuck /\ SessionInv
  BY DEF ShellInv
<1>2. ASSUME UNCHANGED sessionVars,
             storage' \in [locale : LOCALES, enabled : SUBSET OPTIONAL_LOCALES],
             NEW b \in Tabs, NEW t, tabs' = [tabs EXCEPT ![b] = t],
             t \in [locale : LOCALES, extra : SUBSET OPTIONAL_LOCALES],
             t.locale \in DEFAULT_LOCALES \cup t.extra
      PROVE  ShellInv'
  <2>1. ShellTypeOK' /\ NeverStuck'
    BY <1>1, <1>2 DEF ShellTypeOK, NeverStuck, sessionVars
  <2>2. SessionInv'
    BY <1>1, <1>2 DEF sessionVars, SessionInv, AnswersAreOfTheSession, RequestsAreNumbered,
                      KeptIsOfTheSession, ScreensAreOfTheSession
  <2> QED
    BY <2>1, <2>2 DEF ShellInv
<1>3. ASSUME NEW b \in Tabs, restore(b) PROVE ShellInv'
  <2> DEFINE t == [locale |-> IF storage.locale \in DEFAULT_LOCALES \cup storage.enabled
                              THEN storage.locale ELSE DEFAULT_LOCALE,
                   extra |-> storage.enabled]
  <2>1. /\ t \in [locale : LOCALES, extra : SUBSET OPTIONAL_LOCALES]
        /\ t.locale \in DEFAULT_LOCALES \cup t.extra
    BY <1>1 DEF ShellTypeOK
  <2>2. /\ UNCHANGED sessionVars /\ tabs' = [tabs EXCEPT ![b] = t]
        /\ storage' \in [locale : LOCALES, enabled : SUBSET OPTIONAL_LOCALES]
    BY <1>1, <1>3 DEF restore, ShellTypeOK
  <2> QED
    BY <1>2, <2>1, <2>2
<1>4. ASSUME NEW b \in Tabs, NEW l \in LOCALES, setLocale(b, l) PROVE ShellInv'
  <2> DEFINE t == [tabs[b] EXCEPT !.locale = l]
  <2>1. /\ t \in [locale : LOCALES, extra : SUBSET OPTIONAL_LOCALES]
        /\ t.locale \in DEFAULT_LOCALES \cup t.extra
    BY <1>1, <1>4 DEF ShellTypeOK, setLocale
  <2>2. /\ UNCHANGED sessionVars /\ tabs' = [tabs EXCEPT ![b] = t]
        /\ storage' \in [locale : LOCALES, enabled : SUBSET OPTIONAL_LOCALES]
    BY <1>1, <1>4 DEF setLocale, ShellTypeOK
  <2> QED
    BY <1>2, <2>1, <2>2
<1>5. ASSUME NEW b \in Tabs, NEW l \in LOCALES, setLocaleEnabled(b, l) PROVE ShellInv'
  <2> DEFINE gone   == l \in tabs[b].extra
             extra  == IF gone THEN tabs[b].extra \ {l} ELSE tabs[b].extra \cup {l}
             resets == gone /\ tabs[b].locale = l
             t      == [locale |-> IF resets THEN DEFAULT_LOCALE ELSE tabs[b].locale, extra |-> extra]
  <2>1. /\ tabs[b] \in [locale : LOCALES, extra : SUBSET OPTIONAL_LOCALES]
        /\ tabs[b].locale \in DEFAULT_LOCALES \cup tabs[b].extra
        /\ l \in OPTIONAL_LOCALES
    BY <1>1, <1>5 DEF ShellTypeOK, NeverStuck, setLocaleEnabled
  <2>2. /\ t \in [locale : LOCALES, extra : SUBSET OPTIONAL_LOCALES]
        /\ t.locale \in DEFAULT_LOCALES \cup t.extra
    BY <2>1
  <2>3. /\ UNCHANGED sessionVars /\ tabs' = [tabs EXCEPT ![b] = t]
        /\ storage' = [locale |-> IF resets THEN DEFAULT_LOCALE ELSE storage.locale, enabled |-> extra]
    BY <1>5 DEF setLocaleEnabled
  <2>4. storage' \in [locale : LOCALES, enabled : SUBSET OPTIONAL_LOCALES]
    BY <1>1, <2>1, <2>3 DEF ShellTypeOK
  <2> HIDE DEF t
  <2> QED
    BY <1>2, <2>2, <2>3, <2>4
<1> QED
  BY <1>3, <1>4, <1>5 DEF PreferenceStep
-----------------------------------------------------------------------------
(* A request changes nobody's place, and the language is another matter. *)
LEMMA SessionStepKeepsPreferences ==
  ASSUME SessionStep
  PROVE  UNCHANGED preferenceVars
  BY DEF SessionStep, useAccess, Expires, logout, LogoutAnswered, ToLogin, MeLands, MeFails,
         passwordLogin, eidLogin, SignsIn

(* One request replaced by its answer: as many as before, with the same numbers. *)
LEMMA AnsweredAreNumbered ==
  ASSUME IsFiniteSet(mes), NEW m \in mes, NEW a, a.n = m.n, mes' = (mes \ {m}) \cup {a},
         \A x, o \in mes : x.n = o.n => x = o
  PROVE  /\ IsFiniteSet(mes')
         /\ Cardinality(mes') = Cardinality(mes)
         /\ \A x, o \in mes' : x.n = o.n => x = o
<1>1. a \notin mes \ {m}
  OBVIOUS
<1>2. IsFiniteSet(mes \ {m}) /\ Cardinality(mes \ {m}) = Cardinality(mes) - 1
  BY FS_RemoveElement
<1>3. IsFiniteSet(mes') /\ Cardinality(mes') = Cardinality(mes) - 1 + 1
  BY <1>1, <1>2, FS_AddElement
<1>4. Cardinality(mes) \in Nat
  BY FS_CardinalityType
<1> QED
  BY <1>3, <1>4

(* A screen that mounts awaits a request of this session: the one that is kept, or a new
   one, told from all others by its number. *)
LEMMA MountInv ==
  ASSUME ShellInv, useAccess
  PROVE  SessionInv' /\ ShellTypeOK'
<1>1. ShellTypeOK /\ SessionInv
  BY DEF ShellInv
<1>2. Cardinality(mes) \in Nat /\ signedIn.n \in 0..MaxMe /\ MaxMe \in Nat
  BY <1>1, FS_CardinalityType, MaxMeIsNat DEF SessionInv, RequestsAreNumbered, ShellTypeOK
<1>3. place # "login" /\ screens' = screens \cup {[request |-> identity', me |-> "waits"]}
      /\ UNCHANGED <<storage, tabs, cookie, place, signedIn>>
  BY DEF useAccess, preferenceVars
<1>4. CASE identity = NoRequest
  <2> DEFINE new == getMe
  <2>1. /\ mes' = mes \cup {new} /\ identity' = new.n /\ Cardinality(mes) < MaxMe
        /\ new = [n |-> Cardinality(mes) + 1, who |-> cookie, session |-> signedIn.n, pc |-> "sent"]
    BY <1>4 DEF useAccess, getMe
  <2>2. new \notin mes
    BY <1>1, <1>2, <2>1 DEF SessionInv, RequestsAreNumbered
  <2>3. IsFiniteSet(mes') /\ Cardinality(mes') = Cardinality(mes) + 1
    BY <1>1, <2>1, <2>2, FS_AddElement DEF SessionInv, RequestsAreNumbered
  <2>4. new \in [n : 1..MaxMe, who : People \cup {NoOne}, session : 0..MaxMe, pc : {"sent", "landed"}]
    BY <1>1, <1>2, <2>1 DEF ShellTypeOK
  <2>5. identity' \in 1..MaxMe
    BY <2>1, <2>4
  <2>6. ShellTypeOK'
    BY <1>1, <1>3, <2>1, <2>4, <2>5 DEF ShellTypeOK
  <2>7. AnswersAreOfTheSession'
    BY <1>1, <1>2, <1>3, <2>1 DEF SessionInv, AnswersAreOfTheSession
  <2>8. RequestsAreNumbered'
    <3>1. \A m \in mes : m.n \in 1..MaxMe /\ m.n <= Cardinality(mes)
      BY <1>1 DEF ShellTypeOK, SessionInv, RequestsAreNumbered
    <3>2. \A s \in screens : s.request \in 1..MaxMe /\ s.request <= Cardinality(mes)
      BY <1>1 DEF ShellTypeOK, SessionInv, RequestsAreNumbered
    <3>3. \A m, o \in mes' : m.n = o.n => m = o
      BY <1>1, <1>2, <2>1, <3>1 DEF SessionInv, RequestsAreNumbered
    <3>4. \A m \in mes' : m.n <= Cardinality(mes')
      BY <1>2, <2>1, <2>3, <3>1
    <3>5. \A s \in screens' : s.request <= Cardinality(mes')
      BY <1>2, <1>3, <2>1, <2>3, <3>2
    <3> QED
      BY <1>2, <2>1, <2>3, <3>3, <3>4, <3>5 DEF RequestsAreNumbered
  <2>9. KeptIsOfTheSession'
    BY <1>1, <1>2, <1>3, <2>1 DEF SessionInv, RequestsAreNumbered, KeptIsOfTheSession
  <2>10. ScreensAreOfTheSession'
    <3>1. \A m \in mes : m.n \in 1..MaxMe /\ m.n <= Cardinality(mes)
      BY <1>1 DEF ShellTypeOK, SessionInv, RequestsAreNumbered
    <3>2. \A s \in screens : s.request \in 1..MaxMe /\ s.request <= Cardinality(mes)
      BY <1>1 DEF ShellTypeOK, SessionInv, RequestsAreNumbered
    <3> QED
      BY <1>1, <1>2, <1>3, <2>1, <3>1, <3>2 DEF SessionInv, ScreensAreOfTheSession
  <2> QED
    BY <1>3, <2>6, <2>7, <2>8, <2>9, <2>10, <1>1 DEF SessionInv
<1>5. CASE identity # NoRequest
  <2>1. UNCHANGED <<mes, identity>>
    BY <1>5 DEF useAccess
  <2>2. identity \in 1..MaxMe
    BY <1>1, <1>2, <1>5 DEF ShellTypeOK, NoRequest
  <2>3. ShellTypeOK'
    BY <1>1, <1>3, <2>1, <2>2 DEF ShellTypeOK
  <2>4. SessionInv'
    BY <1>1, <1>3, <1>5, <2>1 DEF SessionInv, AnswersAreOfTheSession, RequestsAreNumbered,
                                  KeptIsOfTheSession, ScreensAreOfTheSession
  <2> QED
    BY <2>3, <2>4
<1> QED
  BY <1>4, <1>5

(* An answer is told to the screens that await it, and is of who signed in. *)
LEMMA AnswerInv ==
  ASSUME ShellInv, NEW m \in mes, MeLands(m) \/ MeFails(m)
  PROVE  SessionInv' /\ ShellTypeOK'
<1>1. ShellTypeOK /\ SessionInv
  BY DEF ShellInv
<1>2. PICK a : /\ a \in [n : 1..MaxMe, who : People \cup {NoOne}, session : 0..MaxMe, pc : {"sent", "landed"}]
               /\ a.n = m.n /\ a.session = m.session /\ a.who \in {m.who, NoOne}
               /\ mes' = (mes \ {m}) \cup {a}
               /\ Tell(m.n, a.who)
  <2> DEFINE landed == [m EXCEPT !.pc = "landed"]
             failed == [m EXCEPT !.pc = "landed", !.who = NoOne]
  <2>1. m \in [n : 1..MaxMe, who : People \cup {NoOne}, session : 0..MaxMe, pc : {"sent", "landed"}]
    BY <1>1 DEF ShellTypeOK
  <2>2. CASE MeLands(m)
    <3>1. /\ landed \in [n : 1..MaxMe, who : People \cup {NoOne}, session : 0..MaxMe, pc : {"sent", "landed"}]
          /\ landed.n = m.n /\ landed.session = m.session /\ landed.who = m.who
      BY <2>1
    <3>2. mes' = (mes \ {m}) \cup {landed} /\ Tell(m.n, landed.who)
      BY <2>2, <3>1 DEF MeLands
    <3> HIDE DEF landed
    <3> QED
      BY <3>1, <3>2
  <2>3. CASE MeFails(m)
    <3>1. /\ failed \in [n : 1..MaxMe, who : People \cup {NoOne}, session : 0..MaxMe, pc : {"sent", "landed"}]
          /\ failed.n = m.n /\ failed.session = m.session /\ failed.who = NoOne
      BY <2>1
    <3>2. mes' = (mes \ {m}) \cup {failed} /\ Tell(m.n, failed.who)
      BY <2>3, <3>1 DEF MeFails
    <3> HIDE DEF failed
    <3> QED
      BY <3>1, <3>2
  <2> QED
    BY <2>2, <2>3
<1>3. UNCHANGED <<storage, tabs, cookie, place, signedIn>> /\ identity' \in {identity, NoRequest}
  BY DEF MeLands, MeFails, preferenceVars
<1>4. /\ IsFiniteSet(mes') /\ Cardinality(mes') = Cardinality(mes)
      /\ \A x, o \in mes' : x.n = o.n => x = o
  BY <1>1, <1>2, AnsweredAreNumbered DEF SessionInv, RequestsAreNumbered
<1>5. \A s \in screens' : \E t \in screens :
        /\ s.request = t.request
        /\ s = t \/ (t.request = m.n /\ s = [t EXCEPT !.me = a.who])
  <2>1. \A t \in screens : t \in [request : 1..MaxMe, me : People \cup {NoOne, "waits"}]
    BY <1>1 DEF ShellTypeOK
  <2>2. \A s \in screens' : \E t \in screens : s = IF t.request = m.n THEN [t EXCEPT !.me = a.who] ELSE t
    BY <1>2 DEF Tell
  <2> QED
    BY <2>1, <2>2
<1>6. ShellTypeOK'
  <2>1. mes' \subseteq [n : 1..MaxMe, who : People \cup {NoOne}, session : 0..MaxMe, pc : {"sent", "landed"}]
    BY <1>1, <1>2 DEF ShellTypeOK
  <2>2. screens' \subseteq [request : 1..MaxMe, me : People \cup {NoOne, "waits"}]
    <3>1. \A t \in screens : t \in [request : 1..MaxMe, me : People \cup {NoOne, "waits"}]
      BY <1>1 DEF ShellTypeOK
    <3>2. a.who \in People \cup {NoOne}
      BY <1>2
    <3> QED
      BY <1>5, <3>1, <3>2
  <2>3. identity' \in 0..MaxMe
    BY <1>1, <1>3, MaxMeIsNat DEF ShellTypeOK, NoRequest
  <2> QED
    BY <1>1, <1>3, <2>1, <2>2, <2>3 DEF ShellTypeOK
<1>7. AnswersAreOfTheSession'
  BY <1>1, <1>2, <1>3 DEF SessionInv, AnswersAreOfTheSession
<1>8. RequestsAreNumbered'
  <2>1. Cardinality(mes) \in Nat /\ identity \in 0..MaxMe
    BY <1>1, FS_CardinalityType DEF SessionInv, RequestsAreNumbered, ShellTypeOK
  <2>2. \A x \in mes' : x.n <= Cardinality(mes')
    BY <1>1, <1>2, <1>4 DEF SessionInv, RequestsAreNumbered
  <2>3. identity' <= Cardinality(mes')
    BY <1>1, <1>3, <1>4, <2>1 DEF SessionInv, RequestsAreNumbered, NoRequest
  <2>4. \A s \in screens' : s.request <= Cardinality(mes')
    BY <1>1, <1>4, <1>5 DEF SessionInv, RequestsAreNumbered
  <2> QED
    BY <1>4, <2>2, <2>3, <2>4 DEF RequestsAreNumbered
<1>9. KeptIsOfTheSession'
  BY <1>1, <1>2, <1>3 DEF SessionInv, KeptIsOfTheSession
<1>10. ScreensAreOfTheSession'
  <2>1. ASSUME NEW s \in screens'
        PROVE  /\ s.me \in {"waits", NoOne, signedIn.who}
               /\ \A x \in mes' : x.n = s.request => x.session = signedIn.n
    <3>1. PICK t \in screens : /\ s.request = t.request
                               /\ s = t \/ (t.request = m.n /\ s = [t EXCEPT !.me = a.who])
      BY <1>5
    <3>2. \A x \in mes : x.n = t.request => x.session = signedIn.n
      BY <1>1 DEF SessionInv, ScreensAreOfTheSession
    <3>3. \A x \in mes' : x.n = s.request => x.session = signedIn.n
      BY <1>2, <3>1, <3>2
    <3>4. t.me \in {"waits", NoOne, signedIn.who}
      BY <1>1 DEF SessionInv, ScreensAreOfTheSession
    <3>5. t.request = m.n => a.who \in {NoOne, signedIn.who}
      BY <1>1, <1>2, <3>2 DEF SessionInv, AnswersAreOfTheSession
    <3>6. t \in [request : 1..MaxMe, me : People \cup {NoOne, "waits"}]
      BY <1>1 DEF ShellTypeOK
    <3> QED
      BY <3>1, <3>3, <3>4, <3>5, <3>6
  <2> QED
    BY <1>3, <2>1 DEF ScreensAreOfTheSession
<1>11. (place = "login" => screens = {})'
  BY <1>1, <1>2, <1>3 DEF SessionInv, Tell
<1> QED
  BY <1>6, <1>7, <1>8, <1>9, <1>10, <1>11 DEF SessionInv

(* Signing in forgets what was kept, and there is no screen to be told of it. *)
LEMMA SignInInv ==
  ASSUME ShellInv, NEW p \in People, passwordLogin(p) \/ eidLogin(p)
  PROVE  SessionInv' /\ ShellTypeOK'
<1>1. ShellTypeOK /\ SessionInv
  BY DEF ShellInv
<1>2. /\ place = "login" /\ place' = "inside" /\ cookie' = p
      /\ signedIn' = [n |-> signedIn.n + 1, who |-> p] /\ signedIn.n < MaxMe
      /\ identity' = NoRequest /\ mes' \in {mes, {}} /\ UNCHANGED <<storage, tabs, screens>>
  BY DEF passwordLogin, eidLogin, SignsIn, preferenceVars
<1>3. screens' = {}
  BY <1>1, <1>2 DEF SessionInv
<1>4. signedIn.n \in 0..MaxMe /\ MaxMe \in Nat
  BY <1>1, MaxMeIsNat DEF ShellTypeOK
<1>5. \A m \in mes : m.session \in 0..MaxMe /\ m.session <= signedIn.n
  BY <1>1 DEF ShellTypeOK, SessionInv, AnswersAreOfTheSession
<1>6. ShellTypeOK'
  BY <1>1, <1>2, <1>3, <1>4 DEF ShellTypeOK, NoRequest
<1>7. AnswersAreOfTheSession'
  BY <1>2, <1>4, <1>5 DEF AnswersAreOfTheSession
<1>8. RequestsAreNumbered'
  <2>1. Cardinality({}) = 0 /\ IsFiniteSet({})
    BY FS_EmptySet
  <2>2. CASE mes' = {}
    BY <1>2, <1>3, <2>1, <2>2 DEF RequestsAreNumbered, NoRequest
  <2>3. CASE mes' = mes
    <3>1. Cardinality(mes) \in Nat
      BY <1>1, FS_CardinalityType DEF SessionInv, RequestsAreNumbered
    <3> QED
      BY <1>1, <1>2, <1>3, <2>3, <3>1 DEF SessionInv, RequestsAreNumbered, NoRequest
  <2> QED
    BY <1>2, <2>2, <2>3
<1>9. KeptIsOfTheSession' /\ ScreensAreOfTheSession' /\ (place = "login" => screens = {})'
  BY <1>2, <1>3 DEF KeptIsOfTheSession, ScreensAreOfTheSession
<1> QED
  BY <1>6, <1>7, <1>8, <1>9 DEF SessionInv

(* Whatever a session does: a screen is mounted, a request answered, somebody signs in or out. *)
LEMMA SessionStepInv ==
  ASSUME ShellInv, SessionStep
  PROVE  ShellInv'
<1>1. NeverStuck'
  BY SessionStepKeepsPreferences DEF ShellInv, NeverStuck, availableLocales, preferenceVars
<1>2. ShellTypeOK /\ SessionInv
  BY DEF ShellInv
<1>3. ASSUME Expires \/ logout \/ LogoutAnswered PROVE SessionInv' /\ ShellTypeOK'
  <2>1. /\ UNCHANGED <<storage, tabs, signedIn, mes, screens>>
        /\ cookie' \in {cookie, NoOne} /\ identity' \in {identity, NoRequest}
        /\ place' \in {place, "leaving", "left"} /\ (place' # "login" \/ place' = place)
    BY <1>3 DEF Expires, logout, LogoutAnswered, preferenceVars
  <2>2. Cardinality(mes) \in Nat
    BY <1>2, FS_CardinalityType DEF SessionInv, RequestsAreNumbered
  <2>3. ShellTypeOK'
    BY <1>2, <2>1, MaxMeIsNat DEF ShellTypeOK, NoRequest
  <2>4. SessionInv'
    BY <1>2, <2>1, <2>2 DEF SessionInv, AnswersAreOfTheSession, RequestsAreNumbered, KeptIsOfTheSession,
                            ScreensAreOfTheSession, NoRequest
  <2> QED
    BY <2>3, <2>4
<1>4. ASSUME ToLogin PROVE SessionInv' /\ ShellTypeOK'
  <2>1. screens' = {} /\ place' = "login" /\ UNCHANGED <<storage, tabs, cookie, signedIn, identity, mes>>
    BY <1>4 DEF ToLogin, preferenceVars
  <2>2. ShellTypeOK'
    BY <1>2, <2>1 DEF ShellTypeOK
  <2>3. SessionInv'
    BY <1>2, <2>1 DEF SessionInv, AnswersAreOfTheSession, RequestsAreNumbered, KeptIsOfTheSession,
                      ScreensAreOfTheSession
  <2> QED
    BY <2>2, <2>3
<1> QED
  BY <1>1, <1>3, <1>4, MountInv, AnswerInv, SignInInv DEF SessionStep, ShellInv
-----------------------------------------------------------------------------
(* The inductive invariant: places and lists are of languages, at most one request is kept, and
   it is of the session that is signed in. *)
THEOREM ShellInvariance == ShellSpec => []ShellInv
<1>1. ShellInv /\ [ShellNext /\ UNCHANGED route]_<<route, shellVars>> => ShellInv'
  <2>1. ASSUME ShellInv, UNCHANGED shellVars PROVE ShellInv'
    BY <2>1 DEF shellVars, ShellInv, ShellTypeOK, NeverStuck, availableLocales, SessionInv,
                AnswersAreOfTheSession, RequestsAreNumbered, KeptIsOfTheSession, ScreensAreOfTheSession
  <2> QED
    BY <2>1, PreferenceStepInv, SessionStepInv DEF ShellNext
<1> QED
  BY <1>1, ShellInitInv, PTL DEF ShellSpec

(* What the tabs, the browser and the screens keep has its types. *)
THEOREM ShellTypeCorrect == ShellSpec => []ShellTypeOK
<1>1. ShellInv => ShellTypeOK
  BY DEF ShellInv
<1> QED
  BY <1>1, ShellInvariance, PTL

(* However tabs switch languages on and off and reload, none is in a language its own
   switchers do not show. *)
THEOREM NoTabIsStuck == ShellSpec => []NeverStuck
<1>1. ShellInv => NeverStuck
  BY DEF ShellInv
<1> QED
  BY <1>1, ShellInvariance, PTL

(* Whatever failed, expired or was on its way, a screen is told of no one but who signed
   in last. *)
THEOREM ScreensShowWhoSignedIn == ShellSpec => []ScreensAreOfTheSession
<1>1. ShellInv => ScreensAreOfTheSession
  BY DEF ShellInv, SessionInv
<1> QED
  BY <1>1, ShellInvariance, PTL
-----------------------------------------------------------------------------
(* An answer that puts something on screen says what is stored; only the signatures
   screen reads its row again. *)
SavesInv ==
    \A c \in saves : /\ c.answer = "ok" \/ c.pc = "reread" => c.stored \in Inputs
                     /\ c.pc = "reread" => route = "signatures"

(* The types, the answers in flight, and the two properties themselves. *)
TypesInv == TypesTypeOK /\ SavesInv /\ TypedWorkIsKept /\ CountBelongsToTerm
-----------------------------------------------------------------------------
(* A text stored is a text. *)
LEMMA TrimmedIsInput ==
  ASSUME NEW c \in Inputs
  PROVE  Trimmed(c) \in Inputs
  BY DEF Trimmed, Inputs

(* At first the rows are what is stored. *)
LEMMA TypesInitInv == TypesInit => TypesInv
<1> SUFFICES ASSUME TypesInit PROVE TypesInv
  OBVIOUS
<1>1. "one" \in Inputs
  BY DEF Inputs
<1>2. 0 \in 0..MaxSaves
  BY TypesAssumption
<1>3. TypesTypeOK
  BY <1>1, <1>2 DEF TypesInit, TypesTypeOK
<1> QED
  BY <1>3 DEF TypesInit, TypesInv, SavesInv, TypedWorkIsKept, CountBelongsToTerm

(* Editing a row types in it. *)
LEMMA EditTypeInv ==
  ASSUME TypesInv, NEW d \in Types, NEW c \in Inputs, editType(d, c), route' = route
  PROVE  TypesInv'
<1>1. TypesTypeOK'
  BY DEF TypesInv, TypesTypeOK, editType
<1>2. TypedWorkIsKept'
  BY DEF TypesInv, TypesTypeOK, TypedWorkIsKept, editType
<1> QED
  BY <1>1, <1>2 DEF TypesInv, SavesInv, CountBelongsToTerm, editType

(* A save stores the row as it was sent, and leaves the screen alone. *)
LEMMA SaveTypeInv ==
  ASSUME TypesInv, NEW d \in Types, saveType(d), route' = route
  PROVE  TypesInv'
<1>1. PICK answer \in Answers, done \in BOOLEAN, counts \in BOOLEAN :
         /\ done \in Commits(answer)
         /\ stored' = IF done THEN [stored EXCEPT ![d] = Trimmed(shown[d])] ELSE stored
         /\ saves' = saves \cup {[type |-> d, row |-> shown[d], answer |-> answer, n |-> saveCount,
                                  stored |-> IF answer = "ok" THEN stored'[d] ELSE Unknown,
                                  counts |-> counts /\ route = "retention", pc |-> "save"]}
  BY DEF saveType
<1> DEFINE new == [type |-> d, row |-> shown[d], answer |-> answer, n |-> saveCount,
                   stored |-> IF answer = "ok" THEN stored'[d] ELSE Unknown,
                   counts |-> counts /\ route = "retention", pc |-> "save"]
<1>2. stored' \in [Types -> Inputs] /\ shown[d] \in Inputs /\ saveCount \in Nat
  BY <1>1, TrimmedIsInput DEF TypesInv, TypesTypeOK
<1>3. new \in Saves /\ new.pc = "save" /\ (new.answer = "ok" => new.stored \in Inputs)
  BY <1>1, <1>2 DEF Saves
<1>4. saveCount' \in 0..MaxSaves
  BY TypesAssumption DEF saveType, TypesInv, TypesTypeOK
<1> HIDE DEF new
<1>5. TypesTypeOK'
  BY <1>1, <1>2, <1>3, <1>4 DEF TypesInv, TypesTypeOK, saveType, new
<1>6. SavesInv'
  BY <1>1, <1>3 DEF TypesInv, SavesInv, saveType, new
<1> QED
  BY <1>5, <1>6 DEF TypesInv, TypedWorkIsKept, CountBelongsToTerm, saveType

(* Merging an answer takes what was typed off the row together with the text. *)
LEMMA MergeInv ==
  ASSUME TypesInv, NEW d \in Types, NEW t \in Inputs, Merge(d, t)
  PROVE  /\ shown' \in [Types -> Inputs]
         /\ {typed', told'} \subseteq [Types -> Inputs \cup {Unknown}]
         /\ \A e \in Types : typed'[e] # Unknown => shown'[e] = typed'[e]
         /\ told' = IF route = "retention" THEN [told EXCEPT ![d] = t] ELSE told
<1>1. shown' = [shown EXCEPT ![d] = t] /\ typed' = [typed EXCEPT ![d] = Unknown]
  BY DEF Merge
<1> QED
  BY <1>1 DEF Merge, Told, TypesInv, TypesTypeOK, TypedWorkIsKept

(* A save is over. *)
LEMMA SaveOverInv ==
  ASSUME TypesInv, NEW c \in saves, SaveOver(c), UNCHANGED <<stored, saveCount, opened, route>>,
         shown' \in [Types -> Inputs],
         {typed', told', counted'} \subseteq [Types -> Inputs \cup {Unknown}],
         TypedWorkIsKept', CountBelongsToTerm'
  PROVE  TypesInv'
<1>1. TypesTypeOK'
  BY DEF TypesInv, TypesTypeOK, SaveOver
<1> QED
  BY <1>1 DEF TypesInv, SavesInv, SaveOver

(* The answer of a save, by the rule of its screen. *)
LEMMA SaveAnsweredInv ==
  ASSUME TypesInv, NEW c \in saves, SaveAnswered(c), route' = route
  PROVE  TypesInv'
<1>1. c.type \in Types /\ c.stored \in Inputs
  BY DEF SaveAnswered, TypesInv, TypesTypeOK, Saves, SavesInv
<1>2. /\ shown \in [Types -> Inputs]
      /\ {typed, told, counted} \subseteq [Types -> Inputs \cup {Unknown}]
  BY DEF TypesInv, TypesTypeOK
<1>3. SaveOver(c) /\ UNCHANGED <<stored, saveCount, opened, route>>
  BY DEF SaveAnswered
<1>4. CASE route = "workflows"
  <2>1. ChainSaved(c)
    BY <1>4 DEF SaveAnswered
  <2>2. CASE Merge(c.type, c.stored) /\ UNCHANGED counted
    <3>1. CountBelongsToTerm'
      BY <1>1, <1>4, <2>2, MergeInv DEF TypesInv, CountBelongsToTerm
    <3> QED
      BY <1>1, <1>2, <1>3, <2>2, <3>1, MergeInv, SaveOverInv DEF TypedWorkIsKept
  <2>3. CASE UNCHANGED <<shown, typed, told, counted>>
    BY <1>2, <1>3, <2>3, SaveOverInv DEF TypesInv, TypedWorkIsKept, CountBelongsToTerm
  <2> QED
    BY <2>1, <2>2, <2>3 DEF ChainSaved
<1>5. CASE route = "retention"
  <2>1. TermSaved(c)
    BY <1>5 DEF SaveAnswered
  <2>2. /\ Merge(c.type, c.stored)
        /\ counted' = [counted EXCEPT ![c.type] = IF c.counts THEN c.stored ELSE Unknown]
    BY <2>1 DEF TermSaved
  <2>3. counted' \in [Types -> Inputs \cup {Unknown}]
    BY <1>1, <1>2, <2>2
  <2>4. told' = [told EXCEPT ![c.type] = c.stored]
    BY <1>1, <1>5, <2>2, MergeInv
  <2>5. CountBelongsToTerm'
    BY <1>1, <1>2, <2>2, <2>4 DEF TypesInv, CountBelongsToTerm
  <2> QED
    BY <1>1, <1>3, <2>2, <2>3, <2>5, MergeInv, SaveOverInv DEF TypedWorkIsKept
<1>6. CASE route = "signatures"
  <2>1. Merge(c.type, c.stored) /\ UNCHANGED counted
    BY <1>6 DEF SaveAnswered, PolicySaved
  <2>2. CountBelongsToTerm'
    BY <1>1, <1>6, <2>1, MergeInv DEF TypesInv, CountBelongsToTerm
  <2> QED
    BY <1>1, <1>2, <1>3, <2>1, <2>2, MergeInv, SaveOverInv DEF TypedWorkIsKept
<1> QED
  BY <1>4, <1>5, <1>6 DEF SaveAnswered

(* A save that failed, and the row that is read again after it. *)
LEMMA SaveFailedInv ==
  ASSUME TypesInv, NEW c \in saves, SaveFailed(c) \/ Reread(c) \/ RereadLands(c) \/ RereadFails(c),
         route' = route
  PROVE  TypesInv'
<1>1. /\ shown \in [Types -> Inputs]
      /\ {typed, told, counted} \subseteq [Types -> Inputs \cup {Unknown}]
      /\ stored \in [Types -> Inputs] /\ c \in Saves
  BY DEF TypesInv, TypesTypeOK
<1>2. CASE SaveFailed(c) \/ RereadFails(c)
  BY <1>1, <1>2, SaveOverInv DEF SaveFailed, RereadFails, TypesInv, TypedWorkIsKept, CountBelongsToTerm
<1>3. CASE Reread(c)
  <2> DEFINE next == [c EXCEPT !.pc = "reread", !.stored = stored[c.type]]
  <2>1. next \in Saves /\ next.stored \in Inputs
    BY <1>1 DEF Saves
  <2>2. saves' = (saves \ {c}) \cup {next} /\ route = "signatures"
    BY <1>3 DEF Reread
  <2> HIDE DEF next
  <2>3. TypesTypeOK'
    BY <1>3, <2>1, <2>2 DEF Reread, TypesInv, TypesTypeOK
  <2>4. SavesInv'
    BY <1>3, <2>1, <2>2 DEF Reread, TypesInv, SavesInv
  <2> QED
    BY <1>3, <2>3, <2>4 DEF Reread, TypesInv, TypedWorkIsKept, CountBelongsToTerm
<1>4. CASE RereadLands(c)
  <2>1. c.type \in Types /\ c.stored \in Inputs /\ route = "signatures"
    BY <1>1, <1>4 DEF RereadLands, TypesInv, SavesInv, Saves
  <2>2. Merge(c.type, c.stored) /\ UNCHANGED counted
    BY <1>4 DEF RereadLands
  <2>3. CountBelongsToTerm'
    BY <2>1, <2>2, MergeInv DEF TypesInv, CountBelongsToTerm
  <2> QED
    BY <1>1, <1>4, <2>1, <2>2, <2>3, MergeInv, SaveOverInv DEF RereadLands, TypedWorkIsKept
<1> QED
  BY <1>2, <1>3, <1>4

(* The inductive invariant of the three configuration screens. *)
THEOREM TypesInvariance == TypesSpec => []TypesInv
<1>1. TypesInv /\ [TypesNext /\ UNCHANGED route]_<<route, typeVars>> => TypesInv'
  <2>1. ASSUME TypesInv, UNCHANGED <<route, typeVars>> PROVE TypesInv'
    BY <2>1 DEF typeVars, TypesInv, TypesTypeOK, SavesInv, TypedWorkIsKept, CountBelongsToTerm
  <2>2. ASSUME TypesInv, loadTypes, route' = route PROVE TypesInv'
    BY <2>2 DEF loadTypes, TypesInv, TypesTypeOK, SavesInv, TypedWorkIsKept, CountBelongsToTerm
  <2> QED
    BY <2>1, <2>2, EditTypeInv, SaveTypeInv, SaveAnsweredInv, SaveFailedInv DEF TypesNext
<1> QED
  BY <1>1, TypesInitInv, PTL DEF TypesSpec

(* What was typed stays in its row until an answer about that row is given. *)
THEOREM TypedWorkStays == TypesSpec => []TypedWorkIsKept
<1>1. TypesInv => TypedWorkIsKept
  BY DEF TypesInv
<1> QED
  BY <1>1, TypesInvariance, PTL

(* A count of documents past their term stands only beside the term it was taken against. *)
THEOREM CountsBelongToTheirTerm == TypesSpec => []CountBelongsToTerm
<1>1. TypesInv => CountBelongsToTerm
  BY DEF TypesInv
<1> QED
  BY <1>1, TypesInvariance, PTL
-----------------------------------------------------------------------------
(* What the server holds, and what it has served or answered, it has held. *)
ServerRemembers ==
    /\ \A r \in RowIds : held[r] # Absent => held[r] \in ever[r]
    /\ load.pc = "served" => \A r \in RowIds : load.rows[r] # Absent => load.rows[r] \in ever[r]
    /\ \A c \in calls : c.answer = "ok" /\ c.op \in {"create", "save"} =>
                          c.stored \in Contents /\ c.stored \in ever[c.row]

(* A row that is not marked unsaved shows what the server has held, or is retired. *)
CleanIsHeld ==
    \A r \in RowIds \ dirty : \A tpl \in Copies(r) : tpl.active => tpl \in ever[r]

(* A row marked unsaved leaves the screen only by being deleted. *)
UnsavedStay == \A r \in dirty \ removed : OnScreen(r)

(* The types, what the server remembers, and what clean and unsaved rows show. *)
TablesInv ==
    /\ TablesTypeOK
    /\ ServerRemembers
    /\ CleanIsHeld
    /\ OperatorsRowsKept /\ UnsavedStay
-----------------------------------------------------------------------------
(* A row that is there is not an absent one. *)
LEMMA ContentsAreThere == Absent \notin Contents
<1>1. 0 \notin Texts
  BY TemplatesAssumption
<1> QED
  BY <1>1 DEF Absent, Contents

(* At first there is nothing on screen. *)
LEMMA TablesInitInv == TablesInit => TablesInv
<1> SUFFICES ASSUME TablesInit PROVE TablesInv
  OBVIOUS
<1>1. /\ [text |-> 1, active |-> TRUE] \in Contents /\ 0 \in 0..MaxClicks
      /\ NoRows \in Tables
  BY TemplatesAssumption DEF Contents, NoRows, Tables
<1>2. held \in Tables
  BY <1>1 DEF TablesInit, Tables
<1>3. ever \in [RowIds -> SUBSET Contents]
  BY <1>2 DEF TablesInit, Tables
<1>4. TablesTypeOK
  BY <1>1, <1>2, <1>3 DEF TablesInit, TablesTypeOK
<1>5. \A r \in RowIds : table[r] = Absent /\ twice[r] = Absent
  BY DEF TablesInit, NoRows
<1>6. \A r \in RowIds : held[r] # Absent => held[r] \in ever[r]
  BY DEF TablesInit
<1>7. ServerRemembers
  BY <1>6 DEF TablesInit, ServerRemembers
<1>8. CleanIsHeld
  BY <1>5 DEF CleanIsHeld, Copies
<1>9. OperatorsRowsKept /\ UnsavedStay
  BY <1>5 DEF TablesInit, OperatorsRowsKept, CreatedStay, DeletedStayAway, UnsavedIsAsTyped, UnsavedStay
<1> QED
  BY <1>4, <1>7, <1>8, <1>9 DEF TablesInv

(* The server holds a row anew: what it has ever held only grows. *)
LEMMA HoldGrows ==
  ASSUME TablesInv, NEW r \in RowIds, NEW c \in Contents \cup {Absent}, Hold(r, c)
  PROVE  /\ held' \in Tables /\ ever' \in [RowIds -> SUBSET Contents]
         /\ \A s \in RowIds : ever[s] \subseteq ever'[s] /\ (held'[s] # Absent => held'[s] \in ever'[s])
         /\ c # Absent => c \in ever'[r]
<1>1. /\ held' = [held EXCEPT ![r] = c]
      /\ ever' = [ever EXCEPT ![r] = @ \cup ({c} \ {Absent})]
  BY DEF Hold
<1>2. held \in [RowIds -> Contents \cup {Absent}] /\ ever \in [RowIds -> SUBSET Contents]
  BY DEF TablesInv, TablesTypeOK, Tables
<1>3. \A s \in RowIds : held[s] # Absent => held[s] \in ever[s]
  BY DEF TablesInv, ServerRemembers
<1> QED
  BY <1>1, <1>2, <1>3 DEF Tables

(* A step of the server leaves the screen alone. *)
LEMMA ServerMoves ==
  ASSUME TablesInv, TablesTypeOK', ServerRemembers',
         \A s \in RowIds : ever[s] \subseteq ever'[s],
         UNCHANGED <<table, twice, dirty, removed, made, editing>>
  PROVE  TablesInv'
<1>1. CleanIsHeld'
  BY DEF TablesInv, CleanIsHeld, Copies
<1>2. OperatorsRowsKept' /\ UnsavedStay'
  BY DEF TablesInv, OperatorsRowsKept, CreatedStay, DeletedStayAway, UnsavedIsAsTyped, UnsavedStay, OnScreen
<1> QED
  BY <1>1, <1>2 DEF TablesInv

(* Somebody else's writes. *)
LEMMA AnotherAdminInv ==
  ASSUME TablesInv, AnotherAdmin
  PROVE  TablesInv'
<1>1. PICK r \in RowIds, c \in Contents \cup {Absent} : Hold(r, c)
  <2>1. PICK r \in RowIds : /\ held[r] # Absent
                            /\ \/ Hold(r, [held[r] EXCEPT !.active = FALSE])
                               \/ Hold(r, Absent)
    BY DEF AnotherAdmin
  <2>2. held[r] \in Contents
    BY <2>1 DEF TablesInv, TablesTypeOK, Tables
  <2>3. [held[r] EXCEPT !.active = FALSE] \in Contents
    BY <2>2 DEF Contents
  <2> QED
    BY <2>1, <2>3
<1>2. /\ held' \in Tables /\ ever' \in [RowIds -> SUBSET Contents]
      /\ \A s \in RowIds : ever[s] \subseteq ever'[s] /\ (held'[s] # Absent => held'[s] \in ever'[s])
  BY <1>1, HoldGrows
<1>3. TablesTypeOK'
  BY <1>2 DEF AnotherAdmin, TablesInv, TablesTypeOK
<1>4. \A call \in calls : call.row \in RowIds
  BY DEF TablesInv, TablesTypeOK, TemplateCalls
<1>5. ServerRemembers'
  BY <1>2, <1>4 DEF AnotherAdmin, TablesInv, ServerRemembers
<1> QED
  BY <1>2, <1>3, <1>5, ServerMoves DEF AnotherAdmin

(* A call is sent: what an answer of its says is stored, was. *)
LEMMA SendsCallInv ==
  ASSUME TablesInv, NEW r \in RowIds, NEW op \in {"create", "save", "use", "delete"},
         NEW c \in Contents \cup {Absent}, op \in {"create", "save"} => c \in Contents,
         NEW key \in RowIds \cup {CreateKey}, SendsCall(r, op, c, key)
  PROVE  TablesInv'
<1>1. PICK done \in BOOLEAN, answer \in {Verdict(r, op), "refused", "lost"} :
         /\ done \in IF Verdict(r, op) = "ok" THEN Commits(answer) ELSE {FALSE}
         /\ IF done THEN Hold(r, Effect(r, op, c)) ELSE UNCHANGED <<held, ever>>
         /\ calls' = calls \cup {[row |-> r, op |-> op, form |-> c, answer |-> answer,
                                  stored |-> IF answer = "ok" THEN Effect(r, op, c) ELSE Absent]}
  BY DEF SendsCall
<1> DEFINE new == [row |-> r, op |-> op, form |-> c, answer |-> answer,
                   stored |-> IF answer = "ok" THEN Effect(r, op, c) ELSE Absent]
<1>2. held \in [RowIds -> Contents \cup {Absent}] /\ ever \in [RowIds -> SUBSET Contents]
  BY DEF TablesInv, TablesTypeOK, Tables
<1>3. Effect(r, op, c) \in Contents \cup {Absent}
      /\ (op \in {"create", "save"} => Effect(r, op, c) = c)
  BY <1>2 DEF Effect
<1>4. answer \in Answers \cup {"gone", "retired"}
  BY DEF Verdict, Answers
<1>5. /\ held' \in Tables /\ ever' \in [RowIds -> SUBSET Contents]
      /\ \A s \in RowIds : ever[s] \subseteq ever'[s] /\ (held'[s] # Absent => held'[s] \in ever'[s])
  <2>1. CASE done
    BY <1>1, <1>3, <2>1, HoldGrows
  <2>2. CASE ~done
    BY <1>1, <1>2, <2>2 DEF TablesInv, ServerRemembers, Tables
  <2> QED
    BY <2>1, <2>2
<1>6. ASSUME answer = "ok", op \in {"create", "save"} PROVE c \in Contents /\ c \in ever'[r]
  <2>1. Verdict(r, op) = "ok"
    BY <1>6, <1>1
  <2>2. done
    BY <1>1, <1>6, <2>1 DEF Commits
  <2>3. Hold(r, c)
    BY <1>1, <1>3, <1>6, <2>2
  <2> QED
    BY <1>6, <2>3, HoldGrows, ContentsAreThere
<1>7. new \in TemplateCalls
  BY <1>3, <1>4 DEF TemplateCalls
<1>8. new.row = r /\ new.op = op /\ new.answer = answer
      /\ (answer = "ok" /\ op \in {"create", "save"} => new.stored = c)
  BY <1>3
<1>9. calls' = calls \cup {new}
  BY <1>1
<1> HIDE DEF new
<1>10. clicks' \in 0..MaxClicks /\ working' \subseteq RowIds \cup {CreateKey}
  BY TemplatesAssumption DEF SendsCall, TablesInv, TablesTypeOK
<1>11. TablesTypeOK'
  BY <1>5, <1>7, <1>9, <1>10 DEF SendsCall, TablesInv, TablesTypeOK
<1>12. \A d \in calls : d.row \in RowIds
  BY DEF TablesInv, TablesTypeOK, TemplateCalls
<1>13. ServerRemembers'
  BY <1>5, <1>6, <1>8, <1>9, <1>12 DEF SendsCall, TablesInv, ServerRemembers
<1> QED
  BY <1>5, <1>11, <1>13, ServerMoves DEF SendsCall

(* The load is asked, served or failed: the rows on screen are as they were. *)
LEMMA LoadMovesInv ==
  ASSUME TablesInv, Serve \/ TemplatesLoadFails \/ RetryLoad
  PROVE  TablesInv'
<1>1. UNCHANGED <<held, ever, table, twice, dirty, removed, made, editing, working, calls>>
  BY DEF Serve, TemplatesLoadFails, RetryLoad
<1>2. held \in Tables /\ load \in [pc : {"none", "asked", "served"}, rows : Tables, failed : BOOLEAN]
      /\ NoRows \in Tables
  BY DEF TablesInv, TablesTypeOK, NoRows, Tables
<1>3. /\ load' \in [pc : {"none", "asked", "served"}, rows : Tables, failed : BOOLEAN]
      /\ load'.pc = "served" => load'.rows = held
  <2>1. CASE Serve
    <3>1. load' = [pc |-> "served", rows |-> held, failed |-> load.failed]
      BY <1>2, <2>1 DEF Serve
    <3> QED
      BY <1>2, <3>1
  <2>2. CASE TemplatesLoadFails
    BY <1>2, <2>2 DEF TemplatesLoadFails
  <2>3. CASE RetryLoad
    <3>1. load' = [pc |-> "asked", rows |-> load.rows, failed |-> load.failed]
      BY <1>2, <2>3 DEF RetryLoad, Asked
    <3> QED
      BY <1>2, <3>1
  <2> QED
    BY <2>1, <2>2, <2>3
<1>4. clicks' \in 0..MaxClicks
  BY TemplatesAssumption DEF Serve, TemplatesLoadFails, RetryLoad, TablesInv, TablesTypeOK
<1>5. TablesTypeOK'
  BY <1>1, <1>3, <1>4 DEF TablesInv, TablesTypeOK
<1>6. ServerRemembers'
  BY <1>1, <1>3 DEF TablesInv, ServerRemembers
<1> QED
  BY <1>1, <1>5, <1>6, ServerMoves

(* A load lands: unsaved rows, rows it did not serve and deleted ones are left alone. *)
LEMMA LoadLandsInv ==
  ASSUME TablesInv, LoadLands
  PROVE  TablesInv'
<1>1. /\ table' = [r \in RowIds |-> IF r \in Live /\ ~(r \in dirty /\ OnScreen(r))
                                    THEN load.rows[r] ELSE table[r]]
      /\ twice' = [r \in RowIds |-> IF r \in Live THEN Absent ELSE twice[r]]
      /\ load' = [pc |-> "none", rows |-> NoRows, failed |-> FALSE]
      /\ UNCHANGED <<held, ever, dirty, removed, made, editing, working, calls, clicks>>
  BY DEF LoadLands, Without
<1>2. /\ table \in [RowIds -> Contents \cup {Absent}] /\ twice \in [RowIds -> Contents \cup {Absent}]
      /\ load.rows \in [RowIds -> Contents \cup {Absent}] /\ NoRows \in Tables
  BY DEF TablesInv, TablesTypeOK, Tables, NoRows
<1>3. table' \in Tables /\ twice' \in Tables
  BY <1>1, <1>2 DEF Tables
<1>4. TablesTypeOK'
  BY <1>1, <1>2, <1>3 DEF TablesInv, TablesTypeOK
<1>5. ServerRemembers'
  BY <1>1 DEF TablesInv, ServerRemembers
<1>6. CleanIsHeld'
  <2>1. ASSUME NEW r \in RowIds \ dirty, NEW tpl \in Copies(r)', tpl.active
        PROVE  tpl \in ever[r]
    <3>1. CASE r \in Live
      <4>1. tpl = load.rows[r] /\ tpl # Absent
        BY <1>1, <2>1, <3>1 DEF Copies
      <4> QED
        BY <4>1 DEF LoadLands, TablesInv, ServerRemembers
    <3>2. CASE r \notin Live
      <4>1. tpl \in Copies(r)
        BY <1>1, <2>1, <3>2 DEF Copies
      <4> QED
        BY <2>1, <4>1 DEF TablesInv, CleanIsHeld
    <3> QED
      BY <3>1, <3>2
  <2> QED
    BY <1>1, <2>1 DEF CleanIsHeld
<1>7. \A r \in RowIds : OnScreen(r) => OnScreen(r)'
  BY <1>1 DEF OnScreen, Live
<1>8. \A r \in RowIds : (r \in removed \/ (r \in dirty /\ OnScreen(r))) => table'[r] = table[r]
  BY <1>1 DEF Live
<1>9. dirty \subseteq RowIds /\ removed \subseteq RowIds /\ made \subseteq RowIds
  BY DEF TablesInv, TablesTypeOK
<1>10. OperatorsRowsKept' /\ UnsavedStay'
  BY <1>1, <1>7, <1>8, <1>9
     DEF TablesInv, OperatorsRowsKept, CreatedStay, DeletedStayAway, UnsavedIsAsTyped, UnsavedStay, OnScreen
<1> QED
  BY <1>4, <1>5, <1>6, <1>10 DEF TablesInv

(* A patch changes the copies that are there, and brings none back. *)
LEMMA PatchedIs ==
  ASSUME NEW f \in Tables, NEW r \in RowIds, NEW c, f[r] # Absent => c \in Contents
  PROVE  /\ Patch(f, r, c) \in Tables
         /\ Patch(f, r, c)[r] = IF f[r] = Absent THEN Absent ELSE c
         /\ \A s \in RowIds \ {r} : Patch(f, r, c)[s] = f[s]
         /\ \A s \in RowIds : Patch(f, r, c)[s] # Absent <=> f[s] # Absent
<1>1. f \in [RowIds -> Contents \cup {Absent}]
  BY DEF Tables
<1>2. Patch(f, r, c) = [f EXCEPT ![r] = IF f[r] = Absent THEN f[r] ELSE c]
  BY <1>1 DEF Patch
<1> QED
  BY <1>1, <1>2, ContentsAreThere DEF Tables

(* The operator types in a row: it is marked unsaved. *)
LEMMA EditInv ==
  ASSUME TablesInv, NEW r \in RowIds, edit(r)
  PROVE  TablesInv'
<1>1. PICK first, second : /\ Edited(r, first, second)
                           /\ table[r] # Absent => first \in Contents
                           /\ twice[r] # Absent => second \in Contents
  <2>1. table[r] \in Contents \cup {Absent} /\ twice[r] \in Contents \cup {Absent}
    BY DEF TablesInv, TablesTypeOK, Tables
  <2>2. ASSUME NEW c \in Contents PROVE /\ \A text \in Texts : Retyped(c, text) \in Contents
                                        /\ \A tick \in BOOLEAN : Ticked(c, tick) \in Contents
    BY DEF Contents, Retyped, Ticked
  <2>3. CASE \E text \in Texts : Edited(r, Retyped(table[r], text), Retyped(twice[r], text))
    BY <2>1, <2>2, <2>3
  <2>4. CASE \E tick \in BOOLEAN : Edited(r, Ticked(table[r], tick), Ticked(twice[r], tick))
    BY <2>1, <2>2, <2>4
  <2> QED
    BY <2>3, <2>4 DEF edit
<1>2. /\ table[r] # Absent /\ first \in Contents
      /\ table' = Patch(table, r, first) /\ twice' = Patch(twice, r, second)
      /\ editing' = [editing EXCEPT ![r] = first]
      /\ dirty' = dirty \cup {r}
      /\ clicks < MaxClicks /\ clicks' = clicks + 1
      /\ UNCHANGED <<held, ever, removed, made, working, calls, load>>
  BY <1>1 DEF Edited, Usable, OnScreen
<1>3. table \in Tables /\ twice \in Tables /\ editing \in Tables
  BY DEF TablesInv, TablesTypeOK
<1>4. /\ table' \in Tables /\ twice' \in Tables
      /\ table'[r] = first /\ \A s \in RowIds \ {r} : table'[s] = table[s] /\ twice'[s] = twice[s]
      /\ \A s \in RowIds : table'[s] # Absent <=> table[s] # Absent
  BY <1>1, <1>2, <1>3, PatchedIs
<1>5. editing' \in Tables /\ editing'[r] = first /\ \A s \in RowIds \ {r} : editing'[s] = editing[s]
  BY <1>2, <1>3 DEF Tables
<1>6. clicks' \in 0..MaxClicks
  BY <1>2, TemplatesAssumption DEF TablesInv, TablesTypeOK
<1>7. TablesTypeOK'
  BY <1>2, <1>4, <1>5, <1>6 DEF TablesInv, TablesTypeOK
<1>8. ServerRemembers'
  BY <1>2 DEF TablesInv, ServerRemembers
<1>9. CleanIsHeld'
  BY <1>2, <1>4 DEF TablesInv, CleanIsHeld, Copies
<1>10. dirty \subseteq RowIds /\ removed \subseteq RowIds /\ made \subseteq RowIds
  BY DEF TablesInv, TablesTypeOK
<1>11. OperatorsRowsKept' /\ UnsavedStay'
  BY <1>2, <1>4, <1>5, <1>10
     DEF TablesInv, OperatorsRowsKept, CreatedStay, DeletedStayAway, UnsavedIsAsTyped, UnsavedStay, OnScreen
<1> QED
  BY <1>7, <1>8, <1>9, <1>11 DEF TablesInv

(* The operator's calls. *)
LEMMA CallsInv ==
  ASSUME TablesInv, NEW r \in RowIds,
         handleCreateTemplate(r) \/ handleSave(r) \/ handleUse(r) \/ handleDelete(r)
  PROVE  TablesInv'
<1>1. table[r] \in Contents \cup {Absent} /\ Copies(r) \subseteq Contents
  BY DEF TablesInv, TablesTypeOK, Tables, Copies
<1>2. CASE handleCreateTemplate(r)
  <2>1. \A text \in Texts : [text |-> text, active |-> TRUE] \in Contents
    BY DEF Contents
  <2> QED
    BY <1>2, <2>1, SendsCallInv DEF handleCreateTemplate
<1>3. CASE handleSave(r) \/ handleUse(r) \/ handleDelete(r)
  BY <1>1, <1>3, SendsCallInv DEF handleSave, handleUse, handleDelete
<1> QED
  BY <1>2, <1>3

(* A call is over, and of the server nothing has changed. *)
LEMMA CallOverInv ==
  ASSUME TablesInv, NEW c \in calls, CallOver(c), UNCHANGED <<held, ever, clicks, load>>,
         {table', twice', editing'} \subseteq Tables,
         {dirty', removed', made'} \subseteq SUBSET RowIds,
         CleanIsHeld', OperatorsRowsKept', UnsavedStay'
  PROVE  TablesInv'
<1>1. TablesTypeOK'
  BY DEF TablesInv, TablesTypeOK, CallOver
<1>2. ServerRemembers'
  BY DEF TablesInv, ServerRemembers, CallOver
<1> QED
  BY <1>1, <1>2 DEF TablesInv

(* The row is dropped. *)
LEMMA DropInv ==
  ASSUME TablesInv, NEW c \in calls, CallOver(c), UNCHANGED <<held, ever, clicks, load>>,
         Drop(c.row)
  PROVE  TablesInv'
<1> DEFINE r == c.row
<1>1. r \in RowIds
  BY DEF TablesInv, TablesTypeOK, TemplateCalls
<1> HIDE DEF r
<1>2. /\ removed' = removed \cup {r} /\ table' = [table EXCEPT ![r] = Absent]
      /\ made' = made \ {r} /\ twice' = [s \in RowIds |-> IF s \in {r} THEN Absent ELSE twice[s]]
      /\ editing' = [editing EXCEPT ![r] = Absent] /\ dirty' = dirty
  BY DEF Drop, Without, r
<1>3. /\ table \in [RowIds -> Contents \cup {Absent}] /\ twice \in [RowIds -> Contents \cup {Absent}]
      /\ editing \in [RowIds -> Contents \cup {Absent}]
      /\ dirty \subseteq RowIds /\ removed \subseteq RowIds /\ made \subseteq RowIds
  BY DEF TablesInv, TablesTypeOK, Tables
<1>4. {table', twice', editing'} \subseteq Tables
  BY <1>1, <1>2, <1>3 DEF Tables
<1>5. CleanIsHeld'
  <2>1. \A s \in RowIds : Copies(s)' \subseteq Copies(s)
    BY <1>1, <1>2, <1>3 DEF Copies
  <2> QED
    BY <1>2, <2>1 DEF TablesInv, CleanIsHeld
<1>6. OperatorsRowsKept' /\ UnsavedStay'
  BY <1>1, <1>2, <1>3
     DEF TablesInv, OperatorsRowsKept, CreatedStay, DeletedStayAway, UnsavedIsAsTyped, UnsavedStay, OnScreen
<1> QED
  BY <1>1, <1>2, <1>3, <1>4, <1>5, <1>6, CallOverInv

(* What the server said of a row is applied to it, if it is there. *)
LEMMA SettleInv ==
  ASSUME TablesInv, NEW c \in calls, CallOver(c), UNCHANGED <<held, ever, clicks, load>>,
         NEW first, NEW second, Settle(c.row, first, second),
         table[c.row] # Absent => first \in Contents /\ (first.active => first \in ever[c.row]),
         twice[c.row] # Absent => second \in Contents /\ (second.active => second \in ever[c.row])
  PROVE  TablesInv'
<1> DEFINE r == c.row
<1>1. r \in RowIds
  BY DEF TablesInv, TablesTypeOK, TemplateCalls
<1>2. /\ table' = Patch(table, r, first) /\ twice' = Patch(twice, r, second)
      /\ dirty' = dirty \ {r} /\ editing' = [editing EXCEPT ![r] = Absent]
      /\ UNCHANGED <<removed, made>>
  BY DEF Settle
<1>3. /\ table[r] # Absent => first \in Contents /\ (first.active => first \in ever[r])
      /\ twice[r] # Absent => second \in Contents /\ (second.active => second \in ever[r])
  OBVIOUS
<1> HIDE DEF r
<1>4. /\ table \in Tables /\ twice \in Tables /\ editing \in [RowIds -> Contents \cup {Absent}]
      /\ dirty \subseteq RowIds /\ removed \subseteq RowIds /\ made \subseteq RowIds
  BY DEF TablesInv, TablesTypeOK, Tables
<1>5. /\ table' \in Tables /\ twice' \in Tables
      /\ table'[r] = (IF table[r] = Absent THEN Absent ELSE first)
      /\ twice'[r] = (IF twice[r] = Absent THEN Absent ELSE second)
      /\ \A s \in RowIds \ {r} : table'[s] = table[s] /\ twice'[s] = twice[s]
      /\ \A s \in RowIds : table'[s] # Absent <=> table[s] # Absent
  BY <1>1, <1>2, <1>3, <1>4, PatchedIs
<1>6. editing' \in Tables /\ \A s \in RowIds \ {r} : editing'[s] = editing[s]
  BY <1>1, <1>2, <1>4 DEF Tables
<1>7. CleanIsHeld'
  <2>1. ASSUME NEW s \in RowIds \ dirty', NEW tpl \in Copies(s)', tpl.active
        PROVE  tpl \in ever[s]
    <3>1. CASE s = r
      BY <1>3, <1>5, <2>1, <3>1 DEF Copies
    <3>2. CASE s # r
      BY <1>2, <1>5, <2>1, <3>2 DEF Copies, TablesInv, CleanIsHeld
    <3> QED
      BY <3>1, <3>2
  <2> QED
    BY <2>1 DEF CleanIsHeld
<1>8. OperatorsRowsKept' /\ UnsavedStay'
  BY <1>1, <1>2, <1>4, <1>5, <1>6
     DEF TablesInv, OperatorsRowsKept, CreatedStay, DeletedStayAway, UnsavedIsAsTyped, UnsavedStay, OnScreen
<1> QED
  BY <1>2, <1>4, <1>5, <1>6, <1>7, <1>8, CallOverInv

(* The row that was created is appended. *)
LEMMA CreatedInv ==
  ASSUME TablesInv, NEW c \in calls, CallOver(c), UNCHANGED <<held, ever, clicks, load>>,
         c.answer = "ok", c.op = "create", Created(c)
  PROVE  TablesInv'
<1> DEFINE r == c.row
<1>1. r \in RowIds /\ c.stored \in Contents /\ c.stored \in ever[r]
  BY DEF TablesInv, TablesTypeOK, TemplateCalls, ServerRemembers
<1>2. /\ IF OnScreen(r) THEN twice' = [twice EXCEPT ![r] = c.stored] /\ UNCHANGED table
                        ELSE table' = [table EXCEPT ![r] = c.stored] /\ UNCHANGED twice
      /\ made' = made \cup {r} /\ UNCHANGED <<dirty, removed, editing>>
  BY DEF Created
<1> HIDE DEF r
<1>3. /\ table \in [RowIds -> Contents \cup {Absent}] /\ twice \in [RowIds -> Contents \cup {Absent}]
      /\ editing \in Tables
      /\ dirty \subseteq RowIds /\ removed \subseteq RowIds /\ made \subseteq RowIds
  BY DEF TablesInv, TablesTypeOK, Tables
<1>4. {table', twice', editing'} \subseteq Tables
  BY <1>1, <1>2, <1>3 DEF Tables
<1>5. CleanIsHeld'
  <2>1. \A s \in RowIds : Copies(s)' \subseteq Copies(s) \cup (IF s = r THEN {c.stored} ELSE {})
    BY <1>1, <1>2, <1>3 DEF Copies
  <2> QED
    BY <1>1, <1>2, <2>1 DEF TablesInv, CleanIsHeld
<1>6. \A s \in RowIds : /\ OnScreen(s)' <=> OnScreen(s) \/ s = r
                        /\ OnScreen(s) => table'[s] = table[s]
  BY <1>1, <1>2, <1>3, ContentsAreThere DEF OnScreen
<1>7. OperatorsRowsKept' /\ UnsavedStay'
  BY <1>1, <1>2, <1>3, <1>6
     DEF TablesInv, OperatorsRowsKept, CreatedStay, DeletedStayAway, UnsavedIsAsTyped, UnsavedStay
<1> QED
  BY <1>1, <1>2, <1>3, <1>4, <1>5, <1>7, CallOverInv

(* The answer to a call. *)
LEMMA AnsweredInv ==
  ASSUME TablesInv, NEW c \in calls, Answered(c)
  PROVE  TablesInv'
<1>1. CallOver(c) /\ UNCHANGED <<held, ever, clicks, load>>
  BY DEF Answered
<1>2. /\ c.row \in RowIds /\ table[c.row] \in Contents \cup {Absent}
      /\ twice[c.row] \in Contents \cup {Absent}
  BY DEF TablesInv, TablesTypeOK, TemplateCalls, Tables
<1>3. CASE c.answer = "ok" /\ c.op = "create"
  BY <1>1, <1>3, CreatedInv DEF Answered
<1>4. CASE c.answer = "ok" /\ c.op = "save"
  <2>1. c.stored \in Contents /\ c.stored \in ever[c.row]
    BY <1>4 DEF TablesInv, ServerRemembers
  <2>2. Settle(c.row, c.stored, c.stored)
    BY <1>4 DEF Answered, Saved
  <2> QED
    BY <1>1, <2>1, <2>2, SettleInv
<1>5. CASE (c.answer = "ok" /\ c.op = "delete") \/ c.answer = "gone"
  BY <1>1, <1>5, DropInv DEF Answered
<1>6. CASE c.answer = "retired"
  <2>1. Settle(c.row, Ticked(table[c.row], FALSE), Ticked(twice[c.row], FALSE))
    BY <1>6 DEF Answered, Retired
  <2>2. \A t \in Contents : Ticked(t, FALSE) \in Contents /\ ~Ticked(t, FALSE).active
    BY DEF Contents, Ticked
  <2> QED
    BY <1>1, <1>2, <2>1, <2>2, SettleInv
<1>7. CASE UNCHANGED <<table, twice, dirty, removed, made, editing>>
  <2>1. CleanIsHeld'
    BY <1>1, <1>7 DEF TablesInv, CleanIsHeld, Copies
  <2>2. OperatorsRowsKept' /\ UnsavedStay'
    BY <1>7 DEF TablesInv, OperatorsRowsKept, CreatedStay, DeletedStayAway, UnsavedIsAsTyped,
                UnsavedStay, OnScreen
  <2> QED
    BY <1>1, <1>7, <2>1, <2>2, CallOverInv DEF TablesInv, TablesTypeOK
<1> QED
  BY <1>3, <1>4, <1>5, <1>6, <1>7 DEF Answered, Nothing

(* The inductive invariant of the templates screen. *)
THEOREM TablesInvariance == TablesSpec => []TablesInv
<1>1. TablesInv /\ [TablesNext /\ UNCHANGED route]_<<route, tableVars>> => TablesInv'
  <2>1. ASSUME TablesInv, UNCHANGED tableVars PROVE TablesInv'
    BY <2>1 DEF tableVars, TablesInv, TablesTypeOK, ServerRemembers, CleanIsHeld, Copies,
                OperatorsRowsKept, CreatedStay, DeletedStayAway, UnsavedIsAsTyped, UnsavedStay, OnScreen
  <2> QED
    BY <2>1, AnotherAdminInv, LoadMovesInv, LoadLandsInv, EditInv, CallsInv, AnsweredInv DEF TablesNext
<1> QED
  BY <1>1, TablesInitInv, PTL DEF TablesSpec

(* The Use button is offered only on a row whose inputs the server has held. *)
THEOREM UseActsOnWhatIsHeld == TablesSpec => []UseIsOfHeld
<1>1. TablesInv => UseIsOfHeld
  BY DEF TablesInv, CleanIsHeld, UseIsOfHeld, UseOffered
<1> QED
  BY <1>1, TablesInvariance, PTL

(* Loads and answers about other rows leave the rows the operator made, deleted or edits alone. *)
THEOREM OperatorsRowsStay == TablesSpec => []OperatorsRowsKept
<1>1. TablesInv => OperatorsRowsKept
  BY DEF TablesInv
<1> QED
  BY <1>1, TablesInvariance, PTL
-----------------------------------------------------------------------------
(* A form screen is mounted. *)
IsScreen == route \in DOMAIN Screens

(* What the proofs need of a screen: a form whose answer becomes the screen stands on a screen of one
   flag, and one flag hides every form. *)
ScreenOK(page) ==
    LET forms == DOMAIN page.after IN
    /\ Nobody \notin forms
    /\ \A f \in forms : page.after[f] \in {"read", "own", "answer"}
    /\ page.rereads \in BOOLEAN /\ page.filters \in BOOLEAN
    /\ (\E f \in forms : page.after[f] = "answer") =>
         ~page.rereads /\ ~page.filters /\ \A f \in forms : page.guard[f] = "all"
    /\ (~page.rereads /\ ~page.filters /\ \A f \in forms : page.guard[f] = "all") => forms \subseteq page.hidden

(* A screen whose one flag hides all its forms. *)
LEMMA GatedIsOK ==
  ASSUME NEW forms, Nobody \notin forms
  PROVE  ScreenOK(Gated(forms))
<1>1. /\ Gated(forms).after = [f \in forms |-> "read"]
      /\ Gated(forms).hidden = forms
      /\ Gated(forms).rereads = FALSE /\ Gated(forms).filters = FALSE
  BY DEF Gated, Plain
<1>2. DOMAIN Gated(forms).after = forms /\ \A f \in forms : Gated(forms).after[f] = "read"
  BY <1>1
<1> QED
  BY <1>1, <1>2 DEF ScreenOK

(* A screen of settings: its one form answers with what is stored. *)
LEMMA SettingsIsOK ==
  ASSUME NEW form, form # Nobody
  PROVE  ScreenOK(Settings(form))
<1>1. /\ Settings(form).after = [f \in {form} |-> "answer"]
      /\ Settings(form).guard = [f \in {form} |-> "all"]
      /\ Settings(form).hidden = {form}
      /\ Settings(form).rereads = FALSE /\ Settings(form).filters = FALSE
  BY DEF Settings, Plain
<1>2. /\ DOMAIN Settings(form).after = {form}
      /\ Settings(form).after[form] = "answer" /\ Settings(form).guard[form] = "all"
  BY <1>1
<1> QED
  BY <1>1, <1>2 DEF ScreenOK

(* All nineteen screens. *)
LEMMA ScreensOK == \A s \in DOMAIN Screens : ScreenOK(Screens[s])
<1>1. ScreenOK(contacts) /\ ScreenOK(products) /\ ScreenOK(billing) /\ ScreenOK(developer)
  BY DEF ScreenOK, contacts, products, billing, developer, Plain, Nobody
<1>2. ScreenOK(inventory)
  BY DEF ScreenOK, inventory, Plain, Nobody
<1>3. ScreenOK(store_apps) /\ ScreenOK(installed_apps)
  BY DEF ScreenOK, store_apps, installed_apps, Toggles, Plain, Nobody
<1>4. ScreenOK(ai)
  BY DEF ScreenOK, ai, Plain, Nobody
<1>5. ScreenOK(integrations)
  BY DEF ScreenOK, integrations, Plain, Nobody
<1>6. ScreenOK(email_verification)
  BY DEF ScreenOK, email_verification, Plain, Nobody
<1>7. ScreenOK(workflow) /\ ScreenOK(appointments) /\ ScreenOK(sla)
  BY GatedIsOK DEF workflow, appointments, sla, Nobody
<1>8. ScreenOK(catalog)
  <2>1. /\ catalog.after = [f \in {"create", "configure"} |-> "read"]
        /\ catalog.guard = [[f \in {"create", "configure"} |-> "all"] EXCEPT !.configure = "raises"]
        /\ catalog.rereads = FALSE /\ catalog.filters = FALSE
    BY DEF catalog, Gated, Plain
  <2> QED
    BY <2>1 DEF ScreenOK, Nobody
<1>9. ScreenOK(policies) /\ ScreenOK(placement) /\ ScreenOK(hsm)
  BY SettingsIsOK DEF policies, placement, hsm, Nobody
<1>10. ScreenOK(logs)
  <2>1. logs.after = [f \in {} |-> "read"] /\ logs.rereads = FALSE /\ logs.filters = TRUE
    BY DEF logs, Gated, Plain
  <2> QED
    BY <2>1 DEF ScreenOK, Nobody
<1>11. ScreenOK(esign)
  <2>1. /\ esign.after = [upload |-> "read", sign |-> "read", archive |-> "read"]
        /\ esign.rereads = TRUE /\ esign.filters = FALSE
    BY DEF esign, Gated, Plain
  <2>2. /\ DOMAIN esign.after = {"upload", "sign", "archive"}
        /\ \A f \in {"upload", "sign", "archive"} : esign.after[f] = "read"
    BY <2>1
  <2> QED
    BY <2>1, <2>2 DEF ScreenOK, Nobody
<1> QED
  BY <1>1, <1>2, <1>3, <1>4, <1>5, <1>6, <1>7, <1>8, <1>9, <1>10, <1>11 DEF Screens
-----------------------------------------------------------------------------
(* A write in flight. *)
WriteRecords == [n : Nat, form : Forms, ends : Answers \cup {"sent"}, got : SUBSET Nat, read : Nat]

(* Reads are told apart by their numbers, and a read for a write is that of one in flight. *)
InFlight ==
    /\ begun \in Nat /\ sent \in Nat
    /\ \A r \in reading : r.n \in 1..begun /\ r.why \in Reasons
    /\ \A r, q \in reading : r.n = q.n => r = q
    /\ writing \subseteq WriteRecords
    /\ \A r \in reading : r.why = "write" => \E w \in writing : w.read = r.n

(* What the operator was told of is kept, and an answer that is put on screen holds it. *)
KeptWhatIsTold ==
    /\ toldOf \subseteq kept
    /\ kept \subseteq Nat
    /\ \A w \in writing : w.ends = "ok" =>
         /\ w.n \in kept
         /\ Page.after[w.form] = "answer" => toldOf \cup {w.n} \subseteq w.got

(* Where one flag disables every form, one write is in flight at most, and nobody reads by button. *)
OneFlag ==
    OneAtATime =>
        /\ writing # {} => off # Nobody
        /\ \A w, v \in writing : w = v
        /\ \A r \in reading : r.why # "button"

(* and only the language can make two reads overlap. *)
RacedByLanguage == OneAtATime /\ "language" \notin raced => raced = {}

(* While nothing overlapped, the read in flight carries every write that was told, with no write under
   way but such as a read follows, and a screen at rest shows every write that was told. *)
AloneIsFresh ==
    raced = {} =>
        /\ \A r, q \in reading : r = q
        /\ \A r \in reading :
             /\ r.why = "mount" => spins /\ (OneAtATime => writing = {})
             /\ toldOf \subseteq r.rows /\ r.of = question
             /\ Unfollowed = {}
        /\ reading = {} /\ ~readFailed =>
             /\ toldOf \subseteq shownNow.rows /\ shownNow.of = question
             /\ \A w \in writing : Page.after[w.form] = "own" => w.n \in shownNow.rows

(* The inductive invariant of the form screens. *)
FormsInv ==
    /\ IsScreen
    /\ InFlight
    /\ KeptWhatIsTold
    /\ OneFlag
    /\ RacedByLanguage
    /\ AloneIsFresh
-----------------------------------------------------------------------------
(* What the mounted screen is, by ScreensOK. *)
LEMMA PageIs ==
  ASSUME IsScreen
  PROVE  /\ Nobody \notin Forms
         /\ \A f \in Forms : Page.after[f] \in {"read", "own", "answer"}
         /\ \A f \in Forms : Page.after[f] = "answer" => OneAtATime
         /\ OneAtATime => \A f \in Forms : f \in Page.hidden /\ Page.guard[f] = "all"
         /\ OneAtATime => ~Page.rereads /\ ~Page.filters
<1>1. ScreenOK(Page)
  BY ScreensOK DEF IsScreen, Page
<1> QED
  BY <1>1 DEF ScreenOK, Forms, OneAtATime

(* At first the mount's read is alone, and there is nothing to show. *)
LEMMA FormsInitInv == IsScreen /\ FormsInit => FormsInv
<1> SUFFICES ASSUME IsScreen, FormsInit PROVE FormsInv
  OBVIOUS
<1>1. InFlight
  BY DEF FormsInit, InFlight, Reasons
<1> QED
  BY <1>1 DEF FormsInit, FormsInv, KeptWhatIsTold, OneFlag, RacedByLanguage, AloneIsFresh, Unfollowed

(* A race of which no switch of the language was part is impossible where one flag disables every
   form. *)
LEMMA RacesNeedLanguage ==
  ASSUME FormsInv, OneAtATime, "language" \notin raced, NEW r \in reading, r.why # "language"
  PROVE  /\ \A f \in Forms : ~FormOffers(f)
         /\ \A w \in writing : ~Unread(w)
<1>1. raced = {}
  BY DEF FormsInv, RacedByLanguage
<1>2. CASE r.why = "mount"
  BY <1>1, <1>2, PageIs DEF FormsInv, AloneIsFresh, FormOffers
<1>3. CASE r.why = "write"
  <2>1. PICK w \in writing : w.read = r.n
    BY <1>3 DEF FormsInv, InFlight
  <2>2. \A v \in writing : v.read # 0
    BY <2>1 DEF FormsInv, InFlight, OneFlag
  <2>3. off # Nobody
    BY <2>1 DEF FormsInv, OneFlag
  <2> QED
    BY <2>2, <2>3, PageIs DEF FormsInv, FormOffers, Unread
<1> QED
  BY <1>2, <1>3 DEF FormsInv, InFlight, OneFlag, Reasons

(* Reads overlap for a cause. *)
LEMMA CauseIs ==
  /\ \A whys : Cause(whys) # {}
  /\ \A whys : "language" \in whys => "language" \in Cause(whys)
  BY DEF Cause

(* A read begins. *)
LEMMA BeginReadInv ==
  ASSUME FormsInv, UNCHANGED <<route, kept, off, shownNow, loaded, readFailed, sent>>,
         NEW why \in Reasons \ {"mount"}, NEW of, BeginRead(why, of, question'),
         OneAtATime => why # "button" /\ question' = question,
         reading # {} \/ question' = question \/ of = question',
         \/ why # "write" /\ UNCHANGED <<writing, toldOf>>
         \/ /\ why = "write"
            /\ \E w \in writing :
                 /\ Unread(w) /\ w.ends = "ok" /\ Page.after[w.form] = "read"
                 /\ toldOf' = toldOf \cup {w.n}
                 /\ writing' = (writing \ {w}) \cup {[w EXCEPT !.read = begun + 1]}
  PROVE  FormsInv'
<1> DEFINE new == [n |-> begun + 1, rows |-> kept, of |-> of, why |-> why]
<1>1. /\ new.n = begun + 1 /\ new.rows = kept /\ new.of = of /\ new.why = why
      /\ begun' = begun + 1 /\ reading' = reading \cup {new}
      /\ spins' = (spins \/ Page.each \/ (why = "language" /\ Page.spinner # "first"))
      /\ raced' = (IF reading = {} THEN {} ELSE raced \cup Cause({why} \cup {r.why : r \in reading}))
                  \cup (IF of = question' THEN {} ELSE {"language"})
                  \cup (IF Unfollowed = {} THEN {} ELSE Cause({why}))
  BY DEF BeginRead
<1> HIDE DEF new
<1>2. Page' = Page /\ Forms' = Forms /\ (OneAtATime' <=> OneAtATime) /\ IsScreen'
  BY DEF Page, Forms, OneAtATime, FormsInv, IsScreen
<1>3. /\ begun \in Nat /\ \A r \in reading : r.n \in 1..begun
      /\ writing \subseteq WriteRecords
  BY DEF FormsInv, InFlight
<1>4. /\ writing' \subseteq WriteRecords
      /\ toldOf' \subseteq kept
      /\ \A w \in writing' : \E v \in writing :
           /\ w.form = v.form /\ w.n = v.n /\ w.ends = v.ends /\ w.got = v.got
           /\ w.read = v.read \/ (w.read = begun + 1 /\ Page.after[v.form] = "read")
      /\ \A v \in writing : v.read # 0 => v \in writing'
      /\ why = "write" => \E w \in writing' : w.read = begun + 1
      /\ writing = {} => writing' = {}
      /\ OneAtATime => \A w, v \in writing' : w = v
      /\ why = "write" => \E v \in writing : Unread(v)
      /\ ~OneAtATime => \A v \in writing : Page.after[v.form] # "answer"
      /\ (\E v \in writing : Page.after[v.form] = "answer") => toldOf' = toldOf
  <2>1. CASE why # "write" /\ UNCHANGED <<writing, toldOf>>
    BY <1>3, <2>1, PageIs DEF FormsInv, KeptWhatIsTold, OneFlag, WriteRecords
  <2>2. CASE why = "write"
    <3>1. PICK w \in writing :
                 /\ Unread(w) /\ w.ends = "ok" /\ Page.after[w.form] = "read"
                 /\ toldOf' = toldOf \cup {w.n}
                 /\ writing' = (writing \ {w}) \cup {[w EXCEPT !.read = begun + 1]}
      BY <2>2
    <3> DEFINE next == [w EXCEPT !.read = begun + 1]
    <3>2. /\ next \in WriteRecords /\ next.form = w.form /\ next.n = w.n /\ next.ends = w.ends
          /\ next.got = w.got /\ next.read = begun + 1
      BY <1>3 DEF WriteRecords
    <3>3. writing' = (writing \ {w}) \cup {next}
      BY <3>1
    <3> HIDE DEF next
    <3>4. w.n \in kept
      BY <3>1 DEF FormsInv, KeptWhatIsTold
    <3>5. OneAtATime => writing = {w}
      BY DEF FormsInv, OneFlag
    <3>6. \A v \in writing : Page.after[v.form] = "answer" => OneAtATime
      BY <1>3, PageIs DEF FormsInv, WriteRecords
    <3> QED
      BY <1>3, <2>2, <3>1, <3>2, <3>3, <3>4, <3>5, <3>6 DEF FormsInv, KeptWhatIsTold, Unread
  <2> QED
    BY <2>1, <2>2
<1>5. InFlight'
  <2>1. \A r \in reading' : r.n \in 1..begun' /\ r.why \in Reasons
    BY <1>1, <1>3 DEF FormsInv, InFlight
  <2>2. \A r, q \in reading' : r.n = q.n => r = q
    BY <1>1, <1>3 DEF FormsInv, InFlight
  <2>3. \A r \in reading' : r.why = "write" => \E w \in writing' : w.read = r.n
    BY <1>1, <1>3, <1>4 DEF FormsInv, InFlight
  <2> QED
    BY <1>1, <1>2, <1>3, <1>4, <2>1, <2>2, <2>3 DEF FormsInv, InFlight, WriteRecords
<1>6. KeptWhatIsTold'
  BY <1>2, <1>4 DEF FormsInv, KeptWhatIsTold
<1>7. OneFlag'
  BY <1>1, <1>2, <1>4 DEF FormsInv, OneFlag
<1>8. RacedByLanguage'
  <2>1. SUFFICES ASSUME OneAtATime, "language" \notin raced' PROVE raced' = {}
    BY <1>2 DEF RacedByLanguage
  <2>2. CASE reading = {}
    <3>1. CASE why = "language"
      <4>1. Unfollowed = {}
        BY <1>1, <2>1, <3>1, CauseIs
      <4> QED
        BY <1>1, <2>1, <2>2, <4>1
    <3>2. CASE why = "write"
      <4>1. Unfollowed = {}
        BY <2>1, <3>2 DEF Unfollowed, FormsInv, OneFlag
      <4> QED
        BY <1>1, <2>1, <2>2, <4>1
    <3> QED
      BY <2>1, <3>1, <3>2 DEF Reasons
  <2>3. CASE reading # {}
    <3>1. /\ "language" \notin raced /\ why # "language"
          /\ \A r \in reading : r.why # "language"
      BY <1>1, <2>1, <2>3, CauseIs
    <3>2. why = "write"
      BY <2>1, <3>1 DEF Reasons
    <3> QED
      BY <1>4, <2>1, <2>3, <3>1, <3>2, RacesNeedLanguage
  <2> QED
    BY <2>2, <2>3
<1>9. AloneIsFresh'
  <2>1. SUFFICES ASSUME raced' = {}
        PROVE  /\ \A r, q \in reading' : r = q
               /\ \A r \in reading' :
                    /\ r.why # "mount"
                    /\ toldOf' \subseteq r.rows /\ r.of = question'
                    /\ \A w \in writing' : Page.after[w.form] = "read"
               /\ reading' # {}
    BY <1>2 DEF AloneIsFresh, Unfollowed
  <2>2. reading = {} /\ of = question' /\ Unfollowed = {}
    BY <1>1, <2>1, CauseIs
  <2>3. reading' = {new}
    BY <1>1, <2>2
  <2>4. \A w \in writing' : Page.after[w.form] = "read"
    BY <1>4, <2>2 DEF Unfollowed
  <2> QED
    BY <1>1, <1>4, <2>2, <2>3, <2>4
<1> QED
  BY <1>2, <1>5, <1>6, <1>7, <1>8, <1>9 DEF FormsInv

(* A read is over: it lands or fails. *)
LEMMA ReadOverInv ==
  ASSUME FormsInv, route' = route, NEW r \in reading, ReadLands(r) \/ ReadFails(r)
  PROVE  FormsInv'
<1> DEFINE over == {w \in writing : w.read = r.n}
<1>1. /\ reading' = reading \ {r} /\ writing' = writing \ over
      /\ off' = IF \E w \in over : Page.guard[w.form] # "none" THEN Nobody ELSE off
      /\ UNCHANGED <<kept, question, toldOf, begun, sent, raced>>
  BY DEF ReadLands, ReadFails, ReadOver
<1>2. Page' = Page /\ Forms' = Forms /\ (OneAtATime' <=> OneAtATime) /\ IsScreen'
  BY DEF Page, Forms, OneAtATime, FormsInv, IsScreen
<1>3. \/ shownNow' = [rows |-> r.rows, of |-> r.of]
      \/ readFailed' = TRUE
  BY DEF ReadLands, ReadFails
<1>4. InFlight'
  BY <1>1, <1>2 DEF FormsInv, InFlight, WriteRecords
<1>5. KeptWhatIsTold'
  BY <1>1, <1>2 DEF FormsInv, KeptWhatIsTold
<1>6. OneFlag'
  BY <1>1, <1>2 DEF FormsInv, OneFlag
<1>7. RacedByLanguage'
  BY <1>1, <1>2 DEF FormsInv, RacedByLanguage
<1>8. AloneIsFresh'
  <2>1. CASE raced = {}
    <3>1. reading' = {} /\ \A w \in writing' : Page.after[w.form] = "read"
      BY <1>1, <2>1 DEF FormsInv, AloneIsFresh, Unfollowed
    <3>2. CASE readFailed' = TRUE
      BY <3>1, <3>2 DEF AloneIsFresh
    <3>3. CASE shownNow' = [rows |-> r.rows, of |-> r.of]
      <4>1. shownNow'.rows = r.rows /\ shownNow'.of = r.of
        BY <3>3
      <4> QED
        BY <1>1, <1>2, <2>1, <3>1, <4>1 DEF FormsInv, AloneIsFresh
    <3> QED
      BY <1>3, <3>2, <3>3
  <2>2. CASE raced # {}
    BY <1>1, <2>2 DEF AloneIsFresh
  <2> QED
    BY <2>1, <2>2
<1> QED
  BY <1>2, <1>4, <1>5, <1>6, <1>7, <1>8 DEF FormsInv

(* A form is submitted. *)
LEMMA SubmitInv ==
  ASSUME FormsInv, route' = route, NEW f \in Forms, Submit(f)
  PROVE  FormsInv'
<1> DEFINE new == [n |-> sent + 1, form |-> f, ends |-> "sent", got |-> {}, read |-> 0]
<1>1. writing' = writing \cup {new}
  BY DEF Submit
<1>2. Page' = Page /\ Forms' = Forms /\ (OneAtATime' <=> OneAtATime) /\ IsScreen'
  BY DEF Page, Forms, OneAtATime, FormsInv, IsScreen
<1>3. /\ FormOffers(f) /\ sent' = sent + 1
      /\ off' = IF Page.guard[f] = "none" THEN off ELSE f
      /\ shownNow' = IF Page.after[f] = "own" THEN [shownNow EXCEPT !.rows = @ \cup {sent + 1}] ELSE shownNow
      /\ raced' = IF Page.after[f] = "read" \/ reading = {} THEN raced
                  ELSE raced \cup Cause({r.why : r \in reading})
      /\ UNCHANGED <<kept, question, reading, spins, loaded, readFailed, toldOf, begun>>
  BY DEF Submit
<1>4. sent + 1 \in Nat
  BY DEF FormsInv, InFlight
<1>5. new \in WriteRecords /\ new.n = sent + 1 /\ new.form = f /\ new.ends = "sent" /\ new.read = 0
  BY <1>4 DEF WriteRecords
<1>6. writing' = writing \cup {new}
  BY <1>1
<1> HIDE DEF new
<1>7. InFlight'
  BY <1>2, <1>3, <1>5, <1>6 DEF FormsInv, InFlight, WriteRecords
<1>8. KeptWhatIsTold'
  BY <1>2, <1>3, <1>4, <1>5, <1>6 DEF FormsInv, KeptWhatIsTold
<1>9. OneFlag'
  <2>1. SUFFICES ASSUME OneAtATime
        PROVE  off' # Nobody /\ writing = {} /\ \A r \in reading : r.why # "button"
    BY <1>2, <1>3, <1>6 DEF OneFlag
  <2>2. off = Nobody /\ off' = f /\ f # Nobody
    BY <1>3, <2>1, PageIs DEF FormsInv, FormOffers
  <2> QED
    BY <2>1, <2>2 DEF FormsInv, OneFlag
<1>10. RacedByLanguage'
  <2>1. SUFFICES ASSUME OneAtATime, "language" \notin raced' PROVE raced' = {}
    BY <1>2 DEF RacedByLanguage
  <2>2. CASE raced' = raced
    BY <2>1, <2>2 DEF FormsInv, RacedByLanguage
  <2>3. CASE reading # {} /\ raced' = raced \cup Cause({r.why : r \in reading})
    <3>1. "language" \notin raced /\ \A r \in reading : r.why # "language"
      BY <2>1, <2>3, CauseIs
    <3> QED
      BY <1>3, <2>1, <2>3, <3>1, RacesNeedLanguage
  <2> QED
    BY <1>3, <2>2, <2>3
<1>11. AloneIsFresh'
  <2>1. SUFFICES ASSUME raced' = {} PROVE AloneIsFresh'
    BY DEF AloneIsFresh
  <2>2. raced = {} /\ (reading = {} \/ Page.after[f] = "read")
    BY <1>3, <2>1, CauseIs
  <2>3. \A r \in reading : r.why = "mount" => ~OneAtATime
    BY <1>3, <2>2, PageIs DEF FormsInv, AloneIsFresh, FormOffers
  <2>4. shownNow.rows \subseteq shownNow'.rows /\ shownNow'.of = shownNow.of
        /\ (Page.after[f] = "own" => sent + 1 \in shownNow'.rows)
    BY <1>3 DEF FormsInv
  <2>5. \A r, q \in reading' : r = q
    BY <1>3, <2>2 DEF FormsInv, AloneIsFresh
  <2>6. \A r \in reading' :
             /\ r.why = "mount" => spins' /\ (OneAtATime' => writing' = {})
             /\ toldOf' \subseteq r.rows /\ r.of = question'
             /\ Unfollowed' = {}
    BY <1>2, <1>3, <1>5, <1>6, <2>2, <2>3 DEF FormsInv, AloneIsFresh, Unfollowed
  <2>7. reading' = {} /\ ~readFailed' =>
             /\ toldOf' \subseteq shownNow'.rows /\ shownNow'.of = question'
             /\ \A w \in writing' : Page'.after[w.form] = "own" => w.n \in shownNow'.rows
    BY <1>2, <1>3, <1>5, <1>6, <2>2, <2>4 DEF FormsInv, AloneIsFresh
  <2> QED
    BY <2>5, <2>6, <2>7 DEF AloneIsFresh
<1> QED
  BY <1>2, <1>7, <1>8, <1>9, <1>10, <1>11 DEF FormsInv

(* The server handles a write: what it answers with holds every write that was told. *)
LEMMA WriteServedInv ==
  ASSUME FormsInv, route' = route, NEW w \in writing, WriteServed(w)
  PROVE  FormsInv'
<1>1. Page' = Page /\ Forms' = Forms /\ (OneAtATime' <=> OneAtATime) /\ IsScreen'
  BY DEF Page, Forms, OneAtATime, FormsInv, IsScreen
<1>2. PICK answer \in Answers, done \in BOOLEAN :
         /\ done \in Commits(answer)
         /\ kept' = IF done THEN kept \cup {w.n} ELSE kept
         /\ writing' = (writing \ {w}) \cup {[w EXCEPT !.ends = answer, !.got = kept']}
  BY DEF WriteServed
<1> DEFINE new == [w EXCEPT !.ends = answer, !.got = kept']
<1>3. /\ w \in WriteRecords
      /\ UNCHANGED <<shownNow, question, reading, off, spins, loaded, readFailed, toldOf, begun, sent, raced>>
  BY DEF WriteServed, FormsInv, InFlight
<1>4. /\ kept' \subseteq Nat /\ kept \subseteq kept'
      /\ answer = "ok" => w.n \in kept'
  <2>1. w.n \in Nat /\ kept \subseteq Nat
    BY <1>3 DEF FormsInv, KeptWhatIsTold, WriteRecords
  <2>2. answer = "ok" => done
    BY <1>2 DEF Commits
  <2> QED
    BY <1>2, <2>1, <2>2
<1>5. /\ new \in WriteRecords /\ new.n = w.n /\ new.form = w.form /\ new.ends = answer
      /\ new.got = kept' /\ new.read = w.read
  BY <1>3, <1>4 DEF WriteRecords
<1>6. writing' = (writing \ {w}) \cup {new}
  BY <1>2
<1> HIDE DEF new
<1>7. InFlight'
  <2>1. \A r \in reading' : r.why = "write" => \E v \in writing' : v.read = r.n
    BY <1>3, <1>5, <1>6 DEF FormsInv, InFlight
  <2> QED
    BY <1>1, <1>3, <1>5, <1>6, <2>1 DEF FormsInv, InFlight, WriteRecords
<1>8. KeptWhatIsTold'
  BY <1>1, <1>3, <1>4, <1>5, <1>6 DEF FormsInv, KeptWhatIsTold
<1>9. OneFlag'
  BY <1>1, <1>3, <1>6 DEF FormsInv, OneFlag
<1>10. RacedByLanguage'
  BY <1>1, <1>3 DEF FormsInv, RacedByLanguage
<1>11. AloneIsFresh'
  BY <1>1, <1>3, <1>5, <1>6 DEF FormsInv, AloneIsFresh, Unfollowed
<1> QED
  BY <1>1, <1>7, <1>8, <1>9, <1>10, <1>11 DEF FormsInv

(* A write that no read follows is answered. *)
LEMMA WriteOverInv ==
  ASSUME FormsInv, route' = route, NEW w \in writing, WriteShown(w) \/ WriteFails(w)
  PROVE  FormsInv'
<1>1. Page' = Page /\ Forms' = Forms /\ (OneAtATime' <=> OneAtATime) /\ IsScreen'
  BY DEF Page, Forms, OneAtATime, FormsInv, IsScreen
<1>2. /\ w \in WriteRecords /\ w.read = 0 /\ writing' = writing \ {w}
      /\ UNCHANGED <<kept, question, reading, spins, loaded, readFailed, begun, sent, raced>>
      /\ \/ UNCHANGED <<toldOf, shownNow>>
         \/ /\ w.ends = "ok" /\ Page.after[w.form] # "read" /\ toldOf' = toldOf \cup {w.n}
            /\ shownNow' = IF Page.after[w.form] = "answer" THEN [shownNow EXCEPT !.rows = w.got] ELSE shownNow
  BY DEF WriteShown, WriteFails, Done, Unread, FormsInv, InFlight
<1>3. Page.after[w.form] # "read" => Page.after[w.form] \in {"own", "answer"}
  BY <1>2, PageIs DEF FormsInv, WriteRecords
<1>4. \A v \in writing : Page.after[v.form] = "answer" => writing = {w}
  BY PageIs DEF FormsInv, OneFlag, InFlight, WriteRecords
<1>5. InFlight'
  BY <1>1, <1>2 DEF FormsInv, InFlight, WriteRecords
<1>6. KeptWhatIsTold'
  BY <1>1, <1>2, <1>4 DEF FormsInv, KeptWhatIsTold
<1>7. OneFlag'
  BY <1>1, <1>2 DEF FormsInv, OneFlag
<1>8. RacedByLanguage'
  BY <1>1, <1>2 DEF FormsInv, RacedByLanguage
<1>9. AloneIsFresh'
  <2>1. SUFFICES ASSUME raced = {} PROVE AloneIsFresh'
    BY <1>2 DEF AloneIsFresh
  <2>2. \A r \in reading' :
             /\ r.why = "mount" => spins' /\ (OneAtATime' => writing' = {})
             /\ toldOf' \subseteq r.rows /\ r.of = question'
             /\ Unfollowed' = {}
    BY <1>1, <1>2, <2>1 DEF FormsInv, AloneIsFresh, Unfollowed
  <2>3. ASSUME reading' = {}, ~readFailed'
        PROVE  /\ toldOf' \subseteq shownNow'.rows /\ shownNow'.of = question'
               /\ \A v \in writing' : Page'.after[v.form] = "own" => v.n \in shownNow'.rows
    <3>1. /\ toldOf \subseteq shownNow.rows /\ shownNow.of = question
          /\ \A v \in writing : Page.after[v.form] = "own" => v.n \in shownNow.rows
      BY <1>2, <2>1, <2>3 DEF FormsInv, AloneIsFresh
    <3>2. CASE UNCHANGED <<toldOf, shownNow>>
      BY <1>1, <1>2, <3>1, <3>2
    <3>3. CASE w.ends = "ok" /\ Page.after[w.form] = "own" /\ toldOf' = toldOf \cup {w.n} /\ shownNow' = shownNow
      BY <1>1, <1>2, <3>1, <3>3
    <3>4. CASE /\ w.ends = "ok" /\ Page.after[w.form] = "answer" /\ toldOf' = toldOf \cup {w.n}
               /\ shownNow' = [shownNow EXCEPT !.rows = w.got]
      <4>1. writing' = {}
        BY <1>2, <1>4, <3>4
      <4>2. toldOf' \subseteq w.got
        BY <3>4 DEF FormsInv, KeptWhatIsTold
      <4> QED
        BY <1>2, <3>1, <3>4, <4>1, <4>2
    <3> QED
      BY <1>2, <1>3, <3>2, <3>3, <3>4
  <2>4. \A r, q \in reading' : r = q
    BY <1>2, <2>1 DEF FormsInv, AloneIsFresh
  <2> QED
    BY <2>2, <2>3, <2>4 DEF AloneIsFresh
<1> QED
  BY <1>1, <1>5, <1>6, <1>7, <1>8, <1>9 DEF FormsInv

(* Every step keeps the invariant. *)
LEMMA FormsNextInv ==
  ASSUME FormsInv, [FormsNext /\ UNCHANGED route]_<<route, formVars>>
  PROVE  FormsInv'
<1>1. CASE UNCHANGED <<route, formVars>>
  <2>1. Page' = Page /\ Forms' = Forms /\ (OneAtATime' <=> OneAtATime) /\ IsScreen'
    BY <1>1 DEF Page, Forms, OneAtATime, FormsInv, IsScreen
  <2> QED
    BY <1>1, <2>1 DEF formVars, FormsInv, InFlight, WriteRecords, KeptWhatIsTold, OneFlag, RacedByLanguage,
                      AloneIsFresh, Unfollowed
<1>2. CASE SwitchLanguage /\ route' = route
  BY <1>2, BeginReadInv DEF SwitchLanguage, Reasons
<1>3. CASE ReadAgain /\ route' = route
  BY <1>3, BeginReadInv, PageIs DEF ReadAgain, Reasons, FormsInv
<1>4. ASSUME NEW q \in Questions, applyFilter(q), route' = route PROVE FormsInv'
  BY <1>4, BeginReadInv, PageIs DEF applyFilter, Reasons, FormsInv
<1>5. ASSUME NEW w \in writing, WriteThenRead(w), route' = route PROVE FormsInv'
  BY <1>5, BeginReadInv DEF WriteThenRead, Reasons
<1> QED
  BY <1>1, <1>2, <1>3, <1>4, <1>5, SubmitInv, WriteServedInv, ReadOverInv, WriteOverInv DEF FormsNext

(* The inductive invariant holds of whichever screen is mounted. *)
THEOREM FormsInvariance == (route \in DOMAIN Screens /\ FormsSpec) => []FormsInv
  BY FormsInitInv, FormsNextInv, PTL DEF FormsSpec, IsScreen

(* On a screen at rest every write its operator was told of is shown, unless two reads overlapped, or a
   read and a write that no read follows; where one flag disables every form, unless the language was switched. *)
THEOREM OwnWritesAreShown == (route \in DOMAIN Screens /\ FormsSpec) => []OwnWritesShow
<1>1. FormsInv => OwnWritesShow
  BY DEF FormsInv, RacedByLanguage, AloneIsFresh, OwnWritesShow, Settled, UpToDate
<1> QED
  BY <1>1, FormsInvariance, PTL

(* A read is left for every write in flight that is to be followed by one. *)
ReadsAreBounded ==
    /\ IsFiniteSet(writing)
    /\ begun + Cardinality(Due) <= MaxReads

(* The inductive invariant, with the types and the bound they rest on. *)
FormsTyped == FormsInv /\ FormsTypeOK /\ ReadsAreBounded

(* While a screen is mounted its forms, and the writes they send, are the same. *)
LEMMA FormsStay ==
  ASSUME route' = route
  PROVE  Forms' = Forms /\ FormWrites' = FormWrites
  BY DEF Forms, Page, FormWrites

(* Writes that are due can be counted. *)
LEMMA DueIsCounted ==
  ASSUME IsFiniteSet(writing)
  PROVE  IsFiniteSet(Due) /\ Cardinality(Due) \in Nat
  BY FS_Subset, FS_CardinalityType DEF Due

(* Fewer writes are due, and no more reads were begun. *)
LEMMA FewerAreDue ==
  ASSUME ReadsAreBounded, begun \in Nat, begun' = begun, writing' \subseteq writing, route' = route
  PROVE  ReadsAreBounded'
<1>1. Due' \subseteq Due
  BY DEF Due, Page
<1>2. IsFiniteSet(writing') /\ IsFiniteSet(Due) /\ Cardinality(Due) \in Nat
  BY FS_Subset, DueIsCounted DEF ReadsAreBounded
<1>3. Cardinality(Due') \in Nat /\ Cardinality(Due') <= Cardinality(Due)
  BY <1>1, <1>2, FS_Subset, FS_CardinalityType
<1>4. MaxReads \in Nat
  BY FormsAssumption
<1> QED
  BY <1>2, <1>3, <1>4 DEF ReadsAreBounded

(* A read that begins is one. *)
LEMMA BeginReadTyped ==
  ASSUME FormsTypeOK, NEW why \in Reasons, NEW of \in Questions, NEW wanted, BeginRead(why, of, wanted), begun + 1 <= MaxReads
  PROVE  /\ begun' \in 0..MaxReads /\ begun + 1 \in 0..MaxReads /\ reading' \subseteq FormReads
         /\ spins' \in BOOLEAN /\ raced' \subseteq {"clicks", "language"}
<1>1. begun + 1 \in 1..MaxReads /\ begun + 1 \in 0..MaxReads
  BY FormsAssumption DEF FormsTypeOK
<1>2. [n |-> begun + 1, rows |-> kept, of |-> of, why |-> why] \in FormReads
  BY <1>1 DEF FormsTypeOK, FormReads
<1> QED
  BY <1>1, <1>2 DEF BeginRead, FormsTypeOK, Cause

(* The language is switched, a button or a filter asks again. *)
LEMMA AsksTypedAgain ==
  ASSUME FormsTyped, route' = route, SwitchLanguage \/ ReadAgain \/ \E q \in Questions : applyFilter(q)
  PROVE  FormsTypeOK' /\ ReadsAreBounded'
<1>1. /\ ReadRoom /\ UNCHANGED <<kept, shownNow, writing, off, loaded, readFailed, toldOf, sent>>
      /\ question' \in Questions
      /\ \E why \in Reasons, of \in Questions : \E wanted : BeginRead(why, of, wanted)
  BY DEF SwitchLanguage, ReadAgain, applyFilter, Reasons, Questions, FormsTyped, FormsTypeOK
<1>2. begun \in Nat /\ MaxReads \in Nat /\ Cardinality(Due) \in Nat
  BY FormsAssumption, DueIsCounted DEF FormsTyped, FormsTypeOK, ReadsAreBounded
<1>3. begun + 1 <= MaxReads /\ begun + 1 + Cardinality(Due) <= MaxReads
  BY <1>1, <1>2 DEF ReadRoom
<1>4. FormsTypeOK'
  <2>1. /\ begun' \in 0..MaxReads /\ reading' \subseteq FormReads
        /\ spins' \in BOOLEAN /\ raced' \subseteq {"clicks", "language"}
    BY <1>1, <1>3, BeginReadTyped DEF FormsTyped
  <2> QED
    BY <1>1, <2>1, FormsStay DEF FormsTyped, FormsTypeOK
<1>5. ReadsAreBounded'
  <2>1. Due' = Due /\ begun' = begun + 1
    BY <1>1 DEF Due, Page, BeginRead
  <2> QED
    BY <1>1, <1>3, <2>1 DEF FormsTyped, ReadsAreBounded
<1> QED
  BY <1>4, <1>5

(* A form is sent. *)
LEMMA SubmitTyped ==
  ASSUME FormsTyped, route' = route, NEW f \in Forms, Submit(f)
  PROVE  FormsTypeOK' /\ ReadsAreBounded'
<1>1. /\ sent \in Nat /\ sent + 1 \in 1..MaxWrites /\ sent' = sent + 1 /\ sent' \in 0..MaxWrites
      /\ begun \in Nat /\ MaxReads \in Nat /\ Cardinality(Due) \in Nat
  BY FormsAssumption, DueIsCounted DEF FormsTyped, FormsTypeOK, ReadsAreBounded, Submit
<1> DEFINE w == [n |-> sent + 1, form |-> f, ends |-> "sent", got |-> {}, read |-> 0]
<1>2. writing' = writing \cup {w} /\ kept' = kept
  BY DEF Submit
<1>3. {} \in Writes
  BY DEF Writes
<1>4. w \in FormWrites
  <2>1. 0 \in 0..MaxReads
    BY <1>1
  <2> QED
    BY <1>1, <1>3, <2>1 DEF FormWrites
<1>5. FormsTypeOK'
  <2>1. shownNow' \in Views
    <3>1. shownNow.rows \cup {sent + 1} \in Writes
      BY <1>1 DEF FormsTyped, FormsTypeOK, Views, Writes
    <3> QED
      BY <3>1 DEF Submit, FormsTyped, FormsTypeOK, Views
  <2>2. raced' \subseteq {"clicks", "language"} /\ off' \in Forms \cup {Nobody}
    BY DEF Submit, FormsTyped, FormsTypeOK, Cause
  <2>3. UNCHANGED <<question, reading, spins, loaded, readFailed, toldOf, begun>>
    BY DEF Submit
  <2>4. writing' \subseteq FormWrites
    BY <1>2, <1>4 DEF FormsTyped, FormsTypeOK
  <2> QED
    BY <1>1, <1>2, <2>1, <2>2, <2>3, <2>4, FormsStay DEF FormsTyped, FormsTypeOK
<1>6. ReadsAreBounded'
  <2>1. writing' = writing \cup {w} /\ w.form = f /\ begun' = begun
    BY <1>2 DEF Submit
  <2> HIDE DEF w
  <2>2. IsFiniteSet(writing') /\ IsFiniteSet(Due)
    BY <2>1, FS_AddElement, DueIsCounted DEF FormsTyped, ReadsAreBounded
  <2>3. CASE Page.after[f] = "read"
    <3>1. begun + Cardinality(Due) < MaxReads
      BY <2>3 DEF Submit, ReadRoom
    <3>2. Due' \subseteq Due \cup {w}
      BY <2>1 DEF Due, Page
    <3>3. IsFiniteSet(Due \cup {w}) /\ Cardinality(Due \cup {w}) \in {Cardinality(Due), Cardinality(Due) + 1}
      BY <2>2, FS_AddElement
    <3>4. Cardinality(Due') \in Nat /\ Cardinality(Due') <= Cardinality(Due \cup {w})
      BY <3>2, <3>3, FS_Subset, FS_CardinalityType
    <3> QED
      BY <1>1, <2>1, <2>2, <3>1, <3>3, <3>4 DEF ReadsAreBounded
  <2>4. CASE Page.after[f] # "read"
    <3>1. Due' = Due
      BY <2>1, <2>4 DEF Due, Page
    <3> QED
      BY <2>1, <2>2, <3>1 DEF FormsTyped, ReadsAreBounded
  <2> QED
    BY <2>3, <2>4
<1> QED
  BY <1>5, <1>6

(* A write is handled: it needs no more reads than before. *)
LEMMA ServedTyped ==
  ASSUME FormsTyped, route' = route, NEW w \in writing, WriteServed(w)
  PROVE  FormsTypeOK' /\ ReadsAreBounded'
<1>1. PICK answer \in Answers, done \in BOOLEAN :
         /\ kept' = IF done THEN kept \cup {w.n} ELSE kept
         /\ writing' = (writing \ {w}) \cup {[w EXCEPT !.ends = answer, !.got = kept']}
  BY DEF WriteServed
<1> DEFINE v == [w EXCEPT !.ends = answer, !.got = kept']
<1>2. /\ w \in FormWrites /\ IsFiniteSet(writing) /\ w.ends = "sent"
      /\ UNCHANGED <<shownNow, question, reading, off, spins, loaded, readFailed, toldOf, begun, sent, raced>>
  BY DEF WriteServed, FormsTyped, FormsTypeOK, ReadsAreBounded
<1>3. kept' \in Writes
  BY <1>1, <1>2 DEF FormsTyped, FormsTypeOK, Writes, FormWrites
<1>4. v \in FormWrites /\ v.form = w.form /\ v.read = w.read
  BY <1>2, <1>3 DEF FormWrites
<1>5. writing' = (writing \ {w}) \cup {v}
  BY <1>1
<1> HIDE DEF v
<1>6. FormsTypeOK'
  BY <1>2, <1>3, <1>4, <1>5, FormsStay DEF FormsTyped, FormsTypeOK
<1>7. ReadsAreBounded'
  <2>1. IsFiniteSet(writing') /\ IsFiniteSet(Due) /\ Cardinality(Due) \in Nat
    <3>1. IsFiniteSet(writing \ {w})
      BY <1>2, FS_RemoveElement
    <3> QED
      BY <1>2, <1>5, <3>1, FS_AddElement, DueIsCounted
  <2>2. begun \in Nat /\ MaxReads \in Nat /\ begun + Cardinality(Due) <= MaxReads
    BY FormsAssumption DEF FormsTyped, FormsTypeOK, ReadsAreBounded
  <2>3. Cardinality(Due') \in Nat /\ Cardinality(Due') <= Cardinality(Due)
    <3>1. CASE w \in Due
      <4>1. Due' \subseteq (Due \ {w}) \cup {v}
        BY <1>5 DEF Due, Page
      <4>2. IsFiniteSet(Due \ {w}) /\ Cardinality(Due \ {w}) = Cardinality(Due) - 1
        BY <2>1, <3>1, FS_RemoveElement
      <4> DEFINE rest == Due \ {w}
      <4>3. /\ IsFiniteSet(rest \cup {v})
            /\ Cardinality(rest \cup {v}) \in {Cardinality(rest), Cardinality(rest) + 1}
        <5> HIDE DEF rest
        <5>1. IsFiniteSet(rest)
          BY <4>2 DEF rest
        <5> QED
          BY <5>1, FS_AddElement
      <4>4. Cardinality(Due') \in Nat /\ Cardinality(Due') <= Cardinality((Due \ {w}) \cup {v})
        BY <4>1, <4>3, FS_Subset, FS_CardinalityType
      <4> QED
        BY <2>1, <4>2, <4>3, <4>4
    <3>2. CASE w \notin Due
      <4>1. Due' \subseteq Due
        BY <1>2, <1>4, <1>5, <3>2 DEF Due, Page
      <4> QED
        BY <2>1, <4>1, FS_Subset, FS_CardinalityType
    <3> QED
      BY <3>1, <3>2
  <2> QED
    BY <1>2, <2>1, <2>2, <2>3 DEF ReadsAreBounded
<1> QED
  BY <1>6, <1>7

(* The read a write was waiting for begins: it is no longer due. *)
LEMMA WriteThenReadTyped ==
  ASSUME FormsTyped, route' = route, NEW w \in writing, WriteThenRead(w)
  PROVE  FormsTypeOK' /\ ReadsAreBounded'
<1> DEFINE v == [w EXCEPT !.read = begun + 1]
<1>1. /\ begun \in Nat /\ MaxReads \in Nat /\ Cardinality(Due) \in Nat /\ IsFiniteSet(Due) /\ IsFiniteSet(writing)
      /\ w \in FormWrites
  BY FormsAssumption, DueIsCounted DEF FormsTyped, FormsTypeOK, ReadsAreBounded
<1>2. w \in Due /\ v.read # 0
  BY <1>1 DEF WriteThenRead, Unread, Due, FormWrites
<1>3. writing' = (writing \ {w}) \cup {v} /\ begun' = begun + 1
  BY DEF WriteThenRead, BeginRead
<1>4. Due' = Due \ {w}
  BY <1>2, <1>3 DEF Due, Page
<1>5. Cardinality(Due') = Cardinality(Due) - 1 /\ Cardinality(Due') \in Nat
  BY <1>1, <1>2, <1>4, FS_RemoveElement, FS_CardinalityType
<1>6. begun + Cardinality(Due) <= MaxReads
  BY DEF FormsTyped, ReadsAreBounded
<1>7. begun + 1 <= MaxReads
  BY <1>1, <1>5, <1>6
<1>8. IsFiniteSet(writing')
  BY <1>1, <1>3, FS_AddElement, FS_RemoveElement
<1>9. ReadsAreBounded'
  BY <1>1, <1>3, <1>5, <1>6, <1>8 DEF ReadsAreBounded
<1>10. FormsTypeOK'
  <2>1. /\ begun' \in 0..MaxReads /\ begun + 1 \in 0..MaxReads /\ reading' \subseteq FormReads
        /\ spins' \in BOOLEAN /\ raced' \subseteq {"clicks", "language"}
    BY <1>7, BeginReadTyped DEF WriteThenRead, Reasons, FormsTyped, FormsTypeOK
  <2>2. v \in FormWrites /\ w.n \in 1..MaxWrites
    BY <1>1, <2>1 DEF FormWrites
  <2>3. toldOf' \in Writes
    BY <2>2 DEF WriteThenRead, FormsTyped, FormsTypeOK, Writes
  <2>4. UNCHANGED <<kept, shownNow, question, off, loaded, readFailed, sent>>
    BY DEF WriteThenRead
  <2>5. writing' \subseteq FormWrites
    BY <1>3, <2>2 DEF FormsTyped, FormsTypeOK
  <2> QED
    BY <2>1, <2>3, <2>4, <2>5, FormsStay DEF FormsTyped, FormsTypeOK
<1> QED
  BY <1>9, <1>10

(* A read is over, or a write that none follows. *)
LEMMA OverTyped ==
  ASSUME FormsTyped, route' = route,
         \/ \E r \in reading : ReadLands(r) \/ ReadFails(r)
         \/ \E w \in writing : WriteShown(w) \/ WriteFails(w)
  PROVE  FormsTypeOK' /\ ReadsAreBounded'
<1>1. Forms' = Forms /\ FormWrites' = FormWrites
  BY FormsStay
<1>2. ASSUME NEW r \in reading, ReadLands(r) \/ ReadFails(r)
      PROVE  FormsTypeOK' /\ writing' \subseteq writing /\ begun' = begun
  <2>1. r \in FormReads
    BY DEF FormsTyped, FormsTypeOK
  <2>2. shownNow' \in Views /\ loaded' \in BOOLEAN /\ readFailed' \in BOOLEAN
    <3>1. shownNow \in Views /\ loaded \in BOOLEAN /\ readFailed \in BOOLEAN
      BY DEF FormsTyped, FormsTypeOK
    <3>2. CASE ReadLands(r)
      BY <2>1, <3>2 DEF ReadLands, FormReads, Views
    <3>3. CASE ReadFails(r)
      BY <3>1, <3>3 DEF ReadFails
    <3> QED
      BY <1>2, <3>2, <3>3
  <2>3. /\ reading' \subseteq reading /\ writing' \subseteq writing /\ off' \in {off, Nobody}
        /\ spins' \in BOOLEAN
        /\ UNCHANGED <<kept, question, toldOf, begun, sent, raced>>
    BY <1>2 DEF ReadLands, ReadFails, ReadOver
  <2> QED
    BY <1>1, <2>2, <2>3 DEF FormsTyped, FormsTypeOK
<1>3. ASSUME NEW w \in writing, WriteShown(w) \/ WriteFails(w)
      PROVE  FormsTypeOK' /\ writing' \subseteq writing /\ begun' = begun
  <2>1. w.n \in 1..MaxWrites /\ w.got \in Writes
    BY DEF FormsTyped, FormsTypeOK, FormWrites
  <2>2. shownNow' \in Views /\ toldOf' \in Writes
    BY <1>3, <2>1 DEF WriteShown, WriteFails, Views, Writes, FormsTyped, FormsTypeOK
  <2>3. /\ writing' \subseteq writing /\ off' \in {off, Nobody}
        /\ UNCHANGED <<kept, question, reading, spins, loaded, readFailed, begun, sent, raced>>
    BY <1>3 DEF WriteShown, WriteFails, Done
  <2> QED
    BY <1>1, <2>2, <2>3 DEF FormsTyped, FormsTypeOK
<1>4. begun \in Nat /\ ReadsAreBounded
  BY FormsAssumption DEF FormsTyped, FormsTypeOK
<1> QED
  BY <1>2, <1>3, <1>4, FewerAreDue

(* At first one read is in flight. *)
LEMMA FormsTypedInit == IsScreen /\ FormsInit => FormsTyped
<1> SUFFICES ASSUME IsScreen, FormsInit PROVE FormsTyped
  OBVIOUS
<1>1. 1 \in 1..MaxReads /\ 1 \in 0..MaxReads /\ 0 \in 0..MaxWrites /\ MaxReads \in Nat /\ 1 <= MaxReads
  BY FormsAssumption
<1>2. Due = {} /\ Cardinality({}) = 0 /\ IsFiniteSet({})
  BY FS_EmptySet DEF FormsInit, Due
<1>3. {} \in Writes /\ "all" \in Questions /\ "mount" \in Reasons
  BY DEF Writes, Questions, Reasons
<1>4. reading \subseteq FormReads /\ shownNow \in Views
  BY <1>1, <1>3 DEF FormsInit, FormReads, Views
<1>5. FormsTypeOK
  <2>1. {kept, toldOf} \subseteq Writes /\ question \in Questions /\ writing \subseteq FormWrites
    BY <1>3 DEF FormsInit
  <2>2. off \in Forms \cup {Nobody} /\ {spins, loaded, readFailed} \subseteq BOOLEAN
    BY DEF FormsInit
  <2>3. begun \in 0..MaxReads /\ sent \in 0..MaxWrites /\ raced \subseteq {"clicks", "language"}
    BY <1>1 DEF FormsInit
  <2> QED
    BY <1>4, <2>1, <2>2, <2>3 DEF FormsTypeOK
<1>6. ReadsAreBounded
  BY <1>1, <1>2 DEF FormsInit, ReadsAreBounded
<1> QED
  BY <1>5, <1>6, FormsInitInv DEF FormsTyped

(* Every step keeps the types. *)
LEMMA FormsTypedNext ==
  ASSUME FormsTyped, [FormsNext /\ UNCHANGED route]_<<route, formVars>>
  PROVE  FormsTyped'
<1>1. FormsInv'
  BY FormsNextInv DEF FormsTyped
<1>2. CASE UNCHANGED <<route, formVars>>
  BY <1>1, <1>2 DEF formVars, FormsTyped, FormsTypeOK, ReadsAreBounded, Due, Forms, Page, FormWrites
<1>3. CASE FormsNext /\ UNCHANGED route
  BY <1>1, <1>3, AsksTypedAgain, SubmitTyped, ServedTyped, WriteThenReadTyped, OverTyped DEF FormsNext, FormsTyped
<1> QED
  BY <1>2, <1>3

(* For any number of writes and reads: what the mounted screen keeps and has in flight has its types,
   and no more reads are begun than there is room for. *)
THEOREM FormTypesHold == (route \in DOMAIN Screens /\ FormsSpec) => []FormsTypeOK
<1>1. FormsTyped => FormsTypeOK
  BY DEF FormsTyped
<1> QED
  BY <1>1, FormsTypedInit, FormsTypedNext, PTL DEF FormsSpec, IsScreen
-----------------------------------------------------------------------------
(* Numbers that are there have a least one. *)
LEMMA HasLeast ==
  ASSUME NEW S, S \subseteq Nat, S # {}
  PROVE  \E i \in S : \A j \in S : i <= j
<1> DEFINE less == {p \in Nat \X Nat : p[1] < p[2]}
<1>1. IsWellFoundedOn(less, Nat)
  BY NatLessThanWellFounded DEF OpToRel
<1> HIDE DEF less
<1>2. PICK i \in S : \A j \in S : <<j, i>> \notin less
  BY <1>1, WFMin
<1>3. \A j \in S : ~(j < i)
  BY <1>2 DEF less
<1> QED
  BY <1>3

(* The record of an item. *)
ItemRecords == [status : ItemStatuses, session : Prompts \cup {NoPrompt}]

(* What an item says, together with the ceremony its session names. *)
ItemOk(i) ==
    LET item == batch.items[i] IN
    /\ item.status = "PENDING" => item.session = NoPrompt
    /\ item.status \in {"RUNNING", "SIGNED"} => item.session \in Prompts
    /\ item.status = "SIGNED" => prompts[item.session] = "completed"
    /\ item.status = "FAILED" /\ i \notin contested =>
          item.session = NoPrompt \/ (item.session \in Prompts /\ prompts[item.session] = "rejected")

(* A run that has picked a document knows which; one that records or watches a prompt knows
   that; what is due was running once, an item at a time, and what is to be marked has ended. *)
LoopKnows(l) ==
    /\ l.pc \in {"push", "record", "failed"} \/ (l.pc = "status" /\ l.to = "RUNNING") => l.item \in Items
    /\ l.pc \in {"record", "watch"} => l.session \in Prompts
    /\ l.pc = "mark" => \A d \in l.due : IsNext(l, d) => Final(prompts[d.session])
    /\ \A d \in l.due : /\ batch.items[d.item].status # "PENDING"
                        /\ \A e \in l.due : d.item = e.item => d = e

(* A document that was never contested is pending while a run has it, and no other has it. *)
HeldAlone(l) ==
    l.item \in Items \ contested => /\ batch.items[l.item].status = "PENDING"
                                    /\ \A r \in loops : r.item = l.item => r = l

(* The inductive invariant of the batch screen. *)
BatchInv ==
    /\ BatchTypeOK
    /\ \A i \in Items : ItemOk(i)
    /\ \A l \in loops : LoopKnows(l) /\ HeldAlone(l)
    /\ stopped => batch.status = "CANCELLED" /\ \A l \in loops : l.pc \notin UnderWay

(* The parts of a batch, and its records after a change of one. *)
LEMMA BatchIs ==
  ASSUME NEW b \in Batches
  PROVE  /\ b.status \in BatchStatuses /\ b.items \in [Items -> ItemRecords]
         /\ \A i \in Items : b.items[i] \in ItemRecords
         /\ \A s \in BatchStatuses : /\ [b EXCEPT !.status = s] \in Batches
                                     /\ [b EXCEPT !.status = s].items = b.items
                                     /\ [b EXCEPT !.status = s].status = s
         /\ \A i \in Items, x \in ItemRecords :
              /\ [b EXCEPT !.items[i] = x] \in Batches
              /\ [b EXCEPT !.items[i] = x].status = b.status
              /\ [b EXCEPT !.items[i] = x].items[i] = x
              /\ \A j \in Items \ {i} : [b EXCEPT !.items[i] = x].items[j] = b.items[j]
  BY DEF Batches, ItemRecords

(* Whether a write of one item is stored or not. *)
LEMMA ItemWritten ==
  ASSUME batch \in Batches, NEW i \in Items, NEW x \in ItemRecords,
         batch' = batch \/ batch' = [batch EXCEPT !.items[i] = x]
  PROVE  /\ batch' \in Batches /\ batch'.items[i] \in {batch.items[i], x}
         /\ \A j \in Items \ {i} : batch'.items[j] = batch.items[j]
<1>1. CASE batch' = batch
  BY <1>1
<1>2. CASE batch' = [batch EXCEPT !.items[i] = x]
  BY <1>2, BatchIs
<1> QED
  BY <1>1, <1>2

(* At first every item is pending. *)
LEMMA BatchInitInv == BatchInit => BatchInv
<1> SUFFICES ASSUME BatchInit PROVE BatchInv
  OBVIOUS
<1> DEFINE fresh == [status |-> "PENDING", session |-> NoPrompt]
<1>1. /\ batch \in Batches
      /\ batch.status = "DRAFT" /\ \A i \in Items : batch.items[i] = fresh
  BY DEF BatchInit, Batches, ItemStatuses, BatchStatuses
<1>2. seen \in Buttons
  BY DEF BatchInit, Read, Buttons
<1>3. prompts \in [Prompts -> PromptStates]
  BY DEF BatchInit, PromptStates
<1>4. visit \in Visits /\ open \in BOOLEAN /\ stopped \in BOOLEAN
  <2>1. visit = 1 /\ open = TRUE /\ stopped = FALSE
    BY DEF BatchInit
  <2>2. visit \in Visits
    BY <2>1, BatchAssumption DEF Visits
  <2> QED
    BY <2>1, <2>2
<1>5. BatchTypeOK
  BY <1>1, <1>2, <1>3, <1>4 DEF BatchInit, BatchTypeOK
<1> QED
  BY <1>1, <1>5 DEF BatchInv, ItemOk, BatchInit

(* The next item is an item that is pending. *)
LEMMA NextItemIsUndone ==
  ASSUME NEW b, Undone(b) # {}
  PROVE  NextItem(b) \in Items /\ b.items[NextItem(b)].status = "PENDING"
<1>1. Undone(b) \subseteq Items /\ Undone(b) \subseteq Nat
  BY BatchAssumption DEF Undone
<1>2. \E i \in Undone(b) : \A j \in Undone(b) : i <= j
  BY <1>1, HasLeast
<1>3. NextItem(b) \in Undone(b)
  BY <1>2 DEF NextItem
<1> QED
  BY <1>3 DEF Undone

(* What no step undoes: how a ceremony ended, that a document was contested, that it was begun. *)
Onwards ==
    /\ batch' \in Batches /\ prompts' \in [Prompts -> PromptStates]
    /\ \A s \in Prompts : Final(prompts[s]) => prompts'[s] = prompts[s]
    /\ contested' \subseteq Items /\ contested \subseteq contested'
    /\ \A i \in Items : \/ batch'.items[i] = batch.items[i]
                        \/ /\ batch'.items[i].status # "PENDING" /\ ItemOk(i)'
                           /\ \A r \in loops' : r.item = i => i \in contested'

(* A loop ends or goes on to k, which knows what it should and is alone with what it has. *)
OneLoopMoves(l, k) ==
    /\ k \in Loops /\ loops' \in {loops \ {l}, (loops \ {l}) \cup {k}}
    /\ k \in loops' => LoopKnows(k)'
    /\ k \in loops' /\ k.item \in Items \ contested' => /\ batch.items[k.item].status = "PENDING"
                                                        /\ \A r \in loops \ {l} : r.item # k.item

(* Such a step keeps the invariant. *)
LEMMA BatchStep ==
  ASSUME BatchInv, Onwards, NEW l, NEW k, OneLoopMoves(l, k),
         visit' \in Visits, open' \in BOOLEAN, left' \subseteq Visits,
         seen' \in Buttons, stopped' \in BOOLEAN,
         stopped' => batch'.status = "CANCELLED" /\ \A r \in loops' : r.pc \notin UnderWay
  PROVE  BatchInv'
<1>1. BatchTypeOK'
  BY DEF BatchInv, BatchTypeOK, Onwards, OneLoopMoves
<1>2. ASSUME NEW i \in Items PROVE ItemOk(i)'
  <2>1. CASE batch'.items[i] = batch.items[i]
    <3>1. batch.items[i].session \in Prompts => (Final(prompts[batch.items[i].session]) =>
             prompts'[batch.items[i].session] = prompts[batch.items[i].session])
      BY DEF Onwards
    <3>2. ItemOk(i)
      BY DEF BatchInv
    <3>3. i \notin contested' => i \notin contested
      BY DEF Onwards
    <3> QED
      BY <2>1, <3>1, <3>2, <3>3 DEF ItemOk, Final
  <2> QED
    BY <2>1 DEF Onwards
<1>3. ASSUME NEW r \in loops' PROVE LoopKnows(r)'
  <2>1. CASE r = k
    BY <2>1 DEF OneLoopMoves
  <2>2. CASE r \in loops
    <3>1. LoopKnows(r) /\ r \in Loops
      BY <2>2 DEF BatchInv, BatchTypeOK
    <3>2. \A d \in r.due : d.item \in Items /\ d.session \in Prompts
      BY <3>1 DEF Loops
    <3>3. \A d \in r.due : /\ Final(prompts[d.session]) => prompts'[d.session] = prompts[d.session]
                           /\ batch.items[d.item].status # "PENDING" => batch'.items[d.item].status # "PENDING"
      BY <3>2 DEF Onwards
    <3> QED
      BY <3>1, <3>3 DEF LoopKnows, IsNext
  <2> QED
    BY <2>1, <2>2 DEF OneLoopMoves
<1>4. ASSUME NEW r \in loops', r.item \in Items \ contested'
      PROVE  batch'.items[r.item].status = "PENDING" /\ \A q \in loops' : q.item = r.item => q = r
  <2>1. batch'.items[r.item] = batch.items[r.item]
    BY <1>4 DEF Onwards
  <2>2. \A q \in loops : q.item \in Items \ contested' => HeldAlone(q) /\ q.item \in Items \ contested
    BY DEF BatchInv, Onwards
  <2>3. ASSUME r \in loops \ {l}
        PROVE  batch.items[r.item].status = "PENDING" /\ \A q \in loops' : q.item = r.item => q = r
    BY <1>4, <2>2, <2>3 DEF HeldAlone, OneLoopMoves
  <2>4. ASSUME r = k
        PROVE  batch.items[r.item].status = "PENDING" /\ \A q \in loops' : q.item = r.item => q = r
    BY <1>4, <2>4 DEF OneLoopMoves
  <2> QED
    BY <2>1, <2>3, <2>4 DEF OneLoopMoves
<1>5. \A r \in loops' : HeldAlone(r)'
  BY <1>4 DEF HeldAlone
<1> QED
  BY <1>1, <1>2, <1>3, <1>5 DEF BatchInv

(* The same for a step that leaves the screen and the cancellation as they were. *)
LEMMA ServerStep ==
  ASSUME BatchInv, Onwards, NEW l \in loops, l.pc \in UnderWay, NEW k, OneLoopMoves(l, k),
         UNCHANGED stopped, UNCHANGED Screen
  PROVE  BatchInv'
<1>1. ~stopped'
  BY DEF BatchInv
<1> QED
  BY <1>1, BatchStep DEF BatchInv, BatchTypeOK, Screen

(* The run reads the batch: what runs is due, and an item runs with one session. *)
LEMMA ChecksInv ==
  ASSUME BatchInv, NEW l \in loops, Checks(l)
  PROVE  BatchInv'
<1> DEFINE running == {[item |-> i, session |-> batch.items[i].session] :
                          i \in {j \in Items : batch.items[j].status = "RUNNING"}}
<1>1. /\ l \in Loops /\ l.pc = "asked" /\ batch \in Batches
      /\ UNCHANGED <<batch, prompts, contested, stopped, visit, open, seen, left>>
  BY DEF Checks, BatchInv, BatchTypeOK, Screen
<1>2. \A d \in running : /\ d.item \in Items /\ d.session \in Prompts /\ d \in [item : Items, session : Prompts]
                         /\ batch.items[d.item].status = "RUNNING" /\ d.session = batch.items[d.item].session
                         /\ d = [item |-> d.item, session |-> d.session]
  BY DEF BatchInv, ItemOk
<1>3. running \in SUBSET [item : Items, session : Prompts]
  BY <1>2
<1>4. \A d, e \in running : d.item = e.item => d = e
  BY <1>2
<1>5. loops' \in {loops \ {l}, (loops \ {l}) \cup {[l EXCEPT !.pc = "settle", !.due = running]}}
  BY DEF Checks, Becomes, Ended
<1>6. stopped => loops' = loops \ {l}
  BY <1>1 DEF Checks, Refuses, BatchInv, Ended
<1> HIDE DEF running
<1>7. PICK k \in Loops : /\ k.pc = "settle" /\ k.due = running /\ k.item = l.item
                         /\ loops' \in {loops \ {l}, (loops \ {l}) \cup {k}}
  <2>1. LET k == [l EXCEPT !.pc = "settle", !.due = running]
        IN  k \in Loops /\ k.pc = "settle" /\ k.due = running /\ k.item = l.item
    BY <1>1, <1>3 DEF Loops, UnderWay
  <2> QED
    BY <1>5, <2>1
<1>8. LoopKnows(k)'
  BY <1>1, <1>2, <1>4, <1>7 DEF LoopKnows, IsNext
<1>9. Onwards
  BY <1>1 DEF Onwards, BatchInv, BatchTypeOK
<1>10. OneLoopMoves(l, k)
  BY <1>1, <1>7, <1>8 DEF OneLoopMoves, BatchInv, HeldAlone
<1>11. stopped' => batch'.status = "CANCELLED" /\ \A r \in loops' : r.pc \notin UnderWay
  BY <1>1, <1>6 DEF BatchInv
<1> QED
  BY <1>1, <1>9, <1>10, <1>11, BatchStep DEF BatchInv, BatchTypeOK

(* How a ceremony ended is not changed by a poll. *)
LEMMA PollsKeepTheEnd ==
  ASSUME BatchInv, NEW s \in Prompts, prompts' \in {prompts, [prompts EXCEPT ![s] = Polled(@)]}
  PROVE  /\ prompts' \in [Prompts -> PromptStates]
         /\ \A r \in Prompts : Final(prompts[r]) => prompts'[r] = prompts[r]
<1>1. prompts \in [Prompts -> PromptStates]
  BY DEF BatchInv, BatchTypeOK
<1>2. \A p \in PromptStates : Polled(p) \in PromptStates /\ (Final(p) => Polled(p) = p)
  BY DEF Polled, Final, PromptStates
<1> QED
  BY <1>1, <1>2

(* One due item is polled: it is passed over, or its ceremony has ended and it is marked next. *)
LEMMA SettlesInv ==
  ASSUME BatchInv, NEW l \in loops, settleRunningItem(l)
  PROVE  BatchInv'
<1>1. l \in Loops /\ l.pc = "settle" /\ UNCHANGED <<batch, contested, stopped>> /\ UNCHANGED Screen
      /\ LoopKnows(l) /\ l.pc \in UnderWay
  BY DEF settleRunningItem, BatchInv, BatchTypeOK, UnderWay
<1>2. PICK d \in l.due :
         /\ IsNext(l, d) /\ prompts' \in {prompts, [prompts EXCEPT ![d.session] = Polled(@)]}
         /\ \/ Final(prompts'[d.session]) /\ loops' = (loops \ {l}) \cup {[l EXCEPT !.pc = "mark"]}
            \/ loops' = (loops \ {l}) \cup {[l EXCEPT !.due = @ \ {d}]}
  BY DEF settleRunningItem, Becomes, Goes
<1>3. d.session \in Prompts /\ \A e \in l.due : e.item \in Items
  BY <1>1 DEF Loops
<1>4. Onwards
  BY <1>1, <1>2, <1>3, PollsKeepTheEnd DEF Onwards, BatchInv, BatchTypeOK
<1>5. ASSUME NEW k \in Loops, loops' = (loops \ {l}) \cup {k}, k.item = l.item, LoopKnows(k)' PROVE BatchInv'
  <2>1. OneLoopMoves(l, k)
    BY <1>1, <1>5 DEF OneLoopMoves, BatchInv, HeldAlone
  <2> QED
    BY <1>1, <1>4, <2>1, ServerStep
<1>6. CASE Final(prompts'[d.session]) /\ loops' = (loops \ {l}) \cup {[l EXCEPT !.pc = "mark"]}
  <2> DEFINE k == [l EXCEPT !.pc = "mark"]
  <2>1. k \in Loops /\ k.pc = "mark" /\ k.item = l.item /\ k.due = l.due
    BY <1>1 DEF Loops, UnderWay
  <2>2. loops' = (loops \ {l}) \cup {k}
    BY <1>6
  <2> HIDE DEF k
  <2>3. \A e \in l.due : IsNext(k, e) => e = d
    BY <1>1, <1>2, <1>3, <2>1, BatchAssumption DEF IsNext, LoopKnows
  <2>4. LoopKnows(k)'
    BY <1>1, <1>6, <2>1, <2>3 DEF LoopKnows, IsNext
  <2> QED
    BY <1>5, <2>1, <2>2, <2>4
<1>7. CASE loops' = (loops \ {l}) \cup {[l EXCEPT !.due = @ \ {d}]}
  <2> DEFINE k == [l EXCEPT !.due = @ \ {d}]
  <2>1. k \in Loops /\ k.pc = "settle" /\ k.item = l.item /\ k.due = l.due \ {d}
    BY <1>1 DEF Loops, UnderWay
  <2>2. loops' = (loops \ {l}) \cup {k}
    BY <1>7
  <2> HIDE DEF k
  <2>3. LoopKnows(k)'
    BY <1>1, <2>1 DEF LoopKnows
  <2> QED
    BY <1>5, <2>1, <2>2, <2>3
<1> QED
  BY <1>2, <1>6, <1>7

(* An item is marked with what its ceremony came to. *)
LEMMA MarkInv ==
  ASSUME BatchInv, NEW l \in loops, MarkItem(l)
  PROVE  BatchInv'
<1>1. /\ l \in Loops /\ l.pc = "mark" /\ UNCHANGED <<prompts, contested, stopped>> /\ UNCHANGED Screen
      /\ LoopKnows(l) /\ l.pc \in UnderWay /\ batch \in Batches
  BY DEF MarkItem, BatchInv, BatchTypeOK, UnderWay
<1>2. PICK d \in l.due :
         /\ IsNext(l, d)
         /\ batch' \in {batch, [batch EXCEPT !.items[d.item] =
              [status |-> IF prompts[d.session] = "completed" THEN "SIGNED" ELSE "FAILED",
               session |-> d.session]]}
         /\ loops' = (loops \ {l}) \cup {[l EXCEPT !.pc = "settle", !.due = @ \ {d}]}
  BY DEF MarkItem, Becomes
<1>3. d.session \in Prompts /\ d.item \in Items
  BY <1>1 DEF Loops
<1>4. Final(prompts[d.session]) /\ batch.items[d.item].status # "PENDING"
  BY <1>1, <1>2 DEF LoopKnows
<1> DEFINE x == [status |-> IF prompts[d.session] = "completed" THEN "SIGNED" ELSE "FAILED", session |-> d.session]
           k == [l EXCEPT !.pc = "settle", !.due = @ \ {d}]
<1>5. /\ x \in ItemRecords /\ x.session = d.session
      /\ x.status = IF prompts[d.session] = "completed" THEN "SIGNED" ELSE "FAILED"
  BY <1>3 DEF ItemRecords, ItemStatuses
<1>6. k \in Loops /\ k.pc = "settle" /\ k.item = l.item /\ k.due = l.due \ {d}
  BY <1>1 DEF Loops, UnderWay
<1>7. loops' = (loops \ {l}) \cup {k} /\ batch' \in {batch, [batch EXCEPT !.items[d.item] = x]}
  BY <1>2
<1> HIDE DEF x, k
<1>8. /\ batch' \in Batches /\ (\A i \in Items \ {d.item} : batch'.items[i] = batch.items[i])
      /\ batch'.items[d.item] \in {batch.items[d.item], x}
  BY <1>1, <1>3, <1>5, <1>7, ItemWritten
<1>9. ASSUME batch'.items[d.item] = x PROVE batch'.items[d.item].status # "PENDING" /\ ItemOk(d.item)'
  BY <1>1, <1>3, <1>4, <1>5, <1>9 DEF ItemOk, Final
<1>10. \A r \in loops' : r.item = d.item => d.item \in contested'
  <2>1. \A r \in loops : HeldAlone(r)
    BY DEF BatchInv
  <2> QED
    BY <1>1, <1>3, <1>4, <1>6, <1>7, <2>1 DEF HeldAlone
<1>11. Onwards
  <2>1. ASSUME NEW i \in Items
        PROVE  \/ batch'.items[i] = batch.items[i]
               \/ /\ batch'.items[i].status # "PENDING" /\ ItemOk(i)'
                  /\ \A r \in loops' : r.item = i => i \in contested'
    BY <1>8, <1>9, <1>10
  <2> QED
    BY <1>1, <1>8, <2>1 DEF Onwards, BatchInv, BatchTypeOK
<1>12. \A e \in k.due : e.item \in Items /\ batch'.items[e.item].status # "PENDING"
  BY <1>1, <1>6, <1>11 DEF Onwards, LoopKnows, Loops
<1>13. LoopKnows(k)'
  BY <1>1, <1>6, <1>12 DEF LoopKnows
<1>14. OneLoopMoves(l, k)
  BY <1>1, <1>6, <1>7, <1>13 DEF OneLoopMoves, BatchInv, HeldAlone
<1> QED
  BY <1>1, <1>11, <1>14, ServerStep

(* The next item is picked: it is pending, and contested if another run has it. *)
LEMMA PickInv ==
  ASSUME BatchInv, NEW l \in loops, Pick(l)
  PROVE  BatchInv'
<1>1. /\ l \in Loops /\ l.pc = "settle" /\ l.due = {} /\ UNCHANGED <<batch, prompts, stopped>> /\ UNCHANGED Screen
      /\ l.pc \in UnderWay /\ batch \in Batches
  BY DEF Pick, BatchInv, BatchTypeOK, UnderWay
<1>2. CASE Undone(batch) = {}
  <2>1. Closing(batch) \in BatchStatuses /\ Closing(batch) # "RUNNING"
    BY DEF Closing, BatchStatuses
  <2>2. /\ loops' = (loops \ {l}) \cup {[l EXCEPT !.pc = "status", !.to = Closing(batch)]}
        /\ UNCHANGED contested
    BY <1>2 DEF Pick, Becomes
  <2>3. PICK k \in Loops : /\ loops' = (loops \ {l}) \cup {k} /\ k.pc = "status"
                           /\ k.item = l.item /\ k.due = l.due /\ k.to # "RUNNING"
    <3>1. LET k == [l EXCEPT !.pc = "status", !.to = Closing(batch)]
          IN  k \in Loops /\ k.pc = "status" /\ k.item = l.item /\ k.due = l.due /\ k.to # "RUNNING"
      BY <1>1, <2>1 DEF Loops, UnderWay
    <3> QED
      BY <2>2, <3>1
  <2>4. LoopKnows(k)'
    BY <1>1, <2>3 DEF LoopKnows, IsNext
  <2>5. Onwards
    BY <1>1, <2>2 DEF Onwards, BatchInv, BatchTypeOK
  <2>6. OneLoopMoves(l, k)
    BY <1>1, <2>2, <2>3, <2>4 DEF OneLoopMoves, BatchInv, HeldAlone
  <2> QED
    BY <1>1, <2>5, <2>6, ServerStep
<1>3. CASE Undone(batch) # {}
  <2> DEFINE i == NextItem(batch)
  <2>1. i \in Items /\ batch.items[i].status = "PENDING" /\ "RUNNING" \in BatchStatuses
    BY <1>3, NextItemIsUndone DEF BatchStatuses
  <2>2. /\ loops' = (loops \ {l}) \cup {[l EXCEPT !.pc = "status", !.to = "RUNNING", !.item = i]}
        /\ contested' = contested \cup {j \in {i} : \E r \in loops : r.item = i}
    BY <1>3 DEF Pick, Becomes
  <2> HIDE DEF i
  <2>3. PICK k \in Loops : /\ loops' = (loops \ {l}) \cup {k}
                           /\ k.pc = "status" /\ k.item = i /\ k.due = {}
    <3>1. LET k == [l EXCEPT !.pc = "status", !.to = "RUNNING", !.item = i]
          IN  k \in Loops /\ k.pc = "status" /\ k.item = i /\ k.due = {}
      BY <1>1, <2>1 DEF Loops, UnderWay
    <3> QED
      BY <2>2, <3>1
  <2>4. LoopKnows(k)'
    BY <2>1, <2>3 DEF LoopKnows, IsNext
  <2>5. Onwards
    BY <1>1, <2>1, <2>2 DEF Onwards, BatchInv, BatchTypeOK
  <2>6. OneLoopMoves(l, k)
    BY <2>1, <2>2, <2>3, <2>4 DEF OneLoopMoves
  <2> QED
    BY <1>1, <2>5, <2>6, ServerStep
<1> QED
  BY <1>2, <1>3

(* A loop that has its answer, or none to hear it, holds no item. *)
LEMMA RepliedMoves ==
  ASSUME BatchInv, NEW l \in loops, NEW s \in Prompts \cup {NoPrompt}, Replied(l, s),
         \A e \in l.due : batch'.items[e.item].status # "PENDING"
  PROVE  \E k : OneLoopMoves(l, k) /\ (k \in loops' => k.item = 0)
<1> DEFINE k == [l EXCEPT !.pc = "answer", !.item = 0, !.session = s, !.to = "DRAFT"]
<1>1. l \in Loops /\ LoopKnows(l)
  BY DEF BatchInv, BatchTypeOK
<1>2. k \in Loops /\ k.pc = "answer" /\ k.item = 0 /\ k.due = l.due
  BY <1>1 DEF Loops, BatchStatuses
<1>3. loops' \in {loops \ {l}, (loops \ {l}) \cup {k}}
  BY DEF Replied, Becomes, Ended
<1> HIDE DEF k
<1>4. LoopKnows(k)'
  BY <1>1, <1>2 DEF LoopKnows
<1>5. k.item \notin Items
  BY <1>2, BatchAssumption
<1> QED
  BY <1>2, <1>3, <1>4, <1>5 DEF OneLoopMoves

(* The status is written over whatever it was. *)
LEMMA SetStatusInv ==
  ASSUME BatchInv, NEW l \in loops, SetStatus(l)
  PROVE  BatchInv'
<1>1. /\ l \in Loops /\ l.pc = "status" /\ UNCHANGED <<prompts, contested, stopped>> /\ UNCHANGED Screen
      /\ l.pc \in UnderWay /\ batch \in Batches /\ LoopKnows(l) /\ l.to \in BatchStatuses
      /\ batch' = [batch EXCEPT !.status = l.to]
  BY DEF SetStatus, BatchInv, BatchTypeOK, UnderWay, Loops
<1>2. batch' \in Batches /\ batch'.items = batch.items
  BY <1>1, BatchIs
<1>3. Onwards
  BY <1>1, <1>2 DEF Onwards, BatchInv, BatchTypeOK
<1>4. CASE l.to = "RUNNING"
  <2> DEFINE k == [l EXCEPT !.pc = "push"]
  <2>1. k \in Loops /\ k.pc = "push" /\ k.item = l.item /\ k.due = l.due /\ k.item \in Items
    BY <1>1, <1>4 DEF Loops, UnderWay, LoopKnows
  <2>2. loops' = (loops \ {l}) \cup {k}
    BY <1>4 DEF SetStatus, Goes, Becomes
  <2> HIDE DEF k
  <2>3. LoopKnows(k)'
    BY <1>1, <1>2, <2>1 DEF LoopKnows
  <2>4. OneLoopMoves(l, k)
    BY <1>1, <2>1, <2>2, <2>3 DEF OneLoopMoves, BatchInv, HeldAlone
  <2> QED
    BY <1>1, <1>3, <2>4, ServerStep
<1>5. CASE l.to # "RUNNING"
  <2>1. \E k : OneLoopMoves(l, k)
    BY <1>1, <1>2, <1>5, RepliedMoves DEF SetStatus, LoopKnows
  <2> QED
    BY <1>1, <1>3, <2>1, ServerStep
<1> QED
  BY <1>4, <1>5

(* The prompt is pushed, and its session stored, or not. *)
LEMMA StartInv ==
  ASSUME BatchInv, NEW l \in loops, startBatchItem(l)
  PROVE  BatchInv'
<1>1. /\ l \in Loops /\ l.pc = "push" /\ UNCHANGED <<batch, contested, stopped>> /\ UNCHANGED Screen
      /\ l.pc \in UnderWay /\ LoopKnows(l) /\ l.item \in Items /\ prompts \in [Prompts -> PromptStates]
  BY DEF startBatchItem, BatchInv, BatchTypeOK, UnderWay, LoopKnows
<1>2. /\ prompts' \in [Prompts -> PromptStates]
      /\ \A s \in Prompts : Final(prompts[s]) => prompts'[s] = prompts[s]
  <2>1. CASE UNCHANGED prompts
    BY <1>1, <2>1
  <2>2. CASE \E s \in Prompts : Unpushed(s) /\ prompts' = [prompts EXCEPT ![s] = "pending"]
    BY <1>1, <2>2 DEF Unpushed, Final, PromptStates
  <2> QED
    BY <2>1, <2>2 DEF startBatchItem
<1>3. Onwards
  BY <1>1, <1>2 DEF Onwards, BatchInv, BatchTypeOK
<1>4. \E k \in Loops : /\ loops' = (loops \ {l}) \cup {k} /\ k.item = l.item /\ k.due = l.due
                       /\ k.pc = "failed" \/ (k.pc = "record" /\ k.session \in Prompts)
  <2>1. CASE \E s \in Prompts : loops' = (loops \ {l}) \cup {[l EXCEPT !.pc = "record", !.session = s]}
    <3>1. PICK s \in Prompts : loops' = (loops \ {l}) \cup {[l EXCEPT !.pc = "record", !.session = s]}
      BY <2>1
    <3> DEFINE k == [l EXCEPT !.pc = "record", !.session = s]
    <3>2. k \in Loops /\ k.pc = "record" /\ k.session \in Prompts /\ k.item = l.item /\ k.due = l.due
      BY <1>1 DEF Loops, UnderWay
    <3> QED
      BY <3>1, <3>2
  <2>2. CASE loops' = (loops \ {l}) \cup {[l EXCEPT !.pc = "failed"]}
    <3> DEFINE k == [l EXCEPT !.pc = "failed"]
    <3>1. k \in Loops /\ k.pc = "failed" /\ k.item = l.item /\ k.due = l.due
      BY <1>1 DEF Loops, UnderWay
    <3> QED
      BY <2>2, <3>1
  <2> QED
    BY <2>1, <2>2 DEF startBatchItem, Goes, Becomes
<1>5. PICK k \in Loops : /\ loops' = (loops \ {l}) \cup {k} /\ k.item = l.item /\ k.due = l.due
                         /\ k.pc = "failed" \/ (k.pc = "record" /\ k.session \in Prompts)
  BY <1>4
<1>6. LoopKnows(k)'
  BY <1>1, <1>5 DEF LoopKnows
<1>7. OneLoopMoves(l, k)
  BY <1>1, <1>5, <1>6 DEF OneLoopMoves, BatchInv, HeldAlone
<1> QED
  BY <1>1, <1>3, <1>7, ServerStep

(* A write of the item a run has, with an answer to its screen. *)
LEMMA ItemWrite ==
  ASSUME BatchInv, NEW l \in loops, l.pc \in UnderWay, l.item \in Items, NEW x \in ItemRecords,
         batch' \in {batch, [batch EXCEPT !.items[l.item] = x]}, x.status # "PENDING",
         batch'.items[l.item] = x => ItemOk(l.item)',
         NEW s \in Prompts \cup {NoPrompt}, Replied(l, s),
         UNCHANGED <<prompts, contested, stopped>>, UNCHANGED Screen
  PROVE  BatchInv'
<1>1. batch \in Batches /\ l \in Loops /\ LoopKnows(l)
  BY DEF BatchInv, BatchTypeOK
<1>2. /\ batch' \in Batches /\ (\A i \in Items \ {l.item} : batch'.items[i] = batch.items[i])
      /\ batch'.items[l.item] \in {batch.items[l.item], x}
  BY <1>1, ItemWritten
<1>3. \A e \in l.due : batch'.items[e.item].status # "PENDING"
  <2>1. \A e \in l.due : e.item \in Items
    BY <1>1 DEF Loops
  <2> QED
    BY <1>1, <1>2, <2>1 DEF LoopKnows
<1>4. PICK k : OneLoopMoves(l, k) /\ (k \in loops' => k.item = 0)
  BY <1>3, RepliedMoves
<1>5. \A r \in loops' : r.item = l.item => l.item \in contested'
  <2>1. l.item # 0
    BY BatchAssumption
  <2>2. \A r \in loops' : r = k \/ (r \in loops /\ r # l)
    BY <1>4 DEF OneLoopMoves
  <2> QED
    BY <1>4, <2>1, <2>2 DEF BatchInv, HeldAlone
<1>6. Onwards
  <2>1. ASSUME NEW i \in Items
        PROVE  \/ batch'.items[i] = batch.items[i]
               \/ /\ batch'.items[i].status # "PENDING" /\ ItemOk(i)'
                  /\ \A r \in loops' : r.item = i => i \in contested'
    BY <1>2, <1>5
  <2> QED
    BY <1>2, <2>1 DEF Onwards, BatchInv, BatchTypeOK
<1> QED
  BY <1>4, <1>6, ServerStep

(* The item runs with the session of its prompt, or has failed with the session it had. *)
LEMMA WritesInv ==
  ASSUME BatchInv, NEW l \in loops, SetItemRunning(l) \/ SetItemFailed(l)
  PROVE  BatchInv'
<1>1. /\ UNCHANGED <<prompts, contested, stopped>> /\ UNCHANGED Screen /\ batch \in Batches
      /\ l.pc \in UnderWay /\ LoopKnows(l) /\ l.item \in Items
  BY DEF SetItemRunning, SetItemFailed, BatchInv, BatchTypeOK, UnderWay, LoopKnows
<1>2. CASE SetItemRunning(l)
  <2> DEFINE x == [status |-> "RUNNING", session |-> l.session]
  <2>1. l.session \in Prompts
    BY <1>1, <1>2 DEF SetItemRunning, LoopKnows
  <2>2. x \in ItemRecords /\ x.status = "RUNNING" /\ x.session \in Prompts
    BY <2>1 DEF ItemRecords, ItemStatuses
  <2>3. batch' = [batch EXCEPT !.items[l.item] = x] /\ Replied(l, l.session)
    BY <1>2 DEF SetItemRunning
  <2> HIDE DEF x
  <2>4. batch'.items[l.item] = x => ItemOk(l.item)'
    BY <2>2 DEF ItemOk
  <2> QED
    BY <1>1, <2>1, <2>2, <2>3, <2>4, ItemWrite
<1>3. CASE SetItemFailed(l)
  <2> DEFINE x == [batch.items[l.item] EXCEPT !.status = "FAILED"]
  <2>1. x \in ItemRecords /\ x.status = "FAILED" /\ x.session = batch.items[l.item].session
    BY <1>1, BatchIs DEF ItemRecords, ItemStatuses
  <2>2. batch' \in {batch, [batch EXCEPT !.items[l.item] = x]} /\ Replied(l, NoPrompt)
    BY <1>3 DEF SetItemFailed
  <2> HIDE DEF x
  <2>3. l.item \notin contested => batch.items[l.item].session = NoPrompt
    BY <1>1 DEF BatchInv, HeldAlone, ItemOk
  <2>4. batch'.items[l.item] = x => ItemOk(l.item)'
    BY <1>1, <2>1, <2>3 DEF ItemOk
  <2> QED
    BY <1>1, <2>1, <2>2, <2>4, ItemWrite
<1> QED
  BY <1>2, <1>3

(* A run is one of these. *)
LEMMA RunInv ==
  ASSUME BatchInv, NEW l \in loops, Run(l)
  PROVE  BatchInv'
  BY ChecksInv, SettlesInv, MarkInv, PickInv, SetStatusInv, StartInv, WritesInv DEF Run

(* The citizen answers, or runs out of time, where no answer has been settled. *)
LEMMA CitizenInv == BatchInv /\ CitizenAnswers => BatchInv'
<1> SUFFICES ASSUME BatchInv, CitizenAnswers PROVE BatchInv'
  OBVIOUS
<1>1. UNCHANGED <<batch, contested, stopped, loops>> /\ UNCHANGED Screen
  BY DEF CitizenAnswers
<1>2. /\ prompts' \in [Prompts -> PromptStates]
      /\ \A s \in Prompts : Final(prompts[s]) => prompts'[s] = prompts[s]
  BY DEF CitizenAnswers, BatchInv, BatchTypeOK, PromptStates, Final
<1>3. BatchTypeOK'
  BY <1>1, <1>2 DEF BatchInv, BatchTypeOK, Screen
<1>4. \A i \in Items : ItemOk(i)'
  BY <1>1, <1>2 DEF BatchInv, ItemOk, Final
<1>5. ASSUME NEW l \in loops PROVE LoopKnows(l)'
  <2>1. LoopKnows(l) /\ \A d \in l.due : d.session \in Prompts
    BY DEF BatchInv, BatchTypeOK, Loops
  <2> QED
    BY <1>1, <1>2, <2>1 DEF LoopKnows, IsNext
<1>6. \A l \in loops : HeldAlone(l)'
  BY <1>1 DEF BatchInv, HeldAlone
<1> QED
  BY <1>1, <1>3, <1>4, <1>5, <1>6 DEF BatchInv

(* The screen reads the batch again. *)
LEMMA RefreshIs ==
  ASSUME BatchInv, Refresh
  PROVE  /\ seen' \in Buttons /\ open' \in BOOLEAN
         /\ visit' \in Visits
<1>1. seen' \in Buttons
  BY DEF Refresh, Read, Buttons
<1>2. open' \in BOOLEAN /\ visit' \in Visits
  BY BatchAssumption DEF Refresh, BatchInv, BatchTypeOK, Visits
<1> QED
  BY <1>1, <1>2

(* A loop on the screen's side: it ends, or goes on with what it has. *)
LEMMA LoopStep ==
  ASSUME BatchInv, NEW l \in loops, NEW k \in Loops,
         loops' \in {loops \ {l}, (loops \ {l}) \cup {k}},
         k.due = l.due, k.item = l.item,
         k.pc = l.pc \/ k.pc \in {"asked", "answer", "step", "watch", "settled", "cancelled"},
         k.pc = l.pc => k.to = l.to /\ k.session = l.session,
         k.pc = "watch" => k.session \in Prompts,
         prompts' \in [Prompts -> PromptStates], \A s \in Prompts : Final(prompts[s]) => prompts'[s] = prompts[s],
         UNCHANGED <<batch, contested, stopped, left>>, visit' \in Visits, open' \in BOOLEAN,
         seen' \in Buttons
  PROVE  BatchInv'
<1>1. l \in Loops /\ LoopKnows(l) /\ HeldAlone(l)
  BY DEF BatchInv, BatchTypeOK
<1>2. Onwards
  BY DEF Onwards, BatchInv, BatchTypeOK
<1>3. \A d \in l.due : d.session \in Prompts /\ (Final(prompts[d.session]) => Final(prompts'[d.session]))
  BY <1>1 DEF Loops
<1>4. LoopKnows(k)'
  <2>1. CASE k.pc = l.pc
    BY <1>1, <1>3, <2>1 DEF LoopKnows, IsNext
  <2>2. CASE k.pc \in {"asked", "answer", "step", "watch", "settled", "cancelled"}
    BY <1>1, <2>2 DEF LoopKnows
  <2> QED
    BY <2>1, <2>2
<1>5. OneLoopMoves(l, k)
  BY <1>1, <1>4 DEF OneLoopMoves, HeldAlone
<1>6. stopped' => batch'.status = "CANCELLED" /\ \A r \in loops' : r.pc \notin UnderWay
  <2>1. k.pc \in UnderWay => l.pc \in UnderWay
    BY DEF UnderWay
  <2> QED
    BY <2>1 DEF BatchInv
<1> QED
  BY <1>2, <1>5, <1>6, BatchStep DEF BatchInv, BatchTypeOK

(* The screen watches its session, reads the batch again, loses a call, or ends. *)
LEMMA LoopInv ==
  ASSUME BatchInv, NEW l \in loops,
         LoopEnds(l) \/ CallIsLost(l) \/ LoopRefreshes(l) \/ LoopSteps(l) \/ LoopWatches(l)
  PROVE  BatchInv'
<1>1. /\ UNCHANGED <<batch, contested, stopped, left>> /\ l \in Loops /\ prompts \in [Prompts -> PromptStates]
      /\ LoopKnows(l)
  BY DEF LoopEnds, CallIsLost, LoopRefreshes, LoopSteps, LoopWatches, BatchInv, BatchTypeOK, Screen
<1>2. /\ seen' \in Buttons /\ open' \in BOOLEAN
      /\ visit' \in Visits
  BY RefreshIs DEF LoopEnds, CallIsLost, LoopRefreshes, LoopSteps, LoopWatches, BatchInv, BatchTypeOK, Screen
<1>3. ASSUME NEW pc \in {"asked", "answer", "step", "watch", "settled", "cancelled"}
      PROVE  LET k == [l EXCEPT !.pc = pc] IN
             k \in Loops /\ k.pc = pc /\ k.due = l.due /\ k.item = l.item /\ k.to = l.to /\ k.session = l.session
  BY <1>1 DEF Loops
<1>4. CASE LoopEnds(l)
  <2>1. l \in Loops /\ loops' = loops \ {l} /\ UNCHANGED prompts
    BY <1>1, <1>4 DEF LoopEnds, Ended
  <2>2. l.pc # "watch"
    BY <1>4 DEF LoopEnds, AtServer, UnderWay
  <2> QED
    BY <1>1, <1>2, <2>1, <2>2, LoopStep
<1>5. CASE CallIsLost(l)
  <2> DEFINE k == [l EXCEPT !.visit = GivenUp]
  <2>1. /\ k \in Loops /\ k.pc = l.pc /\ k.due = l.due /\ k.item = l.item /\ k.to = l.to
        /\ k.session = l.session
    BY <1>1 DEF Loops
  <2>2. loops' = (loops \ {l}) \cup {k} /\ UNCHANGED prompts /\ l.pc # "watch"
    BY <1>5 DEF CallIsLost, Becomes, AtServer, UnderWay
  <2> HIDE DEF k
  <2> QED
    BY <1>1, <1>2, <2>1, <2>2, LoopStep
<1>6. CASE LoopRefreshes(l)
  <2> DEFINE on == [l EXCEPT !.pc = "step"]
             again == [l EXCEPT !.pc = "asked", !.session = NoPrompt]
  <2>1. /\ on \in Loops /\ on.pc = "step" /\ on.due = l.due /\ on.item = l.item
        /\ again \in Loops /\ again.pc = "asked" /\ again.due = l.due /\ again.item = l.item
    BY <1>1 DEF Loops
  <2>2. /\ UNCHANGED prompts /\ l.pc \notin {"step", "asked"}
        /\ loops' \in {loops \ {l}, (loops \ {l}) \cup {on}, (loops \ {l}) \cup {again}}
    BY <1>6 DEF LoopRefreshes, Goes, Becomes, Ended
  <2> HIDE DEF on, again
  <2>3. CASE loops' \in {loops \ {l}, (loops \ {l}) \cup {on}}
    BY <1>1, <1>2, <2>1, <2>2, <2>3, LoopStep
  <2>4. CASE loops' = (loops \ {l}) \cup {again}
    BY <1>1, <1>2, <2>1, <2>2, <2>4, LoopStep
  <2> QED
    BY <2>2, <2>3, <2>4
<1>7. CASE LoopSteps(l)
  <2> DEFINE k == [l EXCEPT !.pc = "watch"]
  <2>1. k \in Loops /\ k.pc = "watch" /\ k.due = l.due /\ k.item = l.item /\ k.session = l.session
    BY <1>3
  <2>2. /\ UNCHANGED prompts /\ l.pc = "step"
        /\ loops' = loops \ {l} \/ (loops' = (loops \ {l}) \cup {k} /\ l.session # NoPrompt)
    BY <1>7 DEF LoopSteps, Goes, Becomes, Ended
  <2> HIDE DEF k
  <2>3. CASE loops' = (loops \ {l}) \cup {k} /\ l.session # NoPrompt
    <3>1. k.session \in Prompts
      BY <1>1, <2>1, <2>3 DEF Loops
    <3> QED
      BY <1>1, <1>2, <2>1, <2>2, <2>3, <3>1, LoopStep
  <2>4. CASE loops' = loops \ {l}
    BY <1>1, <1>2, <2>2, <2>4, LoopStep
  <2> QED
    BY <2>2, <2>3, <2>4
<1>8. CASE LoopWatches(l)
  <2>1. l.pc = "watch" /\ l.session \in Prompts
    BY <1>1, <1>8 DEF LoopWatches, LoopKnows
  <2>2. /\ prompts' \in [Prompts -> PromptStates]
        /\ \A s \in Prompts : Final(prompts[s]) => prompts'[s] = prompts[s]
    BY <1>8, <2>1, PollsKeepTheEnd DEF LoopWatches
  <2> DEFINE k == [l EXCEPT !.pc = "settled"]
  <2>3. k \in Loops /\ k.pc = "settled" /\ k.due = l.due /\ k.item = l.item
    BY <1>3
  <2>4. loops' = (loops \ {l}) \cup {k} \/ loops' = (loops \ {l}) \cup {l}
    BY <1>8 DEF LoopWatches, Goes, Becomes
  <2> HIDE DEF k
  <2>5. CASE loops' = (loops \ {l}) \cup {k}
    BY <1>1, <1>2, <2>1, <2>2, <2>3, <2>5, LoopStep
  <2>6. CASE loops' = (loops \ {l}) \cup {l}
    BY <1>1, <1>2, <2>1, <2>2, <2>6, LoopStep
  <2> QED
    BY <2>4, <2>5, <2>6
<1> QED
  BY <1>4, <1>5, <1>6, <1>7, <1>8

(* A cancellation is stored: it counts as one that stopped the batch when no run was past its check. *)
LEMMA CancelInv ==
  ASSUME BatchInv, NEW l \in loops, CancelServed(l)
  PROVE  BatchInv'
<1> DEFINE k == [l EXCEPT !.pc = "cancelled"]
<1>1. /\ l \in Loops /\ l.pc = "cancel" /\ LoopKnows(l) /\ HeldAlone(l) /\ batch \in Batches
      /\ UNCHANGED <<prompts, contested>> /\ UNCHANGED Screen
      /\ batch' = [batch EXCEPT !.status = "CANCELLED"]
      /\ stopped' = (stopped \/ \A r \in loops : r.pc \notin UnderWay)
      /\ loops' \in {loops \ {l}, (loops \ {l}) \cup {k}}
  BY DEF CancelServed, BatchInv, BatchTypeOK, Goes, Becomes, Ended
<1>2. k \in Loops /\ k.pc = "cancelled" /\ k.due = l.due /\ k.item = l.item
  BY <1>1 DEF Loops
<1> HIDE DEF k
<1>3. batch' \in Batches /\ batch'.items = batch.items /\ batch'.status = "CANCELLED"
  BY <1>1, BatchIs DEF BatchStatuses
<1>4. Onwards
  BY <1>1, <1>3 DEF Onwards, BatchInv, BatchTypeOK
<1>5. LoopKnows(k)'
  BY <1>1, <1>2, <1>3 DEF LoopKnows
<1>6. OneLoopMoves(l, k)
  BY <1>1, <1>2, <1>5 DEF OneLoopMoves, HeldAlone
<1>7. stopped' => \A r \in loops' : r.pc \notin UnderWay
  <2>1. stopped' => \A r \in loops : r.pc \notin UnderWay
    BY <1>1 DEF BatchInv
  <2>2. k.pc \notin UnderWay
    BY <1>2 DEF UnderWay
  <2> QED
    BY <1>1, <2>1, <2>2
<1>8. stopped' \in BOOLEAN
  BY <1>1 DEF BatchInv, BatchTypeOK
<1> QED
  BY <1>1, <1>3, <1>4, <1>6, <1>7, <1>8, BatchStep DEF BatchInv, BatchTypeOK, Screen

(* A loop that begins holds nothing. *)
LEMMA NewLoopInv ==
  ASSUME BatchInv, NEW pc \in {"asked", "cancel"}, LoopRoom, loops' = loops \cup {NewLoop(pc)},
         left' \subseteq Visits, UNCHANGED <<batch, prompts, visit, open, seen, contested, stopped>>
  PROVE  BatchInv'
<1>1. PICK k \in Loops : k.pc = pc /\ k.item = 0 /\ k.due = {} /\ loops' = loops \cup {k}
  <2>1. (CHOOSE n \in FreeSlots : TRUE) \in Slots
    BY DEF LoopRoom, FreeSlots
  <2>2. NewLoop(pc) \in Loops /\ NewLoop(pc).pc = pc /\ NewLoop(pc).item = 0 /\ NewLoop(pc).due = {}
    BY <2>1 DEF NewLoop, Loops, BatchInv, BatchTypeOK, BatchStatuses
  <2> QED
    BY <2>2
<1>2. LoopKnows(k)'
  BY <1>1 DEF LoopKnows, IsNext
<1>3. k.item \notin Items
  BY <1>1, BatchAssumption
<1>4. k.pc \notin UnderWay
  BY <1>1 DEF UnderWay
<1>5. BatchTypeOK'
  BY <1>1 DEF BatchInv, BatchTypeOK
<1>6. \A i \in Items : ItemOk(i)'
  BY DEF BatchInv, ItemOk
<1>7. \A l \in loops : LoopKnows(l)'
  BY DEF BatchInv, LoopKnows, IsNext
<1>8. ASSUME NEW l \in loops' PROVE HeldAlone(l)'
  BY <1>1, <1>3 DEF BatchInv, HeldAlone
<1>9. stopped' => batch'.status = "CANCELLED" /\ \A l \in loops' : l.pc \notin UnderWay
  BY <1>1, <1>4 DEF BatchInv
<1> QED
  BY <1>1, <1>2, <1>5, <1>6, <1>7, <1>8, <1>9 DEF BatchInv

(* The operator starts, cancels, leaves and comes back. *)
LEMMA OperatorInv ==
  BatchInv /\ (runBatch \/ cancelBatch \/ BackToBatches \/ OpenBatch) => BatchInv'
<1> SUFFICES ASSUME BatchInv, runBatch \/ cancelBatch \/ BackToBatches \/ OpenBatch PROVE BatchInv'
  OBVIOUS
<1>1. CASE runBatch
  BY <1>1, NewLoopInv DEF runBatch, BatchInv, BatchTypeOK
<1>2. CASE cancelBatch
  BY <1>2, NewLoopInv DEF cancelBatch, BatchInv, BatchTypeOK
<1>3. CASE BackToBatches \/ OpenBatch
  <2>1. /\ UNCHANGED <<batch, prompts, loops, contested, stopped>> /\ left' \subseteq Visits
        /\ seen' \in Buttons /\ open' \in BOOLEAN /\ visit' \in Visits
    BY <1>3, RefreshIs DEF BackToBatches, OpenBatch, BatchInv, BatchTypeOK
  <2>2. BatchTypeOK'
    BY <2>1 DEF BatchInv, BatchTypeOK
  <2>3. \A i \in Items : ItemOk(i)'
    BY <2>1 DEF BatchInv, ItemOk
  <2>4. \A l \in loops : LoopKnows(l)' /\ HeldAlone(l)'
    BY <2>1 DEF BatchInv, LoopKnows, HeldAlone, IsNext
  <2> QED
    BY <2>1, <2>2, <2>3, <2>4 DEF BatchInv
<1> QED
  BY <1>1, <1>2, <1>3

(* Every step keeps the invariant. *)
LEMMA BatchNextInv ==
  ASSUME BatchInv, [BatchNext /\ UNCHANGED route]_<<route, batchVars>>
  PROVE  BatchInv'
<1>1. CASE BatchNext
  BY <1>1, RunInv, CancelInv, CitizenInv, LoopInv, OperatorInv DEF BatchNext
<1>2. CASE UNCHANGED <<route, batchVars>>
  <2>1. BatchTypeOK'
    BY <1>2 DEF batchVars, BatchInv, BatchTypeOK
  <2>2. \A i \in Items : ItemOk(i)'
    BY <1>2 DEF batchVars, BatchInv, ItemOk
  <2>3. \A l \in loops : LoopKnows(l)' /\ HeldAlone(l)'
    BY <1>2 DEF batchVars, BatchInv, LoopKnows, HeldAlone, IsNext
  <2> QED
    BY <1>2, <2>1, <2>2, <2>3 DEF batchVars, BatchInv
<1> QED
  BY <1>1, <1>2

(* The inductive invariant of the batch screen, for any number of items, prompts, visits and loops. *)
THEOREM BatchInvariance == BatchSpec => []BatchInv
  BY BatchInitInv, BatchNextInv, PTL DEF BatchSpec

(* A document is signed when its session was approved, and failed when it was refused, ran out or was
   never begun: whatever cancellations and lost calls do to the batch, and for any number of runs at
   a time, as long as no two have picked the document at once. *)
THEOREM ItemsTellTheirCeremonies == BatchSpec => []ItemTellsItsCeremony
<1>1. BatchInv => ItemTellsItsCeremony
  BY DEF BatchInv, ItemOk, ItemTellsItsCeremony
<1> QED
  BY <1>1, BatchInvariance, PTL

(* A cancellation stored while no run is past its check holds for good, and nothing is pushed after it. *)
THEOREM CancellationsStay == BatchSpec => []CancelledStays
<1>1. BatchInv => CancelledStays
  BY DEF BatchInv, CancelledStays, UnderWay
<1> QED
  BY <1>1, BatchInvariance, PTL
-----------------------------------------------------------------------------
(* A step of the console is a step of the screen that is mounted, and none of any other. *)
LEMMA StepsOfTheConsole ==
  ASSUME [FrontNext]_frontVars
  PROVE  /\ [ListNext /\ UNCHANGED route]_<<route, listVars>>
         /\ [CardNext /\ UNCHANGED route]_<<route, cardVars>>
         /\ [TablesNext /\ UNCHANGED route]_<<route, tableVars>>
         /\ [TypesNext /\ UNCHANGED route]_<<route, typeVars>>
         /\ [QueueNext /\ UNCHANGED route]_<<route, queueVars>>
         /\ [BatchNext /\ UNCHANGED route]_<<route, batchVars>>
         /\ [FormsNext /\ UNCHANGED route]_<<route, formVars>>
         /\ [ShellNext /\ UNCHANGED route]_<<route, shellVars>>
         /\ route' = route
         /\ route \notin Cards => UNCHANGED cardVars
         /\ route \notin DOMAIN Screens => UNCHANGED formVars
<1>1. CASE UNCHANGED frontVars
  BY <1>1 DEF frontVars
<1>2. CASE FrontNext
  BY <1>2 DEF FrontNext, OnList, OnCard, OnTables, OnTypes, OnQueue, OnBatch, OnForms, OnShell
<1> QED
  BY <1>1, <1>2

(* The console is each of its screens: its behaviours are theirs, the others left out. *)
THEOREM ConsoleIsItsScreens ==
  FrontSpec => /\ ListSpec /\ CardSpec /\ TablesSpec /\ TypesSpec
               /\ QueueSpec /\ BatchSpec /\ FormsSpec /\ ShellSpec
<1>1. FrontInit => /\ ListInit /\ CardInit /\ TablesInit /\ TypesInit
                   /\ QueueInit /\ BatchInit /\ FormsInit /\ ShellInit
  BY DEF FrontInit
<1> QED
  BY <1>1, StepsOfTheConsole, PTL DEF FrontSpec, ListSpec, CardSpec, TablesSpec, TypesSpec,
                                      QueueSpec, BatchSpec, FormsSpec, ShellSpec

(* Cards and forms have invariants of those that are mounted; the others stay as they were. *)
AsMounted ==
    /\ route \in Routes
    /\ route \notin Cards => CardInit
    /\ IF IsScreen THEN FormsTyped ELSE FormsInit

(* They are, and do. *)
LEMMA MountedOrInitial == FrontSpec => []AsMounted
<1>1. FrontInit => AsMounted
  BY FormsTypedInit DEF FrontInit, AsMounted
<1>2. AsMounted /\ [FrontNext]_frontVars => AsMounted'
  <2> SUFFICES ASSUME AsMounted, [FrontNext]_frontVars PROVE AsMounted'
    OBVIOUS
  <2>1. /\ route' = route /\ [FormsNext /\ UNCHANGED route]_<<route, formVars>>
        /\ route \notin Cards => UNCHANGED cardVars
        /\ ~IsScreen => UNCHANGED formVars
    BY StepsOfTheConsole DEF IsScreen
  <2>2. IsScreen' <=> IsScreen
    BY <2>1 DEF IsScreen
  <2>3. route' \in Routes
    BY <2>1 DEF AsMounted, Routes, Screens
  <2>4. route \notin Cards => CardInit'
    BY <2>1 DEF AsMounted, CardInit, cardVars
  <2>5. IsScreen => FormsTyped'
    BY <2>1, FormsTypedNext DEF AsMounted
  <2>6. ~IsScreen => FormsInit'
    BY <2>1 DEF AsMounted, FormsInit, formVars
  <2> QED
    BY <2>1, <2>2, <2>3, <2>4, <2>5, <2>6 DEF AsMounted
<1> QED
  BY <1>1, <1>2, PTL DEF FrontSpec

(* Whichever screen is mounted keeps its types, for any values of all the bounds. *)
THEOREM ConsoleTypesHold == FrontSpec => []FrontendTypeOK
<1>1. /\ AsMounted /\ ListTypeOK /\ CardTypeOK /\ TablesInv /\ TypesInv /\ QueueTypeOK /\ BatchInv /\ ShellTypeOK
      => FrontendTypeOK
  <2>1. /\ TablesInv => TablesTypeOK
        /\ TypesInv => TypesTypeOK
        /\ BatchInv => BatchTypeOK
        /\ FormsTyped => FormsTypeOK
    BY DEF TablesInv, TypesInv, BatchInv, FormsTyped
  <2> QED
    BY <2>1 DEF AsMounted, IsScreen, Routes, FrontendTypeOK
<1> QED
  BY <1>1, MountedOrInitial, ConsoleIsItsScreens, ListTypesHold, CardTypesHold, TablesInvariance,
     TypesInvariance, QueueTypesHold, BatchInvariance, ShellTypeCorrect, PTL

(* A form that is not mounted has read nothing, and a card that is not waits for nobody. *)
LEMMA MountedKeepPromises ==
  AsMounted /\ (route \in Cards => WaitingIsWatched) => OwnWritesShow /\ WaitingIsWatched
<1>1. FormsInit => OwnWritesShow
  BY DEF FormsInit, OwnWritesShow, Settled
<1>2. FormsTyped => OwnWritesShow
  BY DEF FormsTyped, FormsInv, RacedByLanguage, AloneIsFresh, OwnWritesShow, Settled, UpToDate
<1>3. CardInit => WaitingIsWatched
  BY DEF CardInit, WaitingIsWatched, Watchers
<1> QED
  BY <1>1, <1>2, <1>3 DEF AsMounted

(* The console keeps what each of its screens promises. *)
THEOREM ConsoleKeepsPromises ==
  FrontSpec => [](/\ ShowsTheLastQuestion /\ WalkSkipsNothing /\ EmptyIsAnswered
                  /\ WaitingIsWatched
                  /\ UseIsOfHeld /\ OperatorsRowsKept
                  /\ TypedWorkIsKept /\ CountBelongsToTerm
                  /\ ActedOnWhatWasSeen /\ OfferedIsAccepted /\ OpenChildIsAwaited
                  /\ ItemTellsItsCeremony /\ CancelledStays /\ OwnWritesShow
                  /\ NeverStuck /\ ScreensAreOfTheSession)
<1>1. FrontSpec => /\ []ShowsTheLastQuestion /\ []WalkSkipsNothing /\ []EmptyIsAnswered
                   /\ [](route \in Cards => WaitingIsWatched)
                   /\ []UseIsOfHeld /\ []OperatorsRowsKept /\ []TypedWorkIsKept /\ []CountBelongsToTerm
  BY ConsoleIsItsScreens, TableAnswersTheLastQuestion, WalksSkipNothing, EmptyWasAnswered,
     EveryWaitIsWatched, UseActsOnWhatIsHeld, OperatorsRowsStay, TypedWorkStays,
     CountsBelongToTheirTerm, PTL
<1>2. FrontSpec => /\ []ActedOnWhatWasSeen /\ []OfferedIsAccepted /\ []OpenChildIsAwaited
                   /\ []ItemTellsItsCeremony /\ []CancelledStays
                   /\ []NeverStuck /\ []ScreensAreOfTheSession
  BY ConsoleIsItsScreens, ActionsAreOnWhatWasSeen, OffersAreAccepted, OpenChildrenAreAwaited,
     ItemsTellTheirCeremonies, CancellationsStay, NoTabIsStuck, ScreensShowWhoSignedIn, PTL
<1> QED
  BY <1>1, <1>2, MountedOrInitial, MountedKeepPromises, PTL

(* It refreshes a list without changing its question, and its cards are the abstract card. *)
THEOREM ConsoleStepsAreAllowed == FrontSpec => RefreshKeepsQuestion /\ CardIsAttempt
<1>1. FrontSpec /\ route \in Cards => CardIsAttempt
  BY ConsoleIsItsScreens, CardsImplementAttempt, PTL
<1>2. FrontSpec /\ ~(route \in Cards) => CardIsAttempt
  <2>1. FrontInit => AbstractCard!AttemptInit
    BY DEF FrontInit, CardInit, AbstractCard!AttemptInit
  <2>2. ~(route \in Cards) /\ [FrontNext]_frontVars => ~(route \in Cards)'
    BY StepsOfTheConsole
  <2>3. ~(route \in Cards) /\ [FrontNext]_frontVars
        => [AbstractCard!Turn \/ AbstractCard!Moves]_AbstractCard!attemptVars
    BY StepsOfTheConsole DEF cardVars, AbstractCard!attemptVars, Ticketed
  <2> QED
    BY <2>1, <2>2, <2>3, PTL DEF FrontSpec, CardIsAttempt, AbstractCard!AttemptSpec
<1> QED
  BY <1>1, <1>2, ConsoleIsItsScreens, RefreshesKeepTheQuestion, PTL
=============================================================================
