-------------------------- MODULE TaskQueueProofs --------------------------
(***************************************************************************)
(* Proofs about TaskQueue, for any tree of tasks, whichever of them require *)
(* verification: work under way below is always awaited above, an officer's *)
(* action takes effect only on the status they saw, and what the screen     *)
(* offers the server takes.                                                 *)
(*                                                                          *)
(* The first is inductive: no action is taken on a level that waits.  The   *)
(* others rest on what a row knows: a task never goes back to a version, so *)
(* a row of its version is a row of its status (Evolved).  A completion may *)
(* change many levels at once, and both facts are carried up the tree by    *)
(* induction on how far it has climbed.                                     *)
(***************************************************************************)
EXTENDS TaskQueue, WellFoundedInduction, NaturalsInduction, FiniteSetTheorems, TLAPS

(* The trees of tasks. *)
Trees == [Tasks -> [status : TaskStatuses, version : Nat, parent : Tasks \cup {0}]]

(* OpenChildIsAwaited, of any tree. *)
Awaited(ts) ==
    \A t \in Tasks : ts[t].parent # 0 /\ ts[t].status \in Active => ts[ts[t].parent].status = "FORWARDED"

(* A task is never deleted, its version never falls, and its status never changes
   without it. *)
Evolved(ts, us) ==
    \A t \in Tasks : ts[t].status # "none" =>
        /\ us[t].status # "none"
        /\ us[t].version >= ts[t].version
        /\ us[t].version = ts[t].version => us[t].status = ts[t].status
-----------------------------------------------------------------------------
(* Induction over sets of numbers. *)
LEMMA SetInduction ==
  ASSUME NEW S, 0 \in S, \A n \in Nat : n \in S => n + 1 \in S
  PROVE  Nat \subseteq S
<1> DEFINE less == {p \in Nat \X Nat : p[1] < p[2]}
           T == Nat \ S
<1>1. IsWellFoundedOn(less, Nat)
  BY NatLessThanWellFounded DEF OpToRel
<1> SUFFICES ASSUME T # {} PROVE FALSE
  OBVIOUS
<1>2. PICK n \in T : \A m \in T : <<m, n>> \notin less
  <2> HIDE DEF less
  <2> QED
    BY <1>1, WFMin
<1>3. n \in Nat \ {0} /\ n - 1 \in Nat /\ (n - 1) + 1 = n
  OBVIOUS
<1>4. n - 1 \notin T
  <2> SUFFICES ASSUME n - 1 \in T PROVE <<n - 1, n>> \in less
    BY <1>2
  <2> QED
    BY <1>3
<1> QED
  BY <1>2, <1>3, <1>4

(* A climb is the same however far it is followed, and can always be followed further. *)
LEMMA LevelsExist ==
  ASSUME NEW s
  PROVE  \E f : f = [k \in Nat |-> IF k = 0 THEN s ELSE climb(f[k - 1])]
<1> DEFINE To(n, g) == g = [k \in 0..n |-> IF k = 0 THEN s ELSE climb(g[k - 1])]
<1>1. ASSUME NEW n \in Nat, NEW m \in Nat, n <= m, NEW g, NEW h, To(n, g), To(m, h)
      PROVE  \A k \in 0..n : g[k] = h[k]
  <2> DEFINE S == {k \in Nat : k <= n => g[k] = h[k]}
  <2>1. 0 \in S
    <3>1. g[0] = s
      BY <1>1
    <3>2. h[0] = s
      BY <1>1
    <3> QED
      BY <3>1, <3>2
  <2>2. ASSUME NEW k \in Nat, k \in S PROVE k + 1 \in S
    <3> SUFFICES ASSUME k + 1 <= n PROVE g[k + 1] = h[k + 1]
      OBVIOUS
    <3>1. g[k] = h[k] /\ k + 1 \in 0..n /\ k + 1 \in 0..m /\ k + 1 # 0 /\ (k + 1) - 1 = k
      BY <1>1, <2>2
    <3>2. g[k + 1] = climb(g[k])
      BY <1>1, <3>1
    <3>3. h[k + 1] = climb(h[k])
      BY <1>1, <3>1
    <3> QED
      BY <3>1, <3>2, <3>3
  <2>3. Nat \subseteq S
    <3> HIDE DEF S
    <3> QED
      BY <2>1, <2>2, SetInduction
  <2> QED
    BY <2>3
<1>2. \A n \in Nat : \E g : To(n, g)
  <2> DEFINE S == {n \in Nat : \E g : To(n, g)}
  <2>1. 0 \in S
    <3>1. To(0, [k \in 0..0 |-> s])
      OBVIOUS
    <3> QED
      BY <3>1
  <2>2. ASSUME NEW n \in Nat, n \in S PROVE n + 1 \in S
    <3>1. PICK g : To(n, g)
      BY <2>2
    <3> DEFINE h == [k \in 0..(n + 1) |-> IF k = n + 1 THEN climb(g[n]) ELSE g[k]]
    <3>2. ASSUME NEW k \in 0..(n + 1) PROVE h[k] = IF k = 0 THEN s ELSE climb(h[k - 1])
      <4>1. CASE k = n + 1
        <5>1. h[k] = climb(g[n]) /\ h[k - 1] = g[n] /\ k # 0
          BY <4>1
        <5> QED
          BY <5>1
      <4>2. CASE k # n + 1 /\ k # 0
        <5>1. k \in 0..n /\ k - 1 \in 0..n /\ k - 1 # n + 1
          BY <4>2
        <5>2. g[k] = climb(g[k - 1])
          BY <3>1, <4>2, <5>1
        <5>3. h[k] = g[k] /\ h[k - 1] = g[k - 1]
          BY <4>2, <5>1
        <5> QED
          BY <4>2, <5>2, <5>3
      <4>3. CASE k = 0
        <5>1. g[0] = s /\ h[0] = g[0]
          BY <3>1
        <5> QED
          BY <4>3, <5>1
      <4> QED
        BY <4>1, <4>2, <4>3
    <3>3. To(n + 1, h)
      <4>1. h = [k \in 0..(n + 1) |-> h[k]]
        OBVIOUS
      <4> HIDE DEF h
      <4> QED
        BY <3>2, <4>1
    <3> HIDE DEF h
    <3> QED
      BY <3>3
  <2>3. Nat \subseteq S
    <3> HIDE DEF S
    <3> QED
      BY <2>1, <2>2, SetInduction
  <2> QED
    BY <2>3
<1> DEFINE upTo(n) == CHOOSE g : To(n, g)
           f == [n \in Nat |-> upTo(n)[n]]
<1>3. \A n \in Nat : To(n, upTo(n))
  BY <1>2
<1>4. ASSUME NEW n \in Nat PROVE f[n] = IF n = 0 THEN s ELSE climb(f[n - 1])
  <2> HIDE DEF upTo
  <2>1. CASE n = 0
    BY <1>3, <2>1
  <2>2. CASE n # 0
    <3>1. n - 1 \in Nat /\ n - 1 <= n /\ n - 1 \in 0..(n - 1) /\ n \in 0..n
      BY <2>2
    <3>2. To(n, upTo(n)) /\ To(n - 1, upTo(n - 1))
      BY <1>3, <3>1
    <3>3. upTo(n)[n] = climb(upTo(n)[n - 1])
      BY <2>2, <3>1, <3>2
    <3>4. upTo(n - 1)[n - 1] = upTo(n)[n - 1]
      <4> HIDE DEF To
      <4> QED
        BY <1>1, <3>1, <3>2
    <3> QED
      BY <2>2, <3>1, <3>3, <3>4
  <2> QED
    BY <2>1, <2>2
<1> HIDE DEF f
<1>5. f = [n \in Nat |-> f[n]]
  BY DEF f
<1> QED
  BY <1>4, <1>5

(* The climb stops where it ends, so that it may be followed step by step. *)
LEMMA PropagationClimbs ==
  ASSUME NEW ts, NEW id
  PROVE  \E f : /\ f[0] = [ts |-> ts, at |-> ts[id].parent]
                /\ \A k \in Nat : f[k + 1] = climb(f[k])
                /\ propagateCompletion(ts, id) = f[Cardinality(Tasks)].ts
<1> DEFINE s == [ts |-> ts, at |-> ts[id].parent]
           f == CHOOSE f : f = [k \in Nat |-> IF k = 0 THEN s ELSE climb(f[k - 1])]
<1>1. f = [k \in Nat |-> IF k = 0 THEN s ELSE climb(f[k - 1])]
  <2> HIDE DEF s
  <2> QED
    BY LevelsExist
<1>2. propagateCompletion(ts, id) = f[Cardinality(Tasks)].ts
  BY DEF propagateCompletion
<1> HIDE DEF f
<1>3. f[0] = s
  BY <1>1
<1>4. ASSUME NEW k \in Nat PROVE f[k + 1] = climb(f[k])
  <2>1. k + 1 \in Nat /\ k + 1 # 0 /\ (k + 1) - 1 = k
    OBVIOUS
  <2> QED
    BY <1>1, <2>1
<1> QED
  BY <1>2, <1>3, <1>4
-----------------------------------------------------------------------------
(* A completion on its way up. *)
Climbs == [ts : Trees, at : Tasks \cup {0}]

(* One status changes, and its version with it. *)
LEMMA OneMoves ==
  ASSUME NEW ts \in Trees, NEW id \in Tasks, NEW status \in TaskStatuses \ {"none"}, ts[id].status # "none"
  PROVE  /\ updateTaskStatus(ts, id, status) \in Trees
         /\ Evolved(ts, updateTaskStatus(ts, id, status))
         /\ updateTaskStatus(ts, id, status)[id].status = status
         /\ updateTaskStatus(ts, id, status)[id].parent = ts[id].parent
         /\ \A t \in Tasks \ {id} : updateTaskStatus(ts, id, status)[t] = ts[t]
<1> DEFINE us == updateTaskStatus(ts, id, status)
<1>1. us = [ts EXCEPT ![id] = [ts[id] EXCEPT !.status = status, !.version = @ + 1]]
  BY DEF updateTaskStatus, Trees
<1> HIDE DEF us
<1>2. ts[id] \in [status : TaskStatuses, version : Nat, parent : Tasks \cup {0}]
  BY DEF Trees
<1>3. PICK v : v = [ts[id] EXCEPT !.status = status, !.version = @ + 1]
  OBVIOUS
<1>4. /\ v \in [status : TaskStatuses, version : Nat, parent : Tasks \cup {0}]
      /\ v.status = status /\ v.version = ts[id].version + 1 /\ v.parent = ts[id].parent
  <2>1. PICK u : u = [ts[id] EXCEPT !.status = status]
    OBVIOUS
  <2>2. /\ u \in [status : TaskStatuses, version : Nat, parent : Tasks \cup {0}]
        /\ u.status = status /\ u.version = ts[id].version /\ u.parent = ts[id].parent
    BY <1>2, <2>1
  <2>3. v = [u EXCEPT !.version = ts[id].version + 1] /\ ts[id].version + 1 \in Nat
    BY <1>2, <1>3, <2>1
  <2> QED
    BY <2>2, <2>3
<1>5. us = [ts EXCEPT ![id] = v]
  BY <1>1, <1>3
<1>6. us \in Trees /\ us[id] = v /\ \A t \in Tasks \ {id} : us[t] = ts[t]
  BY <1>4, <1>5 DEF Trees
<1>7. \A t \in Tasks : ts[t].version \in Nat
  BY DEF Trees
<1>8. Evolved(ts, us)
  BY <1>2, <1>4, <1>6, <1>7 DEF Evolved
<1> QED
  BY <1>4, <1>6, <1>8 DEF us

(* The tree evolves from a state to a later one through those between. *)
LEMMA EvolvedOn ==
  ASSUME NEW ts \in Trees, NEW us \in Trees, NEW vs \in Trees, Evolved(ts, us), Evolved(us, vs)
  PROVE  Evolved(ts, vs)
<1>1. \A t \in Tasks : ts[t].version \in Nat /\ us[t].version \in Nat /\ vs[t].version \in Nat
  BY DEF Trees
<1> QED
  BY <1>1 DEF Evolved

(* A tree that stands still has evolved. *)
LEMMA EvolvedSame ==
  ASSUME NEW ts \in Trees
  PROVE  Evolved(ts, ts)
<1>1. \A t \in Tasks : ts[t].version \in Nat
  BY DEF Trees
<1> QED
  BY <1>1 DEF Evolved

(* Changing one level leaves everything awaited, when nothing under way hangs from it,
   and it was under way itself or no longer is. *)
LEMMA OneMovesAwaited ==
  ASSUME NEW ts \in Trees, NEW id \in Tasks, NEW status \in TaskStatuses \ {"none"}, Awaited(ts),
         ts[id].status # "none",
         \A c \in Tasks : ts[c].parent = id => ts[c].status \notin Active,
         status \in Active => ts[id].status \in Active
  PROVE  Awaited(updateTaskStatus(ts, id, status))
<1> DEFINE us == updateTaskStatus(ts, id, status)
<1>1. /\ us[id].status = status /\ us[id].parent = ts[id].parent
      /\ \A t \in Tasks \ {id} : us[t] = ts[t]
  BY OneMoves
<1> HIDE DEF us
<1>2. \A t \in Tasks : ts[t].parent \in Tasks \cup {0} /\ us[t].parent = ts[t].parent
  BY <1>1 DEF Trees
<1>3. ASSUME NEW t \in Tasks, us[t].parent # 0, us[t].status \in Active
      PROVE  us[us[t].parent].status = "FORWARDED"
  <2>1. ts[t].status \in Active
    BY <1>1, <1>3
  <2>2. ts[ts[t].parent].status = "FORWARDED" /\ ts[t].parent # id /\ ts[t].parent \in Tasks
    BY <1>2, <1>3, <2>1 DEF Awaited
  <2> QED
    BY <1>1, <1>2, <2>2
<1> QED
  BY <1>3 DEF Awaited, us

(* One level up. *)
LEMMA ClimbKeeps ==
  ASSUME NEW s \in Climbs, Awaited(s.ts)
  PROVE  climb(s) \in Climbs /\ Awaited(climb(s).ts) /\ Evolved(s.ts, climb(s).ts)
<1>1. s.ts \in Trees /\ s.at \in Tasks \cup {0}
  BY DEF Climbs
<1>2. CASE s.at = 0 \/ ~AllChildrenDone(s.ts, s.at)
  <2>1. climb(s) = [ts |-> s.ts, at |-> 0]
    BY <1>2 DEF climb
  <2> QED
    BY <1>1, <2>1, EvolvedSame DEF Climbs
<1>3. CASE s.at # 0 /\ AllChildrenDone(s.ts, s.at)
  <2> DEFINE next == nextForParent(s.ts, s.at)
             us   == updateTaskStatus(s.ts, s.at, next)
  <2>1. s.at \in Tasks /\ s.ts[s.at].status = "FORWARDED" /\ s.ts[s.at].parent \in Tasks \cup {0}
    BY <1>1, <1>3 DEF AllChildrenDone, Trees
  <2>2. next \in TaskStatuses \ {"none"}
    BY DEF nextForParent, TaskStatuses, Active
  <2>3. us \in Trees /\ Evolved(s.ts, us)
    <3> HIDE DEF next
    <3> QED
      BY <1>1, <2>1, <2>2, OneMoves
  <2>4. Awaited(us)
    <3>1. \A c \in Tasks : s.ts[c].parent = s.at => s.ts[c].status \notin Active
      BY <1>3 DEF AllChildrenDone
    <3>2. s.ts[s.at].status \in Active /\ s.ts[s.at].status # "none"
      BY <2>1 DEF Active
    <3> HIDE DEF next
    <3> QED
      BY <1>1, <2>1, <2>2, <3>1, <3>2, OneMovesAwaited
  <2>5. climb(s) = [ts |-> us, at |-> IF next = "COMPLETED" THEN s.ts[s.at].parent ELSE 0]
    BY <1>3 DEF climb
  <2> HIDE DEF us, next
  <2> QED
    BY <2>1, <2>3, <2>4, <2>5 DEF Climbs
<1> QED
  BY <1>2, <1>3

(* However far a completion climbs. *)
LEMMA PropagationKeeps ==
  ASSUME NEW ts \in Trees, NEW id \in Tasks, Awaited(ts)
  PROVE  /\ propagateCompletion(ts, id) \in Trees
         /\ Awaited(propagateCompletion(ts, id))
         /\ Evolved(ts, propagateCompletion(ts, id))
<1>1. PICK f : /\ f[0] = [ts |-> ts, at |-> ts[id].parent]
               /\ \A k \in Nat : f[k + 1] = climb(f[k])
               /\ propagateCompletion(ts, id) = f[Cardinality(Tasks)].ts
  BY PropagationClimbs
<1> DEFINE S == {k \in Nat : f[k] \in Climbs /\ Awaited(f[k].ts) /\ Evolved(ts, f[k].ts)}
<1>2. 0 \in S
  <2>1. f[0] \in Climbs /\ f[0].ts = ts
    BY <1>1 DEF Climbs, Trees
  <2> QED
    BY <2>1, EvolvedSame
<1>3. ASSUME NEW k \in Nat, k \in S PROVE k + 1 \in S
  <2>1. f[k] \in Climbs /\ f[k].ts \in Trees /\ f[k + 1] = climb(f[k])
    BY <1>1, <1>3 DEF Climbs
  <2>2. climb(f[k]) \in Climbs /\ Awaited(climb(f[k]).ts) /\ Evolved(f[k].ts, climb(f[k]).ts)
    BY <1>3, <2>1, ClimbKeeps
  <2>3. climb(f[k]).ts \in Trees
    BY <2>2 DEF Climbs
  <2>4. Evolved(ts, climb(f[k]).ts)
    BY <1>3, <2>1, <2>2, <2>3, EvolvedOn
  <2> QED
    BY <2>1, <2>2, <2>4
<1>4. Cardinality(Tasks) \in Nat
  BY TasksAssumption, FS_CardinalityType
<1>5. Cardinality(Tasks) \in S
  <2> HIDE DEF S
  <2> QED
    BY <1>2, <1>3, <1>4, SetInduction
<1> QED
  BY <1>1, <1>5 DEF Climbs
-----------------------------------------------------------------------------
(* What the table of transitions never does: act on a level that waits for another, make
   a task out of nothing, or bring one back that had come to an end. *)
LEMMA Transitions ==
  ASSUME NEW action \in TaskActions
  PROVE  /\ "FORWARDED" \notin baseTransitions[action].from /\ "none" \notin baseTransitions[action].from
         /\ baseTransitions[action].to \in TaskStatuses \ {"none"}
         /\ baseTransitions[action].to \in Active => baseTransitions[action].from \subseteq Active
         /\ action = "complete" => baseTransitions[action].from \subseteq Active
         /\ action = "delegate" => baseTransitions[action].to = "FORWARDED"
  BY DEF TaskActions, baseTransitions, Cancellable, TaskStatuses, Active, Terminal

(* One transition, with its cascade or the child it makes. *)
LEMMA ActKeeps ==
  ASSUME tasks \in Trees, Awaited(tasks), NEW id \in Tasks, NEW action \in TaskActions, Act(id, action)
  PROVE  tasks' \in Trees /\ Awaited(tasks') /\ Evolved(tasks, tasks')
<1> DEFINE to    == resolveTransition(id, action)
           moved == updateTaskStatus(tasks, id, to)
<1>1. tasks[id].status \in baseTransitions[action].from
  BY DEF Act, Accepts
<1>2. tasks[id].status # "FORWARDED" /\ tasks[id].status # "none"
  BY <1>1, Transitions
<1>3. to \in TaskStatuses \ {"none"} /\ (to \in Active => tasks[id].status \in Active)
  <2>1. CASE action = "complete" /\ id \in Verified
    BY <1>1, <2>1, Transitions DEF resolveTransition, TaskStatuses, Active
  <2>2. CASE ~(action = "complete" /\ id \in Verified)
    BY <1>1, <2>2, Transitions DEF resolveTransition
  <2> QED
    BY <2>1, <2>2
<1>4. \A c \in Tasks : tasks[c].parent = id => tasks[c].status \notin Active
  <2>1. id # 0
    BY TasksAssumption
  <2> QED
    BY <1>2, <2>1 DEF Awaited
<1>5. moved \in Trees /\ Evolved(tasks, moved) /\ Awaited(moved)
  <2> HIDE DEF to
  <2> QED
    BY <1>2, <1>3, <1>4, OneMoves, OneMovesAwaited
<1>6. CASE action # "delegate"
  <2>1. tasks' = IF to = "COMPLETED" THEN propagateCompletion(moved, id) ELSE moved
    BY <1>6 DEF Act
  <2>2. CASE to = "COMPLETED"
    <3> HIDE DEF moved
    <3>1. /\ propagateCompletion(moved, id) \in Trees
          /\ Awaited(propagateCompletion(moved, id))
          /\ Evolved(moved, propagateCompletion(moved, id))
      BY <1>5, PropagationKeeps
    <3> QED
      BY <1>5, <2>1, <2>2, <3>1, EvolvedOn
  <2>3. CASE to # "COMPLETED"
    <3> HIDE DEF moved
    <3> QED
      BY <1>5, <2>1, <2>3
  <2> QED
    BY <2>2, <2>3
<1>7. CASE action = "delegate"
  <2>1. PICK c \in NextTask : tasks' = [moved EXCEPT ![c] = [status |-> "RECEIVED", version |-> 0, parent |-> id]]
    BY <1>7 DEF Act
  <2>2. c \in Tasks /\ tasks[c].status = "none" /\ c # id
    BY <1>2 DEF NextTask
  <2>3. to = "FORWARDED"
    BY <1>7, Transitions DEF resolveTransition
  <2>4. moved[id].status = "FORWARDED" /\ moved[c] = tasks[c]
    <3> HIDE DEF to
    <3> QED
      BY <1>2, <1>3, <2>2, <2>3, OneMoves
  <2> HIDE DEF moved
  <2>5. /\ tasks' \in Trees
        /\ tasks'[c] = [status |-> "RECEIVED", version |-> 0, parent |-> id]
        /\ \A t \in Tasks \ {c} : tasks'[t] = moved[t]
    BY <1>5, <2>1, <2>2 DEF Trees, TaskStatuses, Active
  <2>6. Evolved(tasks, tasks')
    BY <1>5, <2>2, <2>5 DEF Evolved
  <2>7. ASSUME NEW t \in Tasks, tasks'[t].parent # 0, tasks'[t].status \in Active
        PROVE  tasks'[tasks'[t].parent].status = "FORWARDED"
    <3>1. CASE t = c
      BY <2>2, <2>4, <2>5, <3>1
    <3>2. CASE t # c
      <4>1. moved[t].parent \in Tasks /\ moved[moved[t].parent].status = "FORWARDED" /\ tasks'[t] = moved[t]
        BY <1>5, <2>5, <2>7, <3>2 DEF Awaited, Trees
      <4>2. moved[t].parent # c
        BY <2>2, <2>4, <4>1
      <4> QED
        BY <2>5, <4>1, <4>2
    <3> QED
      BY <3>1, <3>2
  <2> QED
    BY <2>5, <2>6, <2>7 DEF Awaited
<1> QED
  BY <1>6, <1>7
-----------------------------------------------------------------------------
(* What a row on screen, or on its way there, knows of its task. *)
Knows(row) ==
    /\ row.id \in Tasks /\ row.status # "none" /\ row.version \in Nat
    /\ tasks[row.id].status # "none"
    /\ tasks[row.id].version >= row.version
    /\ tasks[row.id].version = row.version => tasks[row.id].status = row.status

(* Actions in flight are records, whatever their other fields hold. *)
ActsAreRecords == \A a \in acting : {"pc", "n", "done", "from", "saw"} \subseteq DOMAIN a

(* The inductive invariant of the task queue. *)
QueueInv ==
    /\ tasks \in Trees
    /\ Awaited(tasks)
    /\ \A row \in queue : Knows(row)
    /\ \A l \in asking : \A row \in l.rows : Knows(row)
    /\ ActsAreRecords
    /\ ActedOnWhatWasSeen

(* What is read is true when it is read. *)
LEMMA GetTasksKnows ==
  ASSUME tasks \in Trees, NEW filter
  PROVE  \A row \in getTasks(filter) : Knows(row)
  BY DEF getTasks, Knows, Trees

(* However the tree evolves, what is known of it stays true. *)
LEMMA KnowsStays ==
  ASSUME tasks \in Trees, tasks' \in Trees, Evolved(tasks, tasks'), NEW row, Knows(row)
  PROVE  Knows(row)'
<1>1. tasks[row.id].version \in Nat /\ tasks'[row.id].version \in Nat
  BY DEF Knows, Trees
<1> QED
  BY <1>1 DEF Knows, Evolved

(* At first there is one task, and nobody waits for another. *)
LEMMA QueueInitInv == QueueInit => QueueInv
<1> SUFFICES ASSUME QueueInit PROVE QueueInv
  OBVIOUS
<1>1. tasks \in Trees /\ Awaited(tasks)
  BY DEF QueueInit, Trees, TaskStatuses, Active, Awaited
<1>2. \A l \in asking : l.rows = getTasks(Whole)
  BY DEF QueueInit
<1> QED
  BY <1>1, <1>2, GetTasksKnows DEF QueueInit, QueueInv, ActsAreRecords, ActedOnWhatWasSeen

(* The officer at the screen, and the others. *)
LEMMA ActStepKeeps ==
  ASSUME QueueInv, NEW row \in queue, NEW action \in TaskActions, act(row, action)
  PROVE  QueueInv'
<1>1. PICK answer \in Answers, done \in BOOLEAN :
         /\ IF done THEN tasks[row.id].version = row.version /\ Act(row.id, action)
                    ELSE UNCHANGED <<tasks, moves>>
         /\ acting' = acting \cup {[id |-> row.id, action |-> action, saw |-> row.status,
                                    from |-> tasks[row.id].status, done |-> done, filter |-> statusFilter,
                                    pc |-> IF answer = "ok" THEN "ok" ELSE "failed", n |-> 0]}
  BY DEF act
<1>2. Knows(row) /\ row.id \in Tasks
  BY DEF QueueInv, Knows
<1>3. tasks' \in Trees /\ Awaited(tasks') /\ Evolved(tasks, tasks')
  <2>1. CASE done
    BY <1>1, <1>2, <2>1, ActKeeps DEF QueueInv
  <2>2. CASE ~done
    BY <1>1, <2>2, EvolvedSame DEF QueueInv
  <2> QED
    BY <2>1, <2>2
<1>4. /\ \A r \in queue' : Knows(r)'
      /\ \A l \in asking' : \A r \in l.rows : Knows(r)'
  BY <1>3, KnowsStays DEF QueueInv, act
<1>5. ActsAreRecords' /\ ActedOnWhatWasSeen'
  BY <1>1, <1>2 DEF QueueInv, ActsAreRecords, ActedOnWhatWasSeen, Knows
<1> QED
  BY <1>3, <1>4, <1>5 DEF QueueInv

(* The others: the tree evolves under the screen. *)
LEMMA AnotherKeeps ==
  ASSUME QueueInv, AnotherOfficer
  PROVE  QueueInv'
<1>1. tasks' \in Trees /\ Awaited(tasks') /\ Evolved(tasks, tasks')
  BY ActKeeps DEF AnotherOfficer, QueueInv
<1>2. /\ \A r \in queue' : Knows(r)'
      /\ \A l \in asking' : \A r \in l.rows : Knows(r)'
  BY <1>1, KnowsStays DEF QueueInv, AnotherOfficer
<1> QED
  BY <1>1, <1>2 DEF QueueInv, AnotherOfficer, ActsAreRecords, ActedOnWhatWasSeen

(* The screen reads, and is told. *)
LEMMA ScreenKeeps ==
  ASSUME QueueInv, UNCHANGED tasks,
         \A r \in queue' : r \in queue \/ \E l \in asking : r \in l.rows,
         \A l \in asking' : l \in asking \/ \E filter : l.rows = getTasks(filter),
         \A b \in acting' : \/ b \in acting
                            \/ \E a \in acting : /\ {"pc", "n", "done", "from", "saw"} \subseteq DOMAIN b
                                                 /\ b.done = a.done /\ b.from = a.from /\ b.saw = a.saw
  PROVE  QueueInv'
<1>1. \A r : Knows(r) => Knows(r)'
  BY DEF Knows
<1>2. \A r \in queue' : Knows(r)
  BY DEF QueueInv
<1>3. \A l \in asking' : \A r \in l.rows : Knows(r)
  BY GetTasksKnows DEF QueueInv
<1>4. ActsAreRecords' /\ ActedOnWhatWasSeen'
  BY DEF QueueInv, ActsAreRecords, ActedOnWhatWasSeen
<1> QED
  BY <1>1, <1>2, <1>3, <1>4 DEF QueueInv

(* Every step of the queue keeps the invariant. *)
LEMMA QueueNextKeeps ==
  ASSUME QueueInv, QueueNext
  PROVE  QueueInv'
<1>1. ASSUME NEW l \in asking, QueueLands(l) PROVE QueueInv'
  BY <1>1, ScreenKeeps DEF QueueLands, AskOver
<1>2. ASSUME NEW s, setStatusFilter(s) PROVE QueueInv'
  <2>1. \A l \in asking' : l \in asking \/ \E filter : l.rows = getTasks(filter)
    BY <1>2 DEF setStatusFilter, Asks
  <2> QED
    BY <1>2, <2>1, ScreenKeeps DEF setStatusFilter
<1>3. ASSUME NEW a \in acting, Acted(a) PROVE QueueInv'
  <2>1. \A l \in asking' : l \in asking \/ \E filter : l.rows = getTasks(filter)
    BY <1>3 DEF Acted, Asks
  <2>2. PICK b : b = [a EXCEPT !.pc = "load", !.n = asked + 1]
    OBVIOUS
  <2>3. /\ {"pc", "n", "done", "from", "saw"} \subseteq DOMAIN b
        /\ b.done = a.done /\ b.from = a.from /\ b.saw = a.saw
    BY <2>2 DEF QueueInv, ActsAreRecords
  <2>4. acting' = (acting \ {a}) \cup {b}
    BY <1>3, <2>2 DEF Acted
  <2> QED
    BY <1>3, <2>1, <2>3, <2>4, ScreenKeeps DEF Acted
<1>4. ASSUME NEW a \in acting, ActRefused(a) PROVE QueueInv'
  BY <1>4, ScreenKeeps DEF ActRefused
<1> QED
  BY <1>1, <1>2, <1>3, <1>4, AnotherKeeps, ActStepKeeps DEF QueueNext
-----------------------------------------------------------------------------
(* The inductive invariant: open children are awaited, and whatever row the screen holds, or is
   on its way to it, was true of its task at the version it has. *)
THEOREM QueueInvariance == QueueSpec => []QueueInv
<1>1. QueueInv /\ [QueueNext /\ UNCHANGED route]_<<route, queueVars>> => QueueInv'
  <2>1. ASSUME QueueInv, UNCHANGED queueVars PROVE QueueInv'
    BY <2>1 DEF queueVars, QueueInv, Knows, ActsAreRecords, ActedOnWhatWasSeen
  <2> QED
    BY <2>1, QueueNextKeeps
<1> QED
  BY <1>1, QueueInitInv, PTL DEF QueueSpec

(* Work under way below is always awaited above. *)
THEOREM OpenChildrenAreAwaited == QueueSpec => []OpenChildIsAwaited
<1>1. QueueInv => OpenChildIsAwaited
  BY DEF QueueInv, Awaited, OpenChildIsAwaited
<1> QED
  BY <1>1, QueueInvariance, PTL

(* An action takes effect only on the status its row showed. *)
THEOREM ActionsAreOnWhatWasSeen == QueueSpec => []ActedOnWhatWasSeen
<1>1. QueueInv => ActedOnWhatWasSeen
  BY DEF QueueInv
<1> QED
  BY <1>1, QueueInvariance, PTL

(* What a row offers is accepted, unless its task has moved since. *)
THEOREM OffersAreAccepted == QueueSpec => []OfferedIsAccepted
<1>1. \A status, action : action \in availableActions(status) => status \in baseTransitions[action].from
  BY DEF availableActions, actionsOf, baseTransitions, Cancellable
<1>2. QueueInv => OfferedIsAccepted
  BY <1>1 DEF QueueInv, Knows, OfferedIsAccepted, Accepts
<1> QED
  BY <1>2, QueueInvariance, PTL
-----------------------------------------------------------------------------
(* No task has moved more often than there were transitions. *)
CountedMoves == moves \in 0..MaxMoves /\ \A t \in Tasks : tasks[t].version <= moves

(* While a completion climbs: a level that still waits has not been moved by it. *)
Within(ts, n) ==
    \A t \in Tasks : ts[t].version <= n + 1 /\ (ts[t].status = "FORWARDED" => ts[t].version <= n)

(* One level up: only one that waited is moved, and it waits no longer. *)
LEMMA ClimbStaysWithin ==
  ASSUME NEW n \in Nat, NEW s \in Climbs, Within(s.ts, n)
  PROVE  climb(s) \in Climbs /\ Within(climb(s).ts, n)
<1>1. s.ts \in Trees /\ s.at \in Tasks \cup {0}
  BY DEF Climbs
<1>2. CASE s.at = 0 \/ ~AllChildrenDone(s.ts, s.at)
  <2>1. climb(s) = [ts |-> s.ts, at |-> 0]
    BY <1>2 DEF climb
  <2> QED
    BY <1>1, <2>1 DEF Climbs
<1>3. CASE s.at # 0 /\ AllChildrenDone(s.ts, s.at)
  <2> DEFINE next == nextForParent(s.ts, s.at)
             us   == updateTaskStatus(s.ts, s.at, next)
  <2>1. s.at \in Tasks /\ s.ts[s.at].status = "FORWARDED" /\ s.ts[s.at].parent \in Tasks \cup {0}
    BY <1>1, <1>3 DEF AllChildrenDone, Trees
  <2>2. next \in TaskStatuses \ {"none", "FORWARDED"}
    BY DEF nextForParent, TaskStatuses, Active
  <2>3. climb(s) = [ts |-> us, at |-> IF next = "COMPLETED" THEN s.ts[s.at].parent ELSE 0]
    BY <1>3 DEF climb
  <2> HIDE DEF next
  <2>4. us \in Trees /\ us[s.at].status = next /\ \A t \in Tasks \ {s.at} : us[t] = s.ts[t]
    BY <1>1, <2>1, <2>2, OneMoves
  <2>5. us[s.at].version = s.ts[s.at].version + 1
    BY <1>1, <2>1 DEF updateTaskStatus, Trees
  <2>6. s.ts[s.at].version \in Nat /\ s.ts[s.at].version <= n
    BY <1>1, <2>1 DEF Within, Trees
  <2> HIDE DEF us
  <2>7. Within(us, n)
    BY <2>2, <2>4, <2>5, <2>6 DEF Within
  <2> QED
    BY <2>1, <2>3, <2>4, <2>7 DEF Climbs
<1> QED
  BY <1>2, <1>3

(* However far a completion climbs. *)
LEMMA PropagationStaysWithin ==
  ASSUME NEW n \in Nat, NEW ts \in Trees, NEW id \in Tasks, Within(ts, n)
  PROVE  Within(propagateCompletion(ts, id), n)
<1>1. PICK f : /\ f[0] = [ts |-> ts, at |-> ts[id].parent]
               /\ \A k \in Nat : f[k + 1] = climb(f[k])
               /\ propagateCompletion(ts, id) = f[Cardinality(Tasks)].ts
  BY PropagationClimbs
<1> DEFINE S == {k \in Nat : f[k] \in Climbs /\ Within(f[k].ts, n)}
<1>2. 0 \in S
  <2>1. f[0] \in Climbs /\ f[0].ts = ts
    BY <1>1 DEF Climbs, Trees
  <2> QED
    BY <2>1
<1>3. ASSUME NEW k \in Nat, k \in S PROVE k + 1 \in S
  BY <1>1, <1>3, ClimbStaysWithin
<1>4. Cardinality(Tasks) \in Nat
  BY TasksAssumption, FS_CardinalityType
<1>5. Cardinality(Tasks) \in S
  <2> HIDE DEF S
  <2> QED
    BY <1>2, <1>3, <1>4, SetInduction
<1> QED
  BY <1>1, <1>5

(* A transition moves each task at most once. *)
LEMMA ActCounts ==
  ASSUME tasks \in Trees, Awaited(tasks), CountedMoves, NEW id \in Tasks, NEW action \in TaskActions, Act(id, action)
  PROVE  CountedMoves'
<1> DEFINE to    == resolveTransition(id, action)
           moved == updateTaskStatus(tasks, id, to)
<1>1. moves \in Nat /\ moves' = moves + 1 /\ moves' \in 0..MaxMoves
  BY TasksAssumption DEF CountedMoves, Act
<1>2. tasks[id].status # "none" /\ to \in TaskStatuses \ {"none"}
  <2>1. tasks[id].status \in baseTransitions[action].from
    BY DEF Act, Accepts
  <2> QED
    BY <2>1, Transitions DEF resolveTransition, TaskStatuses, Active
<1> HIDE DEF to
<1>3. /\ moved \in Trees /\ moved[id].status = to
      /\ \A t \in Tasks \ {id} : moved[t] = tasks[t]
  BY <1>2, OneMoves
<1>4. moved[id].version = tasks[id].version + 1
  BY DEF updateTaskStatus, Trees
<1>5. \A t \in Tasks : tasks[t].version \in Nat /\ tasks[t].version <= moves
  BY DEF CountedMoves, Trees
<1> HIDE DEF moved
<1>6. \A t \in Tasks : moved[t].version <= moves + 1
  BY <1>1, <1>3, <1>4, <1>5
<1>7. CASE action = "delegate"
  <2>1. PICK c \in NextTask : tasks' = [moved EXCEPT ![c] = [status |-> "RECEIVED", version |-> 0, parent |-> id]]
    BY <1>7 DEF Act, moved, to
  <2>2. \A t \in Tasks : tasks'[t].version = IF t = c THEN 0 ELSE moved[t].version
    BY <1>3, <2>1 DEF Trees
  <2> QED
    BY <1>1, <1>6, <2>2 DEF CountedMoves
<1>8. CASE action # "delegate"
  <2>1. tasks' = IF to = "COMPLETED" THEN propagateCompletion(moved, id) ELSE moved
    BY <1>8 DEF Act, moved, to
  <2>2. CASE to = "COMPLETED"
    <3>1. Within(moved, moves)
      BY <1>1, <1>3, <1>5, <1>6, <2>2 DEF Within
    <3>2. Within(tasks', moves)
      BY <1>1, <1>3, <2>1, <2>2, <3>1, PropagationStaysWithin
    <3> QED
      BY <1>1, <3>2 DEF CountedMoves, Within
  <2>3. CASE to # "COMPLETED"
    BY <1>1, <1>6, <2>1, <2>3 DEF CountedMoves
  <2> QED
    BY <2>2, <2>3
<1> QED
  BY <1>7, <1>8

(* The tree within its bounds, and the other variables of their types. *)
QueueTyped == QueueInv /\ CountedMoves /\ QueueTypeOK

(* A tree within the bound is one of the type's. *)
LEMMA TreeTyped ==
  ASSUME NEW ts \in Trees, NEW n \in 0..MaxMoves, \A t \in Tasks : ts[t].version <= n
  PROVE  ts \in [Tasks -> [status : TaskStatuses, version : 0..MaxMoves, parent : Tasks \cup {0}]]
<1>1. ASSUME NEW t \in Tasks PROVE ts[t] \in [status : TaskStatuses, version : 0..MaxMoves, parent : Tasks \cup {0}]
  <2>1. ts[t] \in [status : TaskStatuses, version : Nat, parent : Tasks \cup {0}] /\ ts[t].version \in Nat
    BY DEF Trees
  <2>2. ts[t].version \in 0..MaxMoves
    BY <2>1, TasksAssumption
  <2> QED
    BY <2>1, <2>2
<1> QED
  BY <1>1 DEF Trees

(* What is read are rows. *)
LEMMA GetTasksTyped ==
  ASSUME QueueTypeOK, NEW filter
  PROVE  getTasks(filter) \subseteq QueueRows
  BY DEF QueueTypeOK, getTasks, QueueRows

(* A load that begins has a number within the bound. *)
LEMMA AsksTyped ==
  ASSUME QueueTypeOK, NEW filter, Asks(filter)
  PROVE  /\ asked' \in 1..MaxAsked /\ asked + 1 \in 0..MaxAsked
         /\ asking' \subseteq QueueLoads
<1>1. asked \in 1..MaxAsked /\ asked < MaxAsked /\ MaxAsked \in Nat
  BY TasksAssumption DEF QueueTypeOK, Asks
<1>2. asked + 1 \in 1..MaxAsked /\ asked + 1 \in 0..MaxAsked
  BY <1>1
<1>3. [n |-> asked + 1, rows |-> getTasks(filter)] \in QueueLoads
  BY <1>2, GetTasksTyped DEF QueueLoads
<1> QED
  BY <1>2, <1>3 DEF Asks, QueueTypeOK

(* An action of the officer at the screen. *)
LEMMA ActTyped ==
  ASSUME QueueTyped, NEW row \in queue, NEW action \in TaskActions, act(row, action)
  PROVE  CountedMoves' /\ QueueTypeOK'
<1>1. PICK answer \in Answers, done \in BOOLEAN :
         /\ IF done THEN tasks[row.id].version = row.version /\ Act(row.id, action)
                    ELSE UNCHANGED <<tasks, moves>>
         /\ acting' = acting \cup {[id |-> row.id, action |-> action, saw |-> row.status,
                                    from |-> tasks[row.id].status, done |-> done, filter |-> statusFilter,
                                    pc |-> IF answer = "ok" THEN "ok" ELSE "failed", n |-> 0]}
  BY DEF act
<1>2. row.id \in Tasks /\ row.status \in TaskStatuses /\ tasks[row.id].status \in TaskStatuses
  BY DEF QueueTyped, QueueTypeOK, QueueRows
<1>3. CountedMoves'
  BY <1>1, <1>2, ActCounts DEF QueueTyped, QueueInv, CountedMoves
<1>4. QueueInv'
  BY ActStepKeeps DEF QueueTyped
<1>5. tasks' \in [Tasks -> [status : TaskStatuses, version : 0..MaxMoves, parent : Tasks \cup {0}]]
  <2>1. tasks' \in Trees
    BY <1>4 DEF QueueInv
  <2> QED
    BY <1>3, <2>1, TreeTyped DEF CountedMoves
<1>6. acting' \subseteq QueueActs
  <2>1. 0 \in 0..MaxAsked
    BY TasksAssumption
  <2> QED
    BY <1>1, <1>2, <2>1 DEF QueueTyped, QueueTypeOK, QueueActs
<1>7. UNCHANGED <<queue, statusFilter, ready, asked, asking>> /\ busyTask' = row.id
  BY DEF act
<1> QED
  BY <1>2, <1>3, <1>5, <1>6, <1>7 DEF QueueTyped, QueueTypeOK, CountedMoves

(* Another officer's. *)
LEMMA AnotherTyped ==
  ASSUME QueueTyped, AnotherOfficer
  PROVE  CountedMoves' /\ QueueTypeOK'
<1>1. CountedMoves'
  BY ActCounts DEF QueueTyped, QueueInv, AnotherOfficer
<1>2. QueueInv'
  BY AnotherKeeps DEF QueueTyped
<1>3. tasks' \in [Tasks -> [status : TaskStatuses, version : 0..MaxMoves, parent : Tasks \cup {0}]]
  <2>1. tasks' \in Trees
    BY <1>2 DEF QueueInv
  <2> QED
    BY <1>1, <2>1, TreeTyped DEF CountedMoves
<1> QED
  BY <1>1, <1>3 DEF QueueTyped, QueueTypeOK, AnotherOfficer, CountedMoves

(* The screen asks, and is answered. *)
LEMMA ScreenTyped ==
  ASSUME QueueTyped,
         \/ \E l \in asking : QueueLands(l)
         \/ \E s \in {Whole, "RECEIVED"} : setStatusFilter(s)
         \/ \E a \in acting : Acted(a) \/ ActRefused(a)
  PROVE  CountedMoves' /\ QueueTypeOK'
<1>1. UNCHANGED <<tasks, moves>>
  BY DEF QueueLands, setStatusFilter, Acted, ActRefused
<1>2. CountedMoves'
  BY <1>1 DEF QueueTyped, CountedMoves
<1>3. ASSUME NEW l \in asking, QueueLands(l) PROVE QueueTypeOK'
  BY <1>1, <1>3 DEF QueueTyped, QueueTypeOK, QueueLands, AskOver, QueueLoads
<1>4. ASSUME NEW s \in {Whole, "RECEIVED"}, setStatusFilter(s) PROVE QueueTypeOK'
  <2>1. s \in TaskStatuses \cup {Whole}
    BY DEF TaskStatuses, Active
  <2>2. asked' \in 1..MaxAsked /\ asking' \subseteq QueueLoads
    BY <1>4, AsksTyped DEF QueueTyped, setStatusFilter
  <2>3. statusFilter' = s /\ UNCHANGED <<queue, ready, busyTask, acting>>
    BY <1>4 DEF setStatusFilter
  <2> QED
    BY <1>1, <2>1, <2>2, <2>3 DEF QueueTyped, QueueTypeOK
<1>5. ASSUME NEW a \in acting, Acted(a) PROVE QueueTypeOK'
  <2>1. asked' \in 1..MaxAsked /\ asking' \subseteq QueueLoads /\ asked + 1 \in 0..MaxAsked
    BY <1>5, AsksTyped DEF QueueTyped, Acted
  <2>2. a \in QueueActs
    BY DEF QueueTyped, QueueTypeOK
  <2>3. [a EXCEPT !.pc = "load", !.n = asked + 1] \in QueueActs
    BY <2>1, <2>2 DEF QueueActs
  <2>4. /\ acting' = (acting \ {a}) \cup {[a EXCEPT !.pc = "load", !.n = asked + 1]}
        /\ UNCHANGED <<queue, statusFilter, ready, busyTask>>
    BY <1>5 DEF Acted
  <2> QED
    BY <1>1, <2>1, <2>3, <2>4 DEF QueueTyped, QueueTypeOK
<1>6. ASSUME NEW a \in acting, ActRefused(a) PROVE QueueTypeOK'
  BY <1>1, <1>6 DEF QueueTyped, QueueTypeOK, ActRefused
<1> QED
  BY <1>2, <1>3, <1>4, <1>5, <1>6

(* For any tree of tasks: the tasks, the rows, the loads and the actions have their types, and no
   task has a version above the number of transitions made, whatever its children completed. *)
THEOREM QueueTypesHold == QueueSpec => []QueueTypeOK
<1>1. QueueInit => QueueTyped
  <2> SUFFICES ASSUME QueueInit PROVE QueueTyped
    OBVIOUS
  <2>1. QueueInv
    BY QueueInitInv
  <2>2. 0 \in 0..MaxMoves /\ 1 \in 1..MaxAsked /\ 1 \in Tasks
    BY TasksAssumption
  <2>3. CountedMoves
    BY <2>2 DEF QueueInit, CountedMoves
  <2>4. tasks \in [Tasks -> [status : TaskStatuses, version : 0..MaxMoves, parent : Tasks \cup {0}]]
    BY <2>1, <2>3, TreeTyped DEF QueueInv, CountedMoves
  <2>5. getTasks(Whole) \subseteq QueueRows
    BY <2>4 DEF getTasks, QueueRows
  <2>6. asking \subseteq QueueLoads
    BY <2>2, <2>5 DEF QueueInit, QueueLoads
  <2> QED
    BY <2>1, <2>2, <2>3, <2>4, <2>6 DEF QueueInit, QueueTyped, QueueTypeOK
<1>2. QueueTyped /\ [QueueNext /\ UNCHANGED route]_<<route, queueVars>> => QueueTyped'
  <2> SUFFICES ASSUME QueueTyped, [QueueNext /\ UNCHANGED route]_<<route, queueVars>> PROVE QueueTyped'
    OBVIOUS
  <2>1. CASE UNCHANGED queueVars
    BY <2>1 DEF queueVars, QueueTyped, QueueInv, Knows, ActsAreRecords, ActedOnWhatWasSeen, CountedMoves, QueueTypeOK
  <2>2. CASE QueueNext
    <3>1. QueueInv'
      BY <2>2, QueueNextKeeps DEF QueueTyped
    <3>2. CountedMoves' /\ QueueTypeOK'
      BY <2>2, ActTyped, AnotherTyped, ScreenTyped DEF QueueNext
    <3> QED
      BY <3>1, <3>2 DEF QueueTyped
  <2> QED
    BY <2>1, <2>2
<1>3. QueueTyped => QueueTypeOK
  BY DEF QueueTyped
<1> QED
  BY <1>1, <1>2, <1>3, PTL DEF QueueSpec
=============================================================================
