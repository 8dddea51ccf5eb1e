----------------------------- MODULE TaskQueue -----------------------------
(***************************************************************************)
(* The queue of the government services (components/gov/TaskQueue), which   *)
(* the requests screen and the app's overview share, over the server's task *)
(* tree (internal/apps/gov_services).  The screen offers what a row allowed *)
(* when it was fetched; other officers work the same tasks; the server      *)
(* validates every action against the task as it then is.                   *)
(*                                                                          *)
(* The officer is an administrator: every unit is in scope.  The published  *)
(* workflow version narrows no transition.  The queue is one page.          *)
(***************************************************************************)
EXTENDS Console

CONSTANTS
    Tasks,      \* ids of tasks, in the order of creation
    Verified,   \* tasks whose step requires verification by the level above
    MaxMoves,   \* bound on the transitions of a run
    MaxAsked    \* bound on the loads of a run

ASSUME TasksAssumption ==
    /\ Tasks \subseteq Nat \ {0} /\ IsFiniteSet(Tasks) /\ Verified \subseteq Tasks /\ 1 \in Tasks
    /\ MaxMoves \in Nat /\ MaxAsked \in Nat \ {0}

VARIABLES
    tasks,          \* gov_tasks
    moves,          \* how many transitions were made
    queue,          \* the rows on screen
    statusFilter,
    ready,          \* the mount effect is over (~loading)
    asked,          \* loads begun
    asking,         \* the loads in flight: nobody numbers them
    busyTask,       \* busy: one task id for the whole table
    acting          \* the actions in flight

queueVars == <<tasks, moves, queue, statusFilter, ready, asked, asking, busyTask, acting>>
-----------------------------------------------------------------------------
Active == {"RECEIVED", "ASSIGNED", "IN_PROGRESS", "FORWARDED", "INFO_REQUESTED",
           "AWAITING_VERIFICATION", "RETURNED"}
Terminal == {"CLOSED", "CANCELLED", "REJECTED"}
TaskStatuses == Active \cup Terminal \cup {"COMPLETED", "none"}
TaskActions == {"assign", "start", "delegate", "request_info", "complete", "verify",
                "return", "reject", "cancel", "close"}
Whole == ""                         \* the filter that lets everything through

QueueRows == [id : Tasks, status : TaskStatuses, version : 0..MaxMoves]
QueueLoads == [n : 1..MaxAsked, rows : SUBSET QueueRows]
QueueActs == [id : Tasks, action : TaskActions, saw : TaskStatuses, from : TaskStatuses,
              done : BOOLEAN, filter : TaskStatuses \cup {Whole},
              pc : {"ok", "failed", "load"}, n : 0..MaxAsked]

QueueTypeOK ==
    /\ tasks \in [Tasks -> [status : TaskStatuses, version : 0..MaxMoves, parent : Tasks \cup {0}]]
    /\ moves \in 0..MaxMoves
    /\ queue \subseteq QueueRows
    /\ statusFilter \in TaskStatuses \cup {Whole} /\ ready \in BOOLEAN
    /\ asked \in 1..MaxAsked /\ asking \subseteq QueueLoads
    /\ busyTask \in Tasks \cup {0} /\ acting \subseteq QueueActs
-----------------------------------------------------------------------------
(* The server: the base state machine. *)
NoCancelGuard == Active     \* planted fault: a task that waits for its child can be cancelled

Cancellable == {"RECEIVED", "ASSIGNED", "IN_PROGRESS", "INFO_REQUESTED"}

baseTransitions ==
    [assign       |-> [from |-> {"RECEIVED", "RETURNED"}, to |-> "ASSIGNED"],
     start        |-> [from |-> {"RECEIVED", "ASSIGNED", "RETURNED", "INFO_REQUESTED"}, to |-> "IN_PROGRESS"],
     delegate     |-> [from |-> {"RECEIVED", "ASSIGNED", "IN_PROGRESS"}, to |-> "FORWARDED"],
     request_info |-> [from |-> {"ASSIGNED", "IN_PROGRESS"}, to |-> "INFO_REQUESTED"],
     complete     |-> [from |-> {"ASSIGNED", "IN_PROGRESS", "RETURNED"}, to |-> "COMPLETED"],
     verify       |-> [from |-> {"AWAITING_VERIFICATION"}, to |-> "COMPLETED"],
     return       |-> [from |-> {"AWAITING_VERIFICATION"}, to |-> "RETURNED"],
     close        |-> [from |-> {"COMPLETED"}, to |-> "CLOSED"],
     reject       |-> [from |-> {"RECEIVED", "ASSIGNED", "IN_PROGRESS", "INFO_REQUESTED", "RETURNED"},
                       to |-> "REJECTED"],
     cancel       |-> [from |-> Cancellable, to |-> "CANCELLED"]]

resolveTransition(id, action) ==
    IF action = "complete" /\ id \in Verified THEN "AWAITING_VERIFICATION"
    ELSE baseTransitions[action].to

(* A child is made for the next level, if the workflow has one. *)
NextTask == {c \in Tasks : tasks[c].status = "none" /\ \A b \in Tasks : b < c => tasks[b].status # "none"}

SameVersion(ts, id, status) ==          \* planted fault: row_version is not counted up
    [ts EXCEPT ![id].status = status]

updateTaskStatus(ts, id, status) ==
    [ts EXCEPT ![id].status = status, ![id].version = @ + 1]

(* A level waits for its children, and finishes with the last of them. *)
AllChildrenDone(ts, p) ==
    ts[p].status = "FORWARDED" /\ \A c \in Tasks : ts[c].parent = p => ts[c].status \notin Active

nextForParent(ts, p) ==
    IF p \in Verified /\ ts[p].parent # 0 THEN "AWAITING_VERIFICATION" ELSE "COMPLETED"

(* One level up, from the tree as it is there (ts) and the level reached (at). *)
climb(s) ==
    IF s.at = 0 \/ ~AllChildrenDone(s.ts, s.at) THEN [ts |-> s.ts, at |-> 0]
    ELSE LET next == nextForParent(s.ts, s.at) IN
         [ts |-> updateTaskStatus(s.ts, s.at, next),
          at |-> IF next = "COMPLETED" THEN s.ts[s.at].parent ELSE 0]

(* A finished task lets the level above continue, and that level the one above it. *)
propagateCompletion(ts, id) ==
    LET levels[k \in Nat] == IF k = 0 THEN [ts |-> ts, at |-> ts[id].parent] ELSE climb(levels[k - 1])
    IN levels[Cardinality(Tasks)].ts

Accepts(id, action) == tasks[id].status \in baseTransitions[action].from

(* Act: one transition, what it does to the levels above and below included. *)
Act(id, action) ==
    /\ Accepts(id, action)
    /\ moves < MaxMoves /\ moves' = moves + 1
    /\ LET to == resolveTransition(id, action)
           moved == updateTaskStatus(tasks, id, to) IN
       \/ action = "delegate" /\ \E c \in NextTask :
              tasks' = [moved EXCEPT ![c] = [status |-> "RECEIVED", version |-> 0, parent |-> id]]
       \/ action # "delegate" /\ tasks' = IF to = "COMPLETED" THEN propagateCompletion(moved, id) ELSE moved

(* Another officer, and the citizen who cancels. *)
AnotherOfficer ==
    /\ \E id \in Tasks, action \in TaskActions : Act(id, action)
    /\ UNCHANGED <<queue, statusFilter, ready, asked, asking, busyTask, acting>>
-----------------------------------------------------------------------------
(* load. *)
getTasks(filter) ==
    {[id |-> t, status |-> tasks[t].status, version |-> tasks[t].version] :
        t \in {u \in Tasks : tasks[u].status # "none" /\ filter \in {Whole, tasks[u].status}}}

Asks(filter) ==
    /\ asked < MaxAsked /\ asked' = asked + 1
    /\ asking' = asking \cup {[n |-> asked + 1, rows |-> getTasks(filter)]}

(* The mount effect's load is in flight, and the screen is not there until it is over. *)
QueueInit ==
    /\ tasks = [t \in Tasks |-> [status |-> IF t = 1 THEN "RECEIVED" ELSE "none", version |-> 0, parent |-> 0]]
    /\ moves = 0
    /\ queue = {} /\ statusFilter = Whole /\ ready = FALSE
    /\ asked = 1 /\ asking = {[n |-> 1, rows |-> getTasks(Whole)]}
    /\ busyTask = 0 /\ acting = {}

(* Whoever awaited a load goes on, whatever became of it. *)
AskOver(l) ==
    LET over == {a \in acting : a.pc = "load" /\ a.n = l.n} IN
    /\ asking' = asking \ {l}
    /\ ready' = TRUE
    /\ acting' = acting \ over
    /\ busyTask' = IF over = {} THEN busyTask ELSE 0

QueueLands(l) ==
    /\ queue' \in {queue, l.rows}          \* a load that failed leaves the rows
    /\ AskOver(l)
    /\ UNCHANGED <<tasks, moves, statusFilter, asked>>
-----------------------------------------------------------------------------
setStatusFilter(s) ==
    /\ ready /\ statusFilter # s
    /\ statusFilter' = s
    /\ Asks(s)
    /\ UNCHANGED <<tasks, moves, queue, ready, busyTask, acting>>

actionsOf ==
    [RECEIVED              |-> {"assign", "start", "delegate", "reject"},
     ASSIGNED              |-> {"start", "delegate", "request_info", "complete", "reject"},
     IN_PROGRESS           |-> {"delegate", "request_info", "complete", "reject"},
     INFO_REQUESTED        |-> {"start", "reject"},
     RETURNED              |-> {"start", "complete", "reject"},
     AWAITING_VERIFICATION |-> {"verify", "return"},
     COMPLETED             |-> {"close"}]

OffersWork(status) ==                   \* planted fault: work that waits for information can be completed
    IF status = "INFO_REQUESTED" THEN {"start", "complete", "reject"}
    ELSE IF status \in DOMAIN actionsOf THEN actionsOf[status] ELSE {}

availableActions(status) == IF status \in DOMAIN actionsOf THEN actionsOf[status] ELSE {}

(* The action goes out with the version of the row.  The comment some actions need is
   asked for before, and so is the unit a task is delegated to. *)
act(row, action) ==
    /\ ready /\ busyTask # row.id /\ action \in availableActions(row.status)
    /\ asked + Cardinality({a \in acting : a.pc # "load"}) < MaxAsked
    /\ busyTask' = row.id
    /\ \E answer \in Answers, done \in BOOLEAN :
         /\ done \in Commits(answer)
         /\ IF done THEN tasks[row.id].version = row.version /\ Act(row.id, action)
                    ELSE UNCHANGED <<tasks, moves>>
         /\ acting' = acting \cup {[id |-> row.id, action |-> action, saw |-> row.status,
                                    from |-> tasks[row.id].status, done |-> done, filter |-> statusFilter,
                                    pc |-> IF answer = "ok" THEN "ok" ELSE "failed", n |-> 0]}
    /\ UNCHANGED <<queue, statusFilter, ready, asked, asking>>

(* The queue is read again, under the filter of when the action was clicked. *)
Acted(a) ==
    /\ a.pc = "ok"
    /\ Asks(a.filter)
    /\ acting' = (acting \ {a}) \cup {[a EXCEPT !.pc = "load", !.n = asked + 1]}
    /\ UNCHANGED <<tasks, moves, queue, statusFilter, ready, busyTask>>

ActRefused(a) ==
    /\ a.pc = "failed"
    /\ acting' = acting \ {a} /\ busyTask' = 0
    /\ UNCHANGED <<tasks, moves, queue, statusFilter, ready, asked, asking>>

QueueNext ==
    \/ AnotherOfficer
    \/ \E l \in asking : QueueLands(l)
    \/ \E s \in {Whole, "RECEIVED"} : setStatusFilter(s)
    \/ \E row \in queue, action \in TaskActions : act(row, action)
    \/ \E a \in acting : Acted(a) \/ ActRefused(a)

QueueSpec == QueueInit /\ [][QueueNext /\ UNCHANGED route]_<<route, queueVars>>
-----------------------------------------------------------------------------
(* Whatever the officer decided on a row takes effect only on the status they saw:
   a row that is old, or whose buttons came back while its own action was under way,
   changes nothing.  Every step of the tree counts, those of the cascade included. *)
ActedOnWhatWasSeen == \A a \in acting : a.done => a.from = a.saw

(* The two tables agree: an action that is offered on a row is one the server takes,
   unless the task has moved since. *)
OfferedIsAccepted ==
    \A row \in queue : tasks[row.id].version = row.version =>
        \A action \in availableActions(row.status) : Accepts(row.id, action)

(* Work under way below is always awaited above: no order of delegating, verifying,
   returning, cancelling and cascading leaves a level finished, or dead, with its child
   still open. *)
OpenChildIsAwaited ==
    \A t \in Tasks : tasks[t].parent # 0 /\ tasks[t].status \in Active =>
        tasks[tasks[t].parent].status = "FORWARDED"
=============================================================================
