-------------------------- MODULE TaskGraphStore --------------------------
(***************************************************************************)
(* The durable task graph: PostgresTaskGraphStore and the scheduler that   *)
(* drives it, for one graph.                                               *)
(*                                                                         *)
(* A session is one connection of one process; its name is also the        *)
(* worker_id it passes.  Every method is a transaction of several SQL      *)
(* statements under READ COMMITTED, and the sessions interleave between    *)
(* statements:                                                             *)
(*   - task[t] and graph are the committed rows (a task row carries the    *)
(*     statuses of its task_attempts, which no statement writes without    *)
(*     holding the task row);                                              *)
(*   - lock[t] is the session that holds t's row, and draft[t] that        *)
(*     session's uncommitted version; graphLock is the session that holds  *)
(*     the graph's row from one statement to the next;                     *)
(*   - a statement that updates a row waits until the row is free and then *)
(*     reads its newest committed version; SKIP LOCKED passes over it.     *)
(* Consecutive statements that touch only rows the session already holds   *)
(* are one action, and so are a transaction's last statement and COMMIT.   *)
(*                                                                         *)
(* The caller passes `now', so a lease has lapsed by some process's clock  *)
(* while it is live by another's: a lease is "live" or "lapsed", a reclaim *)
(* needs a lapsed one, and the owner may still renew it or finish under it.*)
(***************************************************************************)
EXTENDS TaskStates

CONSTANTS
    Session,      \* connections, also the worker ids
    Task,         \* task rows, present from install or inserted later
    Child,        \* the tasks that add_dynamic_task inserts
    ParentOf,     \* [Child -> Task]
    DependsOn,    \* [Task -> SUBSET Task], task_dependencies
    Join,         \* [Task -> [policy, minimum]], metadata join_policy
    Conditional,  \* the tasks with a condition expression
    Priority,     \* [Task -> Nat]
    Grouped,      \* the tasks of the one concurrency group
    GroupLimit,   \* its concurrency_limit
    MaxAttempts,  \* max_attempts of every task
    ClaimLimit,   \* claim_ready's limit
    ChildLimit,   \* dynamic_child_limit of every parent
    CancelLimit,  \* bound: how often request_cancel is called
    None          \* SQL NULL

ASSUME StoreAssumption ==
    /\ IsFiniteSet(Task)
    /\ None \notin Session /\ None \notin Task
    /\ Child \subseteq Task /\ ParentOf \in [Child -> Task]
    /\ DependsOn \in [Task -> SUBSET Task]
    /\ \A c \in Child : DependsOn[c] = {}    \* add_dynamic_task inserts no dependency
    /\ MaxAttempts \in Nat \ {0}
    /\ ClaimLimit \in Nat \ {0} /\ ChildLimit \in Nat
    /\ CancelLimit \in Nat

VARIABLES task, draft, lock, graph, graphLock, conn, cancels

vars == <<task, draft, lock, graph, graphLock, conn, cancels>>

-----------------------------------------------------------------------------
(* Rows *)

Attempt == 1 .. MaxAttempts

AttemptStatus == {"NONE", "RUNNING", "WAITING", "SUCCEEDED", "FAILED_RETRYABLE",
                  "FAILED_FINAL", "CANCELLED", "SKIPPED"}

\* "ABSENT": the row of a dynamic child before its INSERT.
TaskRow == [status    : TaskState \cup {"ABSENT"},
            attempts  : 0 .. MaxAttempts,
            owner     : Session \cup {None},
            lease     : {"none", "live", "lapsed"},
            backoff   : BOOLEAN,             \* retry_not_before lies ahead
            cancelled : BOOLEAN,             \* cancellation_requested_at is set
            version   : Nat,
            ledger    : [Attempt -> AttemptStatus]]

Tally == [succeeded : Nat, failed : Nat, cancelled : Nat, skipped : Nat]

GraphRow == [status : TaskGraphState, cancelled : BOOLEAN, size : Nat, tally : Tally]

NoTally == [succeeded |-> 0, failed |-> 0, cancelled |-> 0, skipped |-> 0]

NewRow(status) ==
    [status |-> status, attempts |-> 0, owner |-> None, lease |-> "none",
     backoff |-> FALSE, cancelled |-> FALSE, version |-> 1,
     ledger |-> [n \in Attempt |-> "NONE"]]

\* Slip: a retry reuses the attempt number.
ClaimedAgain(r, s) ==
    [r EXCEPT !.status = "RUNNING", !.attempts = IF @ = 0 THEN 1 ELSE @, !.owner = s,
              !.lease = "live", !.backoff = FALSE, !.version = @ + 1,
              !.ledger = [@ EXCEPT ![IF r.attempts = 0 THEN 1 ELSE r.attempts] = "RUNNING"]]

\* claim_ready's UPDATE, with the INSERT of the attempt.
Claimed(r, s) ==
    [r EXCEPT !.status = "RUNNING", !.attempts = @ + 1, !.owner = s, !.lease = "live",
              !.backoff = FALSE, !.version = @ + 1,
              !.ledger = [@ EXCEPT ![r.attempts + 1] = "RUNNING"]]

\* Slip: the attempt is left open.
ReleasedOpen(r, target) ==
    [r EXCEPT !.status = target, !.owner = None, !.lease = "none", !.version = @ + 1]

\* The UPDATEs of finish_running and reclaim_expired: the task and its open attempt.
Released(r, target) ==
    [r EXCEPT !.status = target, !.owner = None, !.lease = "none", !.version = @ + 1,
              !.ledger = [@ EXCEPT ![r.attempts] = target]]

\* mark_ready, resume_waiting, schedule_retry (which also sets retry_not_before).
Readied(r, wait) ==
    [r EXCEPT !.status = "READY", !.backoff = wait, !.version = @ + 1]

Skipped(r) == [r EXCEPT !.status = "SKIPPED", !.version = @ + 1]

\* request_cancel's two UPDATEs.
CancelledRow(r) ==
    [r EXCEPT !.status = "CANCELLED", !.cancelled = TRUE, !.version = @ + 1]

Flagged(r) == [r EXCEPT !.cancelled = TRUE, !.version = @ + 1]

-----------------------------------------------------------------------------
(* Transactions *)

Free(t) == lock[t] = None

\* What a SELECT of session s reads: committed rows and its own uncommitted ones.
View(s) == [t \in Task |-> IF lock[t] = s THEN draft[t] ELSE task[t]]

Write(s, S, row(_)) ==
    /\ draft' = [t \in Task |-> IF t \in S THEN row(t) ELSE draft[t]]
    /\ lock' = [t \in Task |-> IF t \in S THEN s ELSE lock[t]]

Commit(s) ==
    /\ task' = View(s)
    /\ lock' = [t \in Task |-> IF lock[t] = s THEN None ELSE lock[t]]
    /\ draft' = draft

\* A single statement outside any longer transaction: nothing stays locked.
Autocommit(t, r) ==
    /\ task' = [task EXCEPT ![t] = r]
    /\ draft' = [draft EXCEPT ![t] = r]
    /\ lock' = lock

\* _recompute_graph_locked's SELECT: the counts it reads and the status they give.
Present(rows) == {t \in Task : rows[t].status # "ABSENT"}

In(rows, status) == {t \in Task : rows[t].status = status}

\* Slip: a failure that will be retried counts as a failure.
TallyOfEveryFailure(rows) ==
    [succeeded |-> Cardinality(In(rows, "SUCCEEDED")),
     failed    |-> Cardinality(In(rows, "FAILED_FINAL") \cup In(rows, "FAILED_RETRYABLE")),
     cancelled |-> Cardinality(In(rows, "CANCELLED")),
     skipped   |-> Cardinality(In(rows, "SKIPPED"))]

TallyOf(rows) ==
    [succeeded |-> Cardinality(In(rows, "SUCCEEDED")),
     failed    |-> Cardinality(In(rows, "FAILED_FINAL")),
     cancelled |-> Cardinality(In(rows, "CANCELLED")),
     skipped   |-> Cardinality(In(rows, "SKIPPED"))]

\* Slip: a task that waits for its dependencies does not keep the graph open.
StatusOfActive(rows) ==
    IF \A t \in Present(rows) : rows[t].status \in TERMINAL_TASK_STATES \cup {"PENDING"}
    THEN IF In(rows, "FAILED_FINAL") # {} THEN "FAILED_FINAL"
         ELSE IF In(rows, "CANCELLED") # {} THEN "CANCELLED" ELSE "SUCCEEDED"
    ELSE IF In(rows, "WAITING") # {} THEN "WAITING" ELSE "RUNNING"

StatusOf(rows) ==
    IF \A t \in Present(rows) : rows[t].status \in TERMINAL_TASK_STATES
    THEN IF In(rows, "FAILED_FINAL") # {} THEN "FAILED_FINAL"
         ELSE IF In(rows, "CANCELLED") # {} THEN "CANCELLED" ELSE "SUCCEEDED"
    ELSE IF /\ In(rows, "WAITING") # {}
            /\ In(rows, "RUNNING") = {} /\ In(rows, "READY") = {}
         THEN "WAITING" ELSE "RUNNING"

-----------------------------------------------------------------------------
(* Sessions: where each one stands in the method it runs *)

PC == {"idle", "claiming", "refreshing", "readying", "asking", "counting", "writing",
       "growing", "cancelling", "flagging"}

Conn == [pc     : PC,
         left   : 0 .. ClaimLimit,          \* iterations left in claim_ready's loop
         rows   : SUBSET Task,              \* rows its statement or loop has yet to visit
         skips  : SUBSET Task,              \* of those, what refresh_ready decided to skip
         asked  : Task \cup {None},         \* resume / retry: the task, and the version
         seen   : Nat,                      \*   and attempt its caller has read
         during : 0 .. MaxAttempts,
         status : TaskGraphState,           \* what _recompute_graph_locked will write
         tally  : Tally]

Idle == [pc |-> "idle", left |-> 0, rows |-> {}, skips |-> {}, asked |-> None,
         seen |-> 0, during |-> 0, status |-> "RUNNING", tally |-> NoTally]

At(s, pc) == conn[s].pc = pc

Goto(s, pc) == conn' = [conn EXCEPT ![s].pc = pc]

End(s) == conn' = [conn EXCEPT ![s] = Idle]

\* The end of one of refresh_ready's transactions: its loop goes on over what is left.
NextRow(s, left) ==
    conn' = [conn EXCEPT ![s] = IF left = {} THEN Idle
                                ELSE [Idle EXCEPT !.pc = "refreshing", !.rows = left,
                                                  !.skips = conn[s].skips]]

-----------------------------------------------------------------------------
(* claim_ready: a loop of SELECT ... FOR UPDATE SKIP LOCKED LIMIT 1, UPDATE and *)
(* INSERT in one transaction.                                                   *)

GroupHasRoom(s, t) ==
    t \in Grouped => Cardinality(In(View(s), "RUNNING") \cap Grouped) < GroupLimit

\* Slip: the cancellation of the graph is not read.
ClaimableInCancelled(s, t) ==
    LET r == View(s)[t]
    IN  /\ Free(t)
        /\ r.status = "READY" /\ ~r.cancelled /\ ~r.backoff /\ r.attempts < MaxAttempts
        /\ graph.status = "RUNNING"
        /\ GroupHasRoom(s, t)

Claimable(s, t) ==
    LET r == View(s)[t]
    IN  /\ Free(t)
        /\ r.status = "READY" /\ ~r.cancelled /\ ~r.backoff /\ r.attempts < MaxAttempts
        /\ graph.status = "RUNNING" /\ ~graph.cancelled
        /\ GroupHasRoom(s, t)

InClaimLoop(s) == At(s, "claiming") /\ conn[s].left > 0

ClaimReady(s, t) ==
    /\ At(s, "idle") \/ InClaimLoop(s)
    /\ Claimable(s, t)
    /\ \A u \in Task : Claimable(s, u) => Priority[u] <= Priority[t]
    /\ Write(s, {t}, LAMBDA u : Claimed(task[u], s))
    /\ conn' = [conn EXCEPT ![s].pc = "claiming",
                            ![s].left = (IF At(s, "idle") THEN ClaimLimit ELSE @) - 1]
    /\ UNCHANGED <<task, graph, graphLock, cancels>>

ClaimCommit(s) ==
    /\ At(s, "claiming")
    /\ conn[s].left = 0 \/ ~ \E t \in Task : Claimable(s, t)
    /\ Commit(s)
    /\ End(s)
    /\ UNCHANGED <<graph, graphLock, cancels>>

-----------------------------------------------------------------------------
(* heartbeat, finish_running and reclaim_expired: the life of a lease. *)

LeaseLapses(t) ==
    /\ Free(t) /\ task[t].lease = "live"
    /\ Autocommit(t, [task[t] EXCEPT !.lease = "lapsed"])
    /\ UNCHANGED <<graph, graphLock, conn, cancels>>

BackoffEnds(t) ==
    /\ Free(t) /\ task[t].backoff
    /\ Autocommit(t, [task[t] EXCEPT !.backoff = FALSE])
    /\ UNCHANGED <<graph, graphLock, conn, cancels>>

\* Slip: any worker may finish a running task.
HoldsNoLease(s, r) == r.status = "RUNNING"

HoldsLease(s, r) == r.status = "RUNNING" /\ r.owner = s

Heartbeat(s, t) ==
    /\ At(s, "idle")
    /\ Free(t) /\ HoldsLease(s, task[t])
    /\ Autocommit(t, [task[t] EXCEPT !.lease = "live"])
    /\ UNCHANGED <<graph, graphLock, conn, cancels>>

FINISH_TARGETS == TERMINAL_TASK_STATES \cup {"WAITING", "FAILED_RETRYABLE"}

AttemptIsOpen(r) == r.ledger[r.attempts] = "RUNNING"

FinishRunning(s, t, target) ==
    /\ At(s, "idle")
    /\ target \in FINISH_TARGETS
    /\ Free(t) /\ HoldsLease(s, task[t]) /\ AttemptIsOpen(task[t])
    /\ Write(s, {t}, LAMBDA u : Released(task[u], target))
    /\ Goto(s, "counting")
    /\ UNCHANGED <<task, graph, graphLock, cancels>>

ReclaimTarget(r) == IF r.attempts >= MaxAttempts THEN "FAILED_FINAL" ELSE "FAILED_RETRYABLE"

Expired(t) == Free(t) /\ task[t].status = "RUNNING" /\ task[t].lease = "lapsed"

\* S: the rows that are expired by this caller's clock.
ReclaimExpired(s, S) ==
    /\ At(s, "idle")
    /\ S # {} /\ \A t \in S : Expired(t) /\ AttemptIsOpen(task[t])
    /\ Write(s, S, LAMBDA t : Released(task[t], ReclaimTarget(task[t])))
    /\ Goto(s, "counting")
    /\ UNCHANGED <<task, graph, graphLock, cancels>>

-----------------------------------------------------------------------------
(* _recompute_graph_locked: a SELECT of the counts, which locks nothing, then an *)
(* UPDATE of the graph row, which ends each transaction that recomputes.         *)

Recount(s) ==
    /\ At(s, "counting")
    /\ conn' = [conn EXCEPT ![s].pc = "writing", ![s].status = StatusOf(View(s)),
                            ![s].tally = TallyOf(View(s))]
    /\ UNCHANGED <<task, draft, lock, graph, graphLock, cancels>>

GraphFree(s) == graphLock \in {None, s}

\* The session that holds the graph row here is one in request_cancel.
Recomputed(s) ==
    [graph EXCEPT !.status = conn[s].status, !.tally = conn[s].tally,
                  !.cancelled = @ \/ graphLock = s]

WriteGraph(s) ==
    /\ At(s, "writing") /\ GraphFree(s)
    /\ graph' = Recomputed(s)
    /\ graphLock' = None
    /\ Commit(s)
    /\ NextRow(s, conn[s].rows)
    /\ UNCHANGED cancels

-----------------------------------------------------------------------------
(* DurableTaskGraphScheduler.refresh_ready: one read of all tasks, then one   *)
(* transaction for each PENDING task whose join is decided.                   *)

Decision(t) == JoinDecision(Join[t], DependsOn[t], [u \in Task |-> task[u].status])

Decided(t) == task[t].status = "PENDING" /\ Decision(t) # "pending"

\* Slip: only the condition skips a task.
SkipsOnCondition(t, F) == t \in F

Skips(t, F) == Decision(t) = "impossible" \/ t \in F

\* F: the conditional tasks whose expression is false in the outputs read.
ListTasks(s, F) ==
    /\ At(s, "idle")
    /\ LET due == {t \in Task : Decided(t)}
       IN  /\ due # {}
           /\ conn' = [conn EXCEPT
                  ![s].pc = "refreshing", ![s].rows = due,
                  ![s].skips = {t \in due : Skips(t, F)}]
    /\ UNCHANGED <<task, draft, lock, graph, graphLock, cancels>>

Drop(s, t) == NextRow(s, conn[s].rows \ {t})

\* A PENDING row still has the version it was inserted with, so the CAS on status and
\* version is one on status.
MarkReady(s, t) ==
    /\ At(s, "refreshing") /\ t \in conn[s].rows \ conn[s].skips
    /\ Free(t) /\ task[t].status = "PENDING" /\ ~task[t].cancelled
    /\ Write(s, {t}, LAMBDA u : Readied(task[u], task[u].backoff))
    /\ conn' = [conn EXCEPT ![s].pc = "readying", ![s].rows = @ \ {t}]
    /\ UNCHANGED <<task, graph, graphLock, cancels>>

\* _skip: compare_and_set_task in one transaction, the recount in the next.
Skip(s, t) ==
    /\ At(s, "refreshing") /\ t \in conn[s].rows \cap conn[s].skips
    /\ Free(t) /\ task[t].status = "PENDING"
    /\ Autocommit(t, Skipped(task[t]))
    /\ conn' = [conn EXCEPT ![s].pc = "counting", ![s].rows = @ \ {t}]
    /\ UNCHANGED <<graph, graphLock, cancels>>

\* TaskGraphConflictError: another session was first, and the loop continues.
RefreshConflict(s, t) ==
    /\ At(s, "refreshing") /\ t \in conn[s].rows
    /\ Free(t) /\ task[t].status # "PENDING"
    /\ Drop(s, t)
    /\ UNCHANGED <<task, draft, lock, graph, graphLock, cancels>>

\* _set_graph_running and COMMIT.  A graph row that is not WAITING does not match the
\* UPDATE's WHERE, so the statement neither waits for it nor writes it.
SetGraphRunning(s) ==
    /\ At(s, "readying")
    /\ graph.status = "WAITING" => GraphFree(s)
    /\ graph' = IF graph.status = "WAITING" THEN [graph EXCEPT !.status = "RUNNING"] ELSE graph
    /\ Commit(s)
    /\ NextRow(s, conn[s].rows)
    /\ UNCHANGED <<graphLock, cancels>>

-----------------------------------------------------------------------------
(* resume_waiting and schedule_retry: the caller has read the row some time ago *)
(* and passes the version it saw.                                               *)

ReadTask(s, t) ==
    /\ At(s, "idle")
    /\ task[t].status \in {"WAITING", "FAILED_RETRYABLE"}
    /\ conn' = [conn EXCEPT ![s] = [Idle EXCEPT !.pc = "asking", !.asked = t,
                                         !.seen = task[t].version,
                                         !.during = task[t].attempts]]
    /\ UNCHANGED <<task, draft, lock, graph, graphLock, cancels>>

\* Slip: no compare-and-set on state_version.
SeenIsIgnored(s, t) == TRUE

SeenIsCurrent(s, t) == task[t].version = conn[s].seen

ResumeWaiting(s, t) ==
    /\ At(s, "asking") /\ conn[s].asked = t
    /\ Free(t) /\ SeenIsCurrent(s, t)
    /\ task[t].status = "WAITING" /\ ~task[t].cancelled
    /\ Write(s, {t}, LAMBDA u : Readied(task[u], task[u].backoff))
    /\ Goto(s, "readying")
    /\ UNCHANGED <<task, graph, graphLock, cancels>>

ScheduleRetry(s, t) ==
    /\ At(s, "asking") /\ conn[s].asked = t
    /\ Free(t) /\ SeenIsCurrent(s, t)
    /\ task[t].status = "FAILED_RETRYABLE" /\ ~task[t].cancelled
    /\ task[t].attempts < MaxAttempts
    /\ Write(s, {t}, LAMBDA u : Readied(task[u], TRUE))
    /\ Goto(s, "readying")
    /\ UNCHANGED <<task, graph, graphLock, cancels>>

-----------------------------------------------------------------------------
(* add_dynamic_task: the parent row is held from the check to the commit. *)

Children(p, rows) == {c \in Child : ParentOf[c] = p} \cap Present(rows)

MayGrow(s, p) ==
    /\ Free(p) /\ task[p].status = "RUNNING"
    /\ Cardinality(Children(p, View(s))) < ChildLimit

AddDynamicTask(s, c) ==
    /\ At(s, "idle")
    /\ MayGrow(s, ParentOf[c])
    /\ Free(c) /\ task[c].status = "ABSENT"
    /\ Write(s, {ParentOf[c], c}, LAMBDA u : IF u = c THEN NewRow("READY") ELSE task[u])
    /\ Goto(s, "growing")
    /\ UNCHANGED <<task, graph, graphLock, cancels>>

GrowGraph(s) ==
    /\ At(s, "growing") /\ GraphFree(s)
    /\ graph' = [graph EXCEPT !.size = @ + 1, !.status = "RUNNING"]
    /\ Commit(s)
    /\ End(s)
    /\ UNCHANGED <<graphLock, cancels>>

-----------------------------------------------------------------------------
(* request_cancel: the graph row first, then the tasks that are not running,   *)
(* then the running ones.  An UPDATE of many rows takes those that match when  *)
(* it starts, one after the other; it waits for a row that is held and then    *)
(* tests the WHERE again on the row's new version.                             *)

\* Slip: a status is missing.
UnstartedWithoutRetryable == {"PENDING", "READY", "WAITING"}

Unstarted == {"PENDING", "READY", "FAILED_RETRYABLE", "WAITING"}

StillUnstarted(t) == task[t].status \in Unstarted

RequestCancel(s) ==
    /\ At(s, "idle") /\ graphLock = None
    /\ cancels < CancelLimit
    /\ cancels' = cancels + 1
    /\ graphLock' = s
    /\ conn' = [conn EXCEPT ![s].pc = "cancelling",
                            ![s].rows = {t \in Task : task[t].status \in Unstarted}]
    /\ UNCHANGED <<task, draft, lock, graph>>

CancelRow(s, t) ==
    /\ At(s, "cancelling") /\ t \in conn[s].rows
    /\ Free(t)
    /\ IF StillUnstarted(t)
       THEN Write(s, {t}, LAMBDA u : CancelledRow(task[u]))
       ELSE UNCHANGED <<draft, lock>>
    /\ conn' = [conn EXCEPT ![s].rows = @ \ {t}]
    /\ UNCHANGED <<task, graph, graphLock, cancels>>

CancelRunning(s) ==
    /\ At(s, "cancelling") /\ conn[s].rows = {}
    /\ conn' = [conn EXCEPT ![s].pc = "flagging",
                            ![s].rows = {t \in Task : View(s)[t].status = "RUNNING"}]
    /\ UNCHANGED <<task, draft, lock, graph, graphLock, cancels>>

FlagRow(s, t) ==
    /\ At(s, "flagging") /\ t \in conn[s].rows
    /\ Free(t)
    /\ IF task[t].status = "RUNNING"
       THEN Write(s, {t}, LAMBDA u : Flagged(task[u]))
       ELSE UNCHANGED <<draft, lock>>
    /\ conn' = [conn EXCEPT ![s].rows = @ \ {t}]
    /\ UNCHANGED <<task, graph, graphLock, cancels>>

CancelRecount(s) ==
    /\ At(s, "flagging") /\ conn[s].rows = {}
    /\ Goto(s, "counting")
    /\ UNCHANGED <<task, draft, lock, graph, graphLock, cancels>>

-----------------------------------------------------------------------------
\* The transaction is rolled back: its process or connection died, a CAS failed, or
\* PostgreSQL made it the victim of a deadlock.
Rollback(s) ==
    /\ ~At(s, "idle")
    /\ draft' = [t \in Task |-> IF lock[t] = s THEN task[t] ELSE draft[t]]
    /\ lock' = [t \in Task |-> IF lock[t] = s THEN None ELSE lock[t]]
    /\ graphLock' = IF graphLock = s THEN None ELSE graphLock
    /\ End(s)
    /\ UNCHANGED <<task, graph, cancels>>

\* install: a task without dependencies is READY, another PENDING.
Installed(t) ==
    NewRow(IF t \in Child THEN "ABSENT" ELSE IF DependsOn[t] = {} THEN "READY" ELSE "PENDING")

Init ==
    /\ task = [t \in Task |-> Installed(t)]
    /\ draft = task
    /\ lock = [t \in Task |-> None]
    /\ graph = [status |-> "RUNNING", cancelled |-> FALSE,
                size |-> Cardinality(Task \ Child), tally |-> NoTally]
    /\ graphLock = None
    /\ conn = [s \in Session |-> Idle]
    /\ cancels = 0

Next ==
    \/ \E t \in Task : LeaseLapses(t) \/ BackoffEnds(t)
    \/ \E s \in Session :
        \/ ClaimCommit(s) \/ Recount(s) \/ WriteGraph(s) \/ SetGraphRunning(s)
        \/ GrowGraph(s) \/ RequestCancel(s) \/ CancelRunning(s) \/ CancelRecount(s)
        \/ Rollback(s)
        \/ \E t \in Task :
            \/ ClaimReady(s, t) \/ Heartbeat(s, t) \/ ReadTask(s, t)
            \/ \E target \in FINISH_TARGETS : FinishRunning(s, t, target)
            \/ MarkReady(s, t) \/ Skip(s, t) \/ RefreshConflict(s, t)
            \/ ResumeWaiting(s, t) \/ ScheduleRetry(s, t)
            \/ CancelRow(s, t) \/ FlagRow(s, t)
        \/ \E c \in Child : AddDynamicTask(s, c)
        \/ \E S \in SUBSET Task : ReclaimExpired(s, S)
        \/ \E F \in SUBSET Conditional : ListTasks(s, F)

Spec == Init /\ [][Next]_vars

-----------------------------------------------------------------------------
(* Properties *)

\* Every variable has its type.
TypeOK ==
    /\ task \in [Task -> TaskRow] /\ draft \in [Task -> TaskRow]
    /\ lock \in [Task -> Session \cup {None}]
    /\ graph \in GraphRow /\ graphLock \in Session \cup {None}
    /\ conn \in [Session -> Conn]
    /\ cancels \in 0 .. CancelLimit

\* The attempt ledger tells the task's history: attempts are numbered without a gap, a
\* task has an open attempt exactly while it is RUNNING, that attempt is the last,
\* exactly a RUNNING task has a lease with an owner, and none starts before it is READY.
LedgerOf(r) ==
    /\ \A n \in Attempt : r.ledger[n] = "NONE" <=> n > r.attempts
    /\ \A n \in Attempt : r.ledger[n] = "RUNNING" <=> r.status = "RUNNING" /\ n = r.attempts
    /\ r.status = "RUNNING" <=> r.owner # None
    /\ r.status = "RUNNING" <=> r.lease # "none"
    /\ r.status \in {"ABSENT", "PENDING"} => r.attempts = 0

AttemptLedger == \A t \in Task : LedgerOf(task[t])

\* A closed attempt is history: its outcome is never rewritten, and a task in a terminal
\* state never leaves it, whatever late finish, reclaim, cancel or refresh arrives.
HistoryIsFinal ==
    [][\A t \in Task :
        /\ task[t].status \in TERMINAL_TASK_STATES => task'[t].status = task[t].status
        /\ \A n \in Attempt :
              task[t].ledger[n] \notin {"NONE", "RUNNING"}
                => task'[t].ledger[n] = task[t].ledger[n]]_vars

\* A worker owns a task by its own claim and for one attempt, which never passes to
\* another worker, whoever claims, finishes late or claims the task again: its owner ends
\* it, or the lease has lapsed, and nobody ends the work of a worker whose lease is live
\* by every clock.
OneOwnerPerAttempt ==
    [][\A t \in Task :
        IF task[t].owner = None
        THEN task'[t].owner # None
                => task'[t].owner = lock[t] /\ task'[t].attempts = task[t].attempts + 1
        ELSE \/ task'[t].owner = task[t].owner /\ task'[t].attempts = task[t].attempts
             \/ /\ task'[t].owner = None
                /\ lock[t] = task[t].owner \/ task[t].lease = "lapsed"]_vars

\* A task that was made READY has its join satisfied by the rows as they are now, and a
\* task that was skipped without an attempt and has no condition can never have it
\* satisfied, although the scheduler decides on rows it read some transactions ago.
JoinRespected ==
    \A t \in Task :
        LET decision == Decision(t)
        IN  /\ task[t].status \in {"READY", "RUNNING", "WAITING", "FAILED_RETRYABLE",
                                    "SUCCEEDED", "FAILED_FINAL"} => decision = "ready"
            /\ task[t].status = "SKIPPED" /\ task[t].attempts = 0 /\ t \notin Conditional
                 => decision = "impossible"

\* A graph that reads as finished is finished, with that outcome: no recount, however
\* stale, and no dynamic child leaves a live task behind it.
FinishedGraphIsTrue ==
    graph.status \in TERMINAL_GRAPH_STATES
        => /\ \A t \in Present(task) : task[t].status \in TERMINAL_TASK_STATES
           /\ graph.status = "FAILED_FINAL" <=> In(task, "FAILED_FINAL") # {}
           /\ graph.status = "SUCCEEDED"
                => \A t \in Present(task) : task[t].status \in {"SUCCEEDED", "SKIPPED"}

\* The graph's counters may lag behind the task rows but never run ahead of them.
CountersNeverAhead ==
    /\ graph.tally.succeeded <= Cardinality(In(task, "SUCCEEDED"))
    /\ graph.tally.failed <= Cardinality(In(task, "FAILED_FINAL"))
    /\ graph.tally.cancelled <= Cardinality(In(task, "CANCELLED"))
    /\ graph.tally.skipped <= Cardinality(In(task, "SKIPPED"))

\* When a cancellation commits, every task of the graph has ended, or runs and has been
\* told to stop: no task slips from one of its UPDATEs past the other.
CancelReachesEveryTask ==
    [][\A s \in Session :
        graphLock = s /\ task' # task /\ At(s, "writing") /\ conn'[s] = Idle
            => \A t \in Present(task') :
                  \/ task'[t].status \in TERMINAL_TASK_STATES
                  \/ task'[t].status = "RUNNING" /\ task'[t].cancelled]_vars

\* Once the cancellation has committed no attempt begins.
NoAttemptAfterCancel ==
    [][graph.cancelled => \A t \in Task : task'[t].attempts = task[t].attempts]_vars

\* A resume or a retry acts on the very wait or failure its caller has read: one that
\* arrives late, or twice, never requeues a later attempt.
RequeuesWhatItRead ==
    [][\A s \in Session, t \in Task :
        At(s, "asking") /\ conn'[s].pc = "readying" /\ lock'[t] = s
            => t = conn[s].asked /\ draft[t].attempts = conn[s].during]_vars

-----------------------------------------------------------------------------
\* The committed task rows implement TaskLedger.  Its state machine is _ALLOWED, plus
\* the INSERT of a dynamic child and RUNNING -> SKIPPED, which finish_running accepts.
StoreEdges ==
    Allowed \cup {<<"RUNNING", "SKIPPED">>, <<"ABSENT", "READY">>}

Ledger == INSTANCE TaskLedger WITH
    States        <- TaskState \cup {"ABSENT"},
    Outcomes      <- AttemptStatus,
    Edges         <- StoreEdges,
    InitialStates <- {"PENDING", "READY", "ABSENT"},
    status        <- [t \in Task |-> task[t].status],
    attempts      <- [t \in Task |-> task[t].attempts],
    ledger        <- [t \in Task |-> task[t].ledger]

\* Every behaviour of the store is one of the ledger.
ImplementsLedger == Ledger!Spec

=============================================================================
