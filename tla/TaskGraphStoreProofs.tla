----------------------- MODULE TaskGraphStoreProofs -----------------------
(***************************************************************************)
(* Proofs about TaskGraphStore, for any set of tasks, sessions and limits. *)
(*                                                                         *)
(* The invariant RowInv says, beside the types of the rows, that both      *)
(* versions of a row have a well-formed ledger, that an unlocked row has   *)
(* no uncommitted version, and that the uncommitted version is one move    *)
(* away from the committed one (RowStep).  The last part is what makes the *)
(* properties of committed rows inductive: a COMMIT installs a version     *)
(* that another session's statements may have prepared much earlier.       *)
(*                                                                         *)
(* GraphInv, further down, relates the rows to the sessions that hold      *)
(* them and to the graph row: what each session holds by where it stands   *)
(* (HeldInv), what a cancellation has yet to reach (CancelInv), what each  *)
(* version says of its join (JoinInv), what the counters and the status    *)
(* of the graph say, written or about to be (CountInv, FinishInv), and     *)
(* what a caller has read (VersionInv).  Each part is proved from two      *)
(* facts: a session's step leaves the others, and the rows they hold,      *)
(* undisturbed (OthersUndisturbed), and there are six ways in which a step *)
(* treats a row (StepRowMoves).                                            *)
(***************************************************************************)
EXTENDS TaskGraphStore, FiniteSetTheorems, TLAPS

\* q is r, or one move of the state machine away from it; a run is begun by its owner, and
\* ended by its owner or after its lease has lapsed.
Opened(s, r, q) ==
    /\ r.status = "READY" /\ q.status = "RUNNING" /\ q.owner = s
    /\ r.attempts < MaxAttempts /\ q.attempts = r.attempts + 1
    /\ r.ledger[q.attempts] = "NONE"
    /\ q.ledger = [r.ledger EXCEPT ![q.attempts] = "RUNNING"]

Closed(s, r, q) ==
    /\ r.status = "RUNNING" /\ q.status \in FINISH_TARGETS
    /\ q.attempts = r.attempts
    /\ r.ledger[r.attempts] = "RUNNING"
    /\ q.ledger = [r.ledger EXCEPT ![r.attempts] = q.status]
    /\ s = r.owner \/ r.lease = "lapsed"

Turned(r, q) ==
    /\ <<r.status, q.status>> \in StoreEdges
    /\ r.status # "RUNNING" /\ q.status # "RUNNING"
    /\ q.attempts = r.attempts /\ q.ledger = r.ledger

Kept(r, q) ==
    /\ q.status = r.status /\ q.owner = r.owner
    /\ q.attempts = r.attempts /\ q.ledger = r.ledger

RowStep(s, r, q) == Opened(s, r, q) \/ Closed(s, r, q) \/ Turned(r, q) \/ Kept(r, q)

RowInv ==
    /\ task \in [Task -> TaskRow] /\ draft \in [Task -> TaskRow]
    /\ lock \in [Task -> Session \cup {None}]
    /\ \A t \in Task : LedgerOf(task[t]) /\ LedgerOf(draft[t])
    /\ \A t \in Task : lock[t] = None => draft[t] = task[t]
    /\ \A t \in Task : RowStep(lock[t], task[t], draft[t])

\* What one row's next version has to be.
GoodVersion(s, r, q) == q \in TaskRow /\ LedgerOf(q) /\ RowStep(s, r, q)

-----------------------------------------------------------------------------
(* Lemmas about the row operators. *)

\* state_version grows.  (The typing steps below quantify over the new version: a field
\* update with arithmetic in it is too much for one leaf.)
LEMMA NextVersion ==
    ASSUME NEW r \in TaskRow
    PROVE  r.version + 1 \in Nat
BY DEF TaskRow

\* The row that claim_ready writes.
LEMMA ClaimedVersion ==
    ASSUME NEW r \in TaskRow, LedgerOf(r), NEW s \in Session,
           r.status = "READY", r.attempts < MaxAttempts
    PROVE  GoodVersion(s, r, Claimed(r, s))
<1>0. MaxAttempts \in Nat \ {0} /\ None \notin Session
  BY StoreAssumption
<1> DEFINE q == Claimed(r, s)
<1>1. /\ r.attempts \in 0 .. MaxAttempts /\ r.ledger \in [Attempt -> AttemptStatus]
      /\ r.attempts + 1 \in Attempt /\ r.attempts + 1 \in 0 .. MaxAttempts
  BY <1>0 DEF TaskRow, Attempt
<1>2. /\ q.status = "RUNNING" /\ q.attempts = r.attempts + 1 /\ q.owner = s
      /\ q.lease = "live" /\ q.ledger = [r.ledger EXCEPT ![r.attempts + 1] = "RUNNING"]
  BY DEF Claimed, TaskRow
<1>3. q \in TaskRow
  <2>1. [r.ledger EXCEPT ![r.attempts + 1] = "RUNNING"] \in [Attempt -> AttemptStatus]
    BY <1>1 DEF AttemptStatus
  <2>2. \A n \in 0 .. MaxAttempts, v \in Nat, l \in [Attempt -> AttemptStatus] :
           [r EXCEPT !.status = "RUNNING", !.attempts = n, !.owner = s, !.lease = "live",
                     !.backoff = FALSE, !.version = v, !.ledger = l] \in TaskRow
    BY DEF TaskRow, TaskState
  <2> QED
    BY <1>1, <2>1, <2>2, NextVersion, Zenon DEF Claimed
<1>4. LedgerOf(q)
  BY <1>0, <1>1, <1>2 DEF LedgerOf, Attempt
<1>5. Opened(s, r, q)
  BY <1>0, <1>1, <1>2 DEF Opened, LedgerOf, Attempt
<1> QED
  BY <1>3, <1>4, <1>5 DEF GoodVersion, RowStep

\* The row that finish_running and reclaim_expired write.
LEMMA ReleasedVersion ==
    ASSUME NEW r \in TaskRow, LedgerOf(r), NEW s, NEW target \in FINISH_TARGETS,
           r.status = "RUNNING", AttemptIsOpen(r), s = r.owner \/ r.lease = "lapsed"
    PROVE  GoodVersion(s, r, Released(r, target))
<1>0. MaxAttempts \in Nat \ {0} /\ None \notin Session
  BY StoreAssumption
<1> DEFINE q == Released(r, target)
<1>1. /\ r.attempts \in 0 .. MaxAttempts /\ r.ledger \in [Attempt -> AttemptStatus]
      /\ target \in TaskState /\ target \in AttemptStatus /\ target # "NONE"
      /\ target \notin {"RUNNING", "ABSENT", "PENDING"}
  BY DEF TaskRow, FINISH_TARGETS, TERMINAL_TASK_STATES, TaskState, AttemptStatus
<1>2. /\ q.status = target /\ q.attempts = r.attempts /\ q.owner = None
      /\ q.lease = "none" /\ q.ledger = [r.ledger EXCEPT ![r.attempts] = target]
  BY DEF Released, TaskRow
<1>3. q \in TaskRow
  <2>1. [r.ledger EXCEPT ![r.attempts] = target] \in [Attempt -> AttemptStatus]
    BY <1>1
  <2>2. \A v \in Nat, l \in [Attempt -> AttemptStatus] :
           [r EXCEPT !.status = target, !.owner = None, !.lease = "none", !.version = v,
                     !.ledger = l] \in TaskRow
    BY <1>1 DEF TaskRow
  <2> QED
    BY <2>1, <2>2, NextVersion, Zenon DEF Released
<1>4. LedgerOf(q)
  BY <1>0, <1>1, <1>2 DEF LedgerOf, Attempt
<1>5. Closed(s, r, q)
  BY <1>1, <1>2 DEF Closed, AttemptIsOpen
<1> QED
  BY <1>3, <1>4, <1>5 DEF GoodVersion, RowStep

\* The row that mark_ready, resume_waiting and schedule_retry write.
LEMMA ReadiedVersion ==
    ASSUME NEW r \in TaskRow, LedgerOf(r), NEW s, NEW wait \in BOOLEAN,
           r.status \in {"PENDING", "WAITING", "FAILED_RETRYABLE"}
    PROVE  GoodVersion(s, r, Readied(r, wait))
<1> DEFINE q == Readied(r, wait)
<1>1. /\ q.status = "READY" /\ q.attempts = r.attempts /\ q.owner = r.owner
      /\ q.lease = r.lease /\ q.ledger = r.ledger
  BY DEF Readied, TaskRow
<1>2. q \in TaskRow
  <2>1. \A v \in Nat :
           [r EXCEPT !.status = "READY", !.backoff = wait, !.version = v] \in TaskRow
    BY DEF TaskRow, TaskState
  <2> QED
    BY <2>1, NextVersion, Zenon DEF Readied
<1>3. LedgerOf(q)
  BY <1>1 DEF LedgerOf
<1>4. Turned(r, q)
  BY <1>1 DEF Turned, StoreEdges, Allowed
<1> QED
  BY <1>2, <1>3, <1>4 DEF GoodVersion, RowStep

\* The row that the scheduler's _skip writes.
LEMMA SkippedVersion ==
    ASSUME NEW r \in TaskRow, LedgerOf(r), NEW s, r.status = "PENDING"
    PROVE  GoodVersion(s, r, Skipped(r))
<1> DEFINE q == Skipped(r)
<1>1. /\ q.status = "SKIPPED" /\ q.attempts = r.attempts /\ q.owner = r.owner
      /\ q.lease = r.lease /\ q.ledger = r.ledger
  BY DEF Skipped, TaskRow
<1>2. q \in TaskRow
  <2>1. \A v \in Nat : [r EXCEPT !.status = "SKIPPED", !.version = v] \in TaskRow
    BY DEF TaskRow, TaskState
  <2> QED
    BY <2>1, NextVersion, Zenon DEF Skipped
<1>3. LedgerOf(q)
  BY <1>1 DEF LedgerOf
<1>4. Turned(r, q)
  BY <1>1 DEF Turned, StoreEdges, Allowed
<1> QED
  BY <1>2, <1>3, <1>4 DEF GoodVersion, RowStep

\* The rows that request_cancel writes.
LEMMA CancelledVersion ==
    ASSUME NEW r \in TaskRow, LedgerOf(r), NEW s, r.status \in Unstarted
    PROVE  GoodVersion(s, r, CancelledRow(r))
<1> DEFINE q == CancelledRow(r)
<1>1. /\ q.status = "CANCELLED" /\ q.attempts = r.attempts /\ q.owner = r.owner
      /\ q.lease = r.lease /\ q.ledger = r.ledger
  BY DEF CancelledRow, TaskRow
<1>2. q \in TaskRow
  <2>1. \A v \in Nat :
           [r EXCEPT !.status = "CANCELLED", !.cancelled = TRUE, !.version = v] \in TaskRow
    BY DEF TaskRow, TaskState
  <2> QED
    BY <2>1, NextVersion, Zenon DEF CancelledRow
<1>3. LedgerOf(q)
  BY <1>1 DEF LedgerOf, Unstarted
<1>4. Turned(r, q)
  BY <1>1 DEF Turned, StoreEdges, Allowed, Unstarted
<1> QED
  BY <1>2, <1>3, <1>4 DEF GoodVersion, RowStep

\* The row that request_cancel writes for a running task.
LEMMA FlaggedVersion ==
    ASSUME NEW r \in TaskRow, LedgerOf(r), NEW s
    PROVE  GoodVersion(s, r, Flagged(r))
<1> DEFINE q == Flagged(r)
<1>1. /\ q.status = r.status /\ q.attempts = r.attempts /\ q.owner = r.owner
      /\ q.lease = r.lease /\ q.ledger = r.ledger
  BY DEF Flagged, TaskRow
<1>2. q \in TaskRow
  <2>1. \A v \in Nat : [r EXCEPT !.cancelled = TRUE, !.version = v] \in TaskRow
    BY DEF TaskRow
  <2> QED
    BY <2>1, NextVersion, Zenon DEF Flagged
<1>3. LedgerOf(q)
  BY <1>1 DEF LedgerOf
<1> QED
  BY <1>1, <1>2, <1>3 DEF GoodVersion, RowStep, Kept

\* The row that add_dynamic_task inserts, and those that install does.
LEMMA NewVersion ==
    ASSUME NEW status \in {"READY", "PENDING", "ABSENT"}
    PROVE  NewRow(status) \in TaskRow /\ LedgerOf(NewRow(status))
<1>0. MaxAttempts \in Nat \ {0}
  BY StoreAssumption
<1> DEFINE q == NewRow(status)
<1>1. /\ q.status = status /\ q.attempts = 0 /\ q.owner = None /\ q.lease = "none"
      /\ q.ledger = [n \in Attempt |-> "NONE"]
  BY DEF NewRow
<1>2. q \in TaskRow
  BY <1>0 DEF NewRow, TaskRow, TaskState, AttemptStatus
<1>3. LedgerOf(q)
  BY <1>0, <1>1 DEF LedgerOf, Attempt
<1> QED
  BY <1>2, <1>3

-----------------------------------------------------------------------------
(* Lemmas about the three ways in which a statement touches the rows. *)

CommittedStep == \A t \in Task : RowStep(lock[t], task[t], task'[t])

\* An UPDATE of free rows inside a transaction.
LEMMA WriteKeepsRows ==
    ASSUME RowInv, NEW s \in Session, NEW S \in SUBSET Task, NEW q,
           \A t \in S : lock[t] = None /\ GoodVersion(s, task[t], q[t]),
           task' = task,
           draft' = [t \in Task |-> IF t \in S THEN q[t] ELSE draft[t]],
           lock' = [t \in Task |-> IF t \in S THEN s ELSE lock[t]]
    PROVE  RowInv' /\ CommittedStep
<1>1. task' \in [Task -> TaskRow] /\ draft' \in [Task -> TaskRow]
  BY DEF RowInv, GoodVersion
<1>2. lock' \in [Task -> Session \cup {None}]
  BY DEF RowInv
<1>3. \A t \in Task : LedgerOf(task'[t]) /\ LedgerOf(draft'[t])
  BY DEF RowInv, GoodVersion
<1>4. \A t \in Task : lock'[t] = None => draft'[t] = task'[t]
  BY StoreAssumption DEF RowInv
<1>5. \A t \in Task : RowStep(lock'[t], task'[t], draft'[t])
  BY DEF RowInv, GoodVersion
<1>6. CommittedStep
  BY DEF CommittedStep, RowStep, Kept
<1> QED
  BY <1>1, <1>2, <1>3, <1>4, <1>5, <1>6 DEF RowInv

\* The COMMIT of a transaction.
LEMMA CommitKeepsRows ==
    ASSUME RowInv, NEW s \in Session, Commit(s)
    PROVE  RowInv' /\ CommittedStep
<1>0. /\ task' = [t \in Task |-> IF lock[t] = s THEN draft[t] ELSE task[t]]
      /\ lock' = [t \in Task |-> IF lock[t] = s THEN None ELSE lock[t]]
      /\ draft' = draft
  BY DEF Commit, View
<1>1. task' \in [Task -> TaskRow] /\ draft' \in [Task -> TaskRow]
  BY <1>0 DEF RowInv
<1>2. lock' \in [Task -> Session \cup {None}]
  BY <1>0 DEF RowInv
<1>3. \A t \in Task : LedgerOf(task'[t]) /\ LedgerOf(draft'[t])
  BY <1>0 DEF RowInv
<1>4. \A t \in Task : lock'[t] = None => draft'[t] = task'[t]
  BY <1>0 DEF RowInv
<1>5. \A t \in Task : RowStep(lock'[t], task'[t], draft'[t])
  <2> TAKE t \in Task
  <2>1. CASE lock[t] = s
    BY <1>0, <2>1 DEF RowStep, Kept
  <2>2. CASE lock[t] # s
    BY <1>0, <2>2 DEF RowInv
  <2> QED
    BY <2>1, <2>2
<1>6. CommittedStep
  <2> SUFFICES ASSUME NEW t \in Task PROVE RowStep(lock[t], task[t], task'[t])
    BY DEF CommittedStep
  <2>1. CASE lock[t] = s
    BY <1>0, <2>1 DEF RowInv
  <2>2. CASE lock[t] # s
    BY <1>0, <2>2 DEF RowStep, Kept
  <2> QED
    BY <2>1, <2>2
<1> QED
  BY <1>1, <1>2, <1>3, <1>4, <1>5, <1>6 DEF RowInv

\* A statement that is a transaction of its own.
LEMMA AutocommitKeepsRows ==
    ASSUME RowInv, NEW t \in Task, NEW r, lock[t] = None,
           GoodVersion(None, task[t], r), Autocommit(t, r)
    PROVE  RowInv' /\ CommittedStep
<1>0. /\ task' = [task EXCEPT ![t] = r]
      /\ draft' = [draft EXCEPT ![t] = r]
      /\ lock' = lock
  BY DEF Autocommit
<1>1. task' \in [Task -> TaskRow] /\ draft' \in [Task -> TaskRow]
  BY <1>0 DEF RowInv, GoodVersion
<1>2. \A u \in Task : LedgerOf(task'[u]) /\ LedgerOf(draft'[u])
  BY <1>0 DEF RowInv, GoodVersion
<1>3. \A u \in Task : lock'[u] = None => draft'[u] = task'[u]
  BY <1>0 DEF RowInv
<1>4. \A u \in Task : RowStep(lock'[u], task'[u], draft'[u])
  <2> TAKE u \in Task
  <2>1. CASE u = t
    BY <1>0, <2>1 DEF RowInv, RowStep, Kept
  <2>2. CASE u # t
    BY <1>0, <2>2 DEF RowInv
  <2> QED
    BY <2>1, <2>2
<1>5. CommittedStep
  <2> SUFFICES ASSUME NEW u \in Task PROVE RowStep(lock[u], task[u], task'[u])
    BY DEF CommittedStep
  <2>1. CASE u = t
    BY <1>0, <2>1 DEF RowInv, GoodVersion
  <2>2. CASE u # t
    BY <1>0, <2>2 DEF RowInv, RowStep, Kept
  <2> QED
    BY <2>1, <2>2
<1> QED
  BY <1>0, <1>1, <1>2, <1>3, <1>4, <1>5 DEF RowInv

\* A statement that writes no task row.
LEMMA ReadKeepsRows ==
    ASSUME RowInv, UNCHANGED <<task, draft, lock>>
    PROVE  RowInv' /\ CommittedStep
<1>1. RowInv'
  BY DEF RowInv
<1>2. CommittedStep
  BY DEF CommittedStep, RowStep, Kept
<1> QED
  BY <1>1, <1>2

-----------------------------------------------------------------------------
(* The rows: RowInv is an invariant, and every step of a committed row is a *)
(* RowStep of the session that holds it.                                    *)

LEMMA InitRows == Init => RowInv
<1> SUFFICES ASSUME Init PROVE RowInv
  OBVIOUS
<1>1. \A t \in Task : Installed(t) \in TaskRow /\ LedgerOf(Installed(t))
  BY NewVersion DEF Installed
<1>2. /\ task = [t \in Task |-> Installed(t)] /\ draft = task
      /\ lock = [t \in Task |-> None]
  BY DEF Init
<1> QED
  BY <1>1, <1>2 DEF RowInv, RowStep, Kept

\* Every action writes rows as RowInv says, and commits only a version it had prepared.
LEMMA NextRows ==
    ASSUME RowInv, [Next]_vars
    PROVE  RowInv' /\ CommittedStep
<1>0. None \notin Session /\ MaxAttempts \in Nat \ {0}
      /\ Child \subseteq Task /\ ParentOf \in [Child -> Task]
  BY StoreAssumption
<1>r. /\ \A t \in Task : task[t] \in TaskRow /\ LedgerOf(task[t])
      /\ \A t \in Task : lock[t] = None => draft[t] = task[t]
  BY DEF RowInv
<1>t. \A t \in Task :
        \A le \in {"live", "lapsed"} :
           task[t].lease # "none" => GoodVersion(None, task[t], [task[t] EXCEPT !.lease = le])
  <2> TAKE t \in Task
  <2> TAKE le \in {"live", "lapsed"}
  <2> HAVE task[t].lease # "none"
  <2> DEFINE q == [task[t] EXCEPT !.lease = le]
  <2>1. q \in TaskRow
    BY <1>r DEF TaskRow
  <2>2. /\ q.status = task[t].status /\ q.attempts = task[t].attempts
        /\ q.ledger = task[t].ledger /\ q.owner = task[t].owner /\ q.lease = le
    BY <1>r DEF TaskRow
  <2>3. LedgerOf(q)
    BY <1>r, <2>2 DEF LedgerOf
  <2> QED
    BY <2>1, <2>2, <2>3 DEF GoodVersion, RowStep, Kept
<1>b. ASSUME NEW t \in Task PROVE GoodVersion(None, task[t], [task[t] EXCEPT !.backoff = FALSE])
  <2> DEFINE q == [task[t] EXCEPT !.backoff = FALSE]
  <2>1. q \in TaskRow
    BY <1>r DEF TaskRow
  <2>2. /\ q.status = task[t].status /\ q.attempts = task[t].attempts
        /\ q.ledger = task[t].ledger /\ q.owner = task[t].owner /\ q.lease = task[t].lease
    BY <1>r DEF TaskRow
  <2>3. LedgerOf(q)
    BY <1>r, <2>2 DEF LedgerOf
  <2> QED
    BY <2>1, <2>2, <2>3 DEF GoodVersion, RowStep, Kept
<1>1. CASE UNCHANGED vars
  BY <1>1, ReadKeepsRows DEF vars
<1>2. ASSUME NEW t \in Task, LeaseLapses(t) PROVE RowInv' /\ CommittedStep
  <2>1. lock[t] = None /\ task[t].lease # "none"
    BY <1>2 DEF LeaseLapses, Free
  <2> QED
    BY <1>2, <2>1, <1>t, AutocommitKeepsRows DEF LeaseLapses
<1>3. ASSUME NEW t \in Task, BackoffEnds(t) PROVE RowInv' /\ CommittedStep
  BY <1>3, <1>b, AutocommitKeepsRows DEF BackoffEnds, Free
<1>4. ASSUME NEW s \in Session, NEW t \in Task, Heartbeat(s, t)
      PROVE  RowInv' /\ CommittedStep
  <2>1. lock[t] = None /\ task[t].lease # "none"
    BY <1>4, <1>r DEF Heartbeat, Free, HoldsLease, LedgerOf
  <2> QED
    BY <1>4, <2>1, <1>t, AutocommitKeepsRows DEF Heartbeat
<1>5. ASSUME NEW s \in Session, NEW t \in Task, ClaimReady(s, t)
      PROVE  RowInv' /\ CommittedStep
  <2> DEFINE q == [u \in {t} |-> Claimed(task[u], s)]
  <2>1. /\ {t} \in SUBSET Task
        /\ lock[t] = None /\ task[t].status = "READY" /\ task[t].attempts < MaxAttempts
    BY <1>5, <1>0 DEF ClaimReady, Claimable, Free, View
  <2>2. GoodVersion(s, task[t], q[t])
    BY <2>1, <1>r, ClaimedVersion
  <2>3. /\ draft' = [u \in Task |-> IF u \in {t} THEN q[u] ELSE draft[u]]
        /\ lock' = [u \in Task |-> IF u \in {t} THEN s ELSE lock[u]]
        /\ task' = task
    BY <1>5 DEF ClaimReady, Write
  <2> HIDE DEF q
  <2> QED
    BY <2>1, <2>2, <2>3, WriteKeepsRows
<1>6. ASSUME NEW s \in Session, NEW t \in Task, NEW target \in FINISH_TARGETS,
             FinishRunning(s, t, target)
      PROVE  RowInv' /\ CommittedStep
  <2> DEFINE q == [u \in {t} |-> Released(task[u], target)]
  <2>1. /\ lock[t] = None /\ task[t].status = "RUNNING" /\ task[t].owner = s
        /\ {t} \in SUBSET Task /\ AttemptIsOpen(task[t])
    BY <1>6 DEF FinishRunning, Free, HoldsLease
  <2>2. GoodVersion(s, task[t], q[t])
    BY <2>1, <1>r, ReleasedVersion
  <2>3. /\ draft' = [u \in Task |-> IF u \in {t} THEN q[u] ELSE draft[u]]
        /\ lock' = [u \in Task |-> IF u \in {t} THEN s ELSE lock[u]]
        /\ task' = task
    BY <1>6 DEF FinishRunning, Write
  <2> HIDE DEF q
  <2> QED
    BY <2>1, <2>2, <2>3, WriteKeepsRows
<1>7. ASSUME NEW s \in Session, NEW S \in SUBSET Task, ReclaimExpired(s, S)
      PROVE  RowInv' /\ CommittedStep
  <2> DEFINE q == [u \in S |-> Released(task[u], ReclaimTarget(task[u]))]
  <2>1. \A t \in S : /\ lock[t] = None /\ task[t].status = "RUNNING"
                    /\ task[t].lease = "lapsed" /\ AttemptIsOpen(task[t])
                    /\ ReclaimTarget(task[t]) \in FINISH_TARGETS
    BY <1>7 DEF ReclaimExpired, Expired, Free, ReclaimTarget, FINISH_TARGETS,
                TERMINAL_TASK_STATES
  <2>2. \A t \in S : GoodVersion(s, task[t], q[t])
    BY <2>1, <1>r, ReleasedVersion
  <2>3. /\ draft' = [u \in Task |-> IF u \in S THEN q[u] ELSE draft[u]]
        /\ lock' = [u \in Task |-> IF u \in S THEN s ELSE lock[u]]
        /\ task' = task
    BY <1>7 DEF ReclaimExpired, Write
  <2> HIDE DEF q
  <2> QED
    BY <2>1, <2>2, <2>3, WriteKeepsRows
<1>8. ASSUME NEW s \in Session, NEW t \in Task,
             MarkReady(s, t) \/ ResumeWaiting(s, t) \/ ScheduleRetry(s, t)
      PROVE  RowInv' /\ CommittedStep
  <2>1. PICK wait \in BOOLEAN :
            Write(s, {t}, LAMBDA u : Readied(task[u], IF wait THEN TRUE ELSE task[u].backoff))
    BY <1>8 DEF MarkReady, ResumeWaiting, ScheduleRetry, Write
  <2> DEFINE q == [u \in {t} |-> Readied(task[u], IF wait THEN TRUE ELSE task[u].backoff)]
  <2>2. /\ {t} \in SUBSET Task
        /\ lock[t] = None /\ task[t].status \in {"PENDING", "WAITING", "FAILED_RETRYABLE"}
    BY <1>8 DEF MarkReady, ResumeWaiting, ScheduleRetry, Free
  <2>3. (IF wait THEN TRUE ELSE task[t].backoff) \in BOOLEAN
    BY <1>r DEF TaskRow
  <2>4. GoodVersion(s, task[t], q[t])
    BY <2>2, <2>3, <1>r, ReadiedVersion
  <2>5. /\ draft' = [u \in Task |-> IF u \in {t} THEN q[u] ELSE draft[u]]
        /\ lock' = [u \in Task |-> IF u \in {t} THEN s ELSE lock[u]]
        /\ task' = task
    BY <1>8, <2>1 DEF MarkReady, ResumeWaiting, ScheduleRetry, Write
  <2> HIDE DEF q
  <2> QED
    BY <2>2, <2>4, <2>5, WriteKeepsRows
<1>9. ASSUME NEW s \in Session, NEW t \in Task, Skip(s, t)
      PROVE  RowInv' /\ CommittedStep
  <2>1. lock[t] = None /\ GoodVersion(None, task[t], Skipped(task[t]))
    BY <1>9, <1>r, SkippedVersion DEF Skip, Free
  <2> QED
    BY <1>9, <2>1, AutocommitKeepsRows DEF Skip
<1>10. ASSUME NEW s \in Session, NEW c \in Child, AddDynamicTask(s, c)
       PROVE  RowInv' /\ CommittedStep
  <2> DEFINE S == {ParentOf[c], c}
             q == [u \in S |-> IF u = c THEN NewRow("READY") ELSE task[u]]
  <2>1. /\ S \in SUBSET Task /\ \A t \in S : lock[t] = None
        /\ task[c].status = "ABSENT"
    BY <1>10, <1>0 DEF AddDynamicTask, MayGrow, Free
  <2>2. GoodVersion(s, task[c], NewRow("READY"))
    <3>1. NewRow("READY") \in TaskRow /\ LedgerOf(NewRow("READY"))
      BY NewVersion
    <3>2. task[c].attempts = 0 /\ task[c].ledger = [n \in Attempt |-> "NONE"]
      <4>1. task[c] \in TaskRow /\ LedgerOf(task[c])
        BY <1>r, <2>1
      <4>2. task[c].attempts = 0
        BY <2>1, <4>1 DEF LedgerOf
      <4>3. task[c].ledger \in [Attempt -> AttemptStatus]
        BY <4>1 DEF TaskRow
      <4>4. \A n \in Attempt : task[c].ledger[n] = "NONE"
        BY <1>0, <4>1, <4>2 DEF LedgerOf, Attempt
      <4> QED
        BY <4>2, <4>3, <4>4
    <3> QED
      BY <2>1, <3>1, <3>2 DEF GoodVersion, RowStep, Turned, NewRow, StoreEdges
  <2>3. \A t \in S : GoodVersion(s, task[t], q[t])
    BY <2>1, <2>2, <1>r DEF GoodVersion, RowStep, Kept
  <2>4. /\ draft' = [u \in Task |-> IF u \in S THEN q[u] ELSE draft[u]]
        /\ lock' = [u \in Task |-> IF u \in S THEN s ELSE lock[u]]
        /\ task' = task
    BY <1>10 DEF AddDynamicTask, Write
  <2> HIDE DEF q, S
  <2> QED
    BY <2>1, <2>3, <2>4, WriteKeepsRows
<1>11. ASSUME NEW s \in Session, NEW t \in Task, CancelRow(s, t)
       PROVE  RowInv' /\ CommittedStep
  <2> DEFINE q == [u \in {t} |-> CancelledRow(task[u])]
  <2>1. {t} \in SUBSET Task /\ lock[t] = None /\ task' = task
    BY <1>11 DEF CancelRow, Free
  <2>2. CASE StillUnstarted(t)
    <3>1. GoodVersion(s, task[t], q[t])
      BY <2>2, <1>r, CancelledVersion DEF StillUnstarted
    <3>2. /\ draft' = [u \in Task |-> IF u \in {t} THEN q[u] ELSE draft[u]]
          /\ lock' = [u \in Task |-> IF u \in {t} THEN s ELSE lock[u]]
      BY <1>11, <2>2 DEF CancelRow, Write
    <3> HIDE DEF q
    <3> QED
      BY <2>1, <3>1, <3>2, WriteKeepsRows
  <2>3. CASE ~StillUnstarted(t)
    BY <1>11, <2>1, <2>3, ReadKeepsRows DEF CancelRow
  <2> QED
    BY <2>2, <2>3
<1>12. ASSUME NEW s \in Session, NEW t \in Task, FlagRow(s, t)
       PROVE  RowInv' /\ CommittedStep
  <2> DEFINE q == [u \in {t} |-> Flagged(task[u])]
  <2>1. {t} \in SUBSET Task /\ lock[t] = None /\ task' = task
    BY <1>12 DEF FlagRow, Free
  <2>2. CASE task[t].status = "RUNNING"
    <3>1. GoodVersion(s, task[t], q[t])
      BY <1>r, FlaggedVersion
    <3>2. /\ draft' = [u \in Task |-> IF u \in {t} THEN q[u] ELSE draft[u]]
          /\ lock' = [u \in Task |-> IF u \in {t} THEN s ELSE lock[u]]
      BY <1>12, <2>2 DEF FlagRow, Write
    <3> HIDE DEF q
    <3> QED
      BY <2>1, <3>1, <3>2, WriteKeepsRows
  <2>3. CASE task[t].status # "RUNNING"
    BY <1>12, <2>1, <2>3, ReadKeepsRows DEF FlagRow
  <2> QED
    BY <2>2, <2>3
<1>13. ASSUME NEW s \in Session,
              ClaimCommit(s) \/ WriteGraph(s) \/ SetGraphRunning(s) \/ GrowGraph(s)
       PROVE  RowInv' /\ CommittedStep
  <2>1. Commit(s)
    BY <1>13 DEF ClaimCommit, WriteGraph, SetGraphRunning, GrowGraph
  <2> QED
    BY <2>1, CommitKeepsRows
<1>14. ASSUME NEW s \in Session,
              \/ Recount(s) \/ RequestCancel(s) \/ CancelRunning(s) \/ CancelRecount(s)
              \/ \E t \in Task : ReadTask(s, t) \/ RefreshConflict(s, t)
              \/ \E F \in SUBSET Conditional : ListTasks(s, F)
       PROVE  RowInv' /\ CommittedStep
  <2>1. UNCHANGED <<task, draft, lock>>
    BY <1>14 DEF Recount, RequestCancel, CancelRunning, CancelRecount, ReadTask,
                 RefreshConflict, ListTasks
  <2> QED
    BY <2>1, ReadKeepsRows
<1>15. ASSUME NEW s \in Session, Rollback(s) PROVE RowInv' /\ CommittedStep
  <2>1. /\ draft' = [t \in Task |-> IF lock[t] = s THEN task[t] ELSE draft[t]]
        /\ lock' = [t \in Task |-> IF lock[t] = s THEN None ELSE lock[t]]
        /\ task' = task
    BY <1>15 DEF Rollback
  <2>2. \A t \in Task : RowStep(lock'[t], task'[t], draft'[t])
    BY <2>1 DEF RowInv, RowStep, Kept
  <2>3. CommittedStep
    BY <2>1 DEF CommittedStep, RowStep, Kept
  <2> QED
    BY <2>1, <2>2, <2>3 DEF RowInv
<1> QED
  <2>1. CASE Next
    BY <2>1, <1>2, <1>3, <1>4, <1>5, <1>6, <1>7, <1>8, <1>9, <1>10, <1>11, <1>12, <1>13,
       <1>14, <1>15 DEF Next
  <2> QED
    BY <1>1, <2>1

-----------------------------------------------------------------------------
(* The other variables. *)

LEMMA TallyType ==
    ASSUME NEW rows
    PROVE  TallyOf(rows) \in Tally /\ StatusOf(rows) \in TaskGraphState
<1>1. \A status : Cardinality(In(rows, status)) \in Nat
  <2> TAKE status
  <2>1. In(rows, status) \subseteq Task
    BY DEF In
  <2> QED
    BY <2>1, StoreAssumption, FS_Subset, FS_CardinalityType
<1>2. TallyOf(rows) \in Tally
  BY <1>1 DEF TallyOf, Tally
<1>3. StatusOf(rows) \in TaskGraphState
  BY DEF StatusOf, TaskGraphState
<1> QED
  BY <1>2, <1>3

ControlInv ==
    /\ graph \in GraphRow /\ graphLock \in Session \cup {None}
    /\ conn \in [Session -> Conn]
    /\ cancels \in 0 .. CancelLimit

LEMMA IdleType == Idle \in Conn
<1>1. MaxAttempts \in Nat /\ ClaimLimit \in Nat
  BY StoreAssumption
<1> QED
  BY <1>1 DEF Idle, Conn, PC, TaskGraphState, Tally, NoTally

LEMMA InitControl == Init => ControlInv
<1> SUFFICES ASSUME Init PROVE ControlInv
  OBVIOUS
<1>1. Task \ Child \subseteq Task /\ Cardinality(Task \ Child) \in Nat
  BY StoreAssumption, FS_Subset, FS_CardinalityType
<1>2. graph \in GraphRow
  BY <1>1 DEF Init, GraphRow, TaskGraphState, Tally, NoTally
<1>3. 0 \in 0 .. CancelLimit
  BY StoreAssumption
<1> QED
  BY <1>2, <1>3, IdleType DEF Init, ControlInv

\* The states a session can be left in.
LEMMA NextControl ==
    ASSUME RowInv, ControlInv, [Next]_vars
    PROVE  ControlInv'
<1>0. None \notin Session /\ None \notin Task /\ CancelLimit \in Nat
      /\ ClaimLimit \in Nat \ {0} /\ MaxAttempts \in Nat \ {0}
  BY StoreAssumption
<1>c. /\ graph \in GraphRow /\ graphLock \in Session \cup {None}
      /\ conn \in [Session -> Conn] /\ cancels \in 0 .. CancelLimit
  BY DEF ControlInv
<1>i. ASSUME NEW s \in Session, NEW k \in Conn, conn' = [conn EXCEPT ![s] = k]
      PROVE  conn' \in [Session -> Conn]
  BY <1>c, <1>i
<1>e. ASSUME NEW s \in Session, End(s) PROVE conn' \in [Session -> Conn]
  BY <1>c, <1>e, IdleType DEF End
<1>g. ASSUME NEW s \in Session, NEW pc \in PC, Goto(s, pc) PROVE conn' \in [Session -> Conn]
  BY <1>c, <1>g DEF Goto, Conn
<1>p. ASSUME NEW s \in Session, NEW pc \in PC, NEW rows \in SUBSET Task,
             conn' = [conn EXCEPT ![s].pc = pc, ![s].rows = rows]
      PROVE  conn' \in [Session -> Conn]
  <2>1. [conn[s] EXCEPT !.pc = pc, !.rows = rows] \in Conn
    <3>1. conn[s] \in Conn
      BY <1>c
    <3> QED
      BY <3>1 DEF Conn
  <2>2. conn' = [conn EXCEPT ![s] = [conn[s] EXCEPT !.pc = pc, !.rows = rows]]
    BY <1>c, <1>p
  <2> QED
    BY <1>i, <2>1, <2>2
<1>n. ASSUME NEW s \in Session, NEW left \in SUBSET Task, NextRow(s, left)
      PROVE  conn' \in [Session -> Conn]
  <2>1. conn[s].skips \in SUBSET Task
    BY <1>c DEF Conn
  <2>2. [Idle EXCEPT !.pc = "refreshing", !.rows = left, !.skips = conn[s].skips] \in Conn
    BY <2>1, IdleType DEF Conn, PC
  <2> QED
    BY <1>c, <1>n, <2>2, IdleType DEF NextRow
<1>1. CASE UNCHANGED vars
  BY <1>1 DEF ControlInv, vars
<1>2. ASSUME NEW t \in Task, LeaseLapses(t) \/ BackoffEnds(t) PROVE ControlInv'
  BY <1>2 DEF LeaseLapses, BackoffEnds, ControlInv
<1>3. ASSUME NEW s \in Session, NEW t \in Task, Heartbeat(s, t) PROVE ControlInv'
  BY <1>3 DEF Heartbeat, ControlInv
<1>4. ASSUME NEW s \in Session, NEW t \in Task, ClaimReady(s, t) PROVE ControlInv'
  <2> DEFINE left == (IF At(s, "idle") THEN ClaimLimit ELSE conn[s].left) - 1
  <2>1. conn[s] \in Conn /\ left \in 0 .. ClaimLimit
    BY <1>0, <1>4, <1>c DEF ClaimReady, InClaimLoop, At, Conn
  <2>2. conn' = [conn EXCEPT ![s].pc = "claiming", ![s].left = left]
    BY <1>4, <1>c DEF ClaimReady
  <2> HIDE DEF left
  <2>3. conn' \in [Session -> Conn]
    BY <1>c, <2>1, <2>2 DEF Conn, PC
  <2> QED
    BY <1>4, <1>c, <2>3 DEF ClaimReady, ControlInv
<1>5. ASSUME NEW s \in Session, ClaimCommit(s) PROVE ControlInv'
  BY <1>5, <1>e DEF ClaimCommit, ControlInv
<1>6. ASSUME NEW s \in Session, NEW t \in Task, NEW target \in FINISH_TARGETS,
             FinishRunning(s, t, target)
      PROVE  ControlInv'
  BY <1>6, <1>g DEF FinishRunning, ControlInv, PC
<1>7. ASSUME NEW s \in Session, NEW S \in SUBSET Task, ReclaimExpired(s, S)
      PROVE  ControlInv'
  BY <1>7, <1>g DEF ReclaimExpired, ControlInv, PC
<1>8. ASSUME NEW s \in Session, Recount(s) PROVE ControlInv'
  <2>1. TallyOf(View(s)) \in Tally /\ StatusOf(View(s)) \in TaskGraphState
    BY TallyType
  <2>2. PICK st \in TaskGraphState, ta \in Tally :
           conn' = [conn EXCEPT ![s].pc = "writing", ![s].status = st, ![s].tally = ta]
    BY <1>8, <2>1 DEF Recount
  <2>3. [conn[s] EXCEPT !.pc = "writing", !.status = st, !.tally = ta] \in Conn
    <3>1. conn[s] \in Conn
      BY <1>c
    <3> QED
      BY <3>1 DEF Conn, PC
  <2>4. conn' = [conn EXCEPT ![s] = [conn[s] EXCEPT !.pc = "writing", !.status = st,
                                                    !.tally = ta]]
    BY <1>c, <2>2
  <2>5. conn' \in [Session -> Conn]
    BY <1>i, <2>3, <2>4
  <2> QED
    BY <1>8, <1>c, <2>5 DEF Recount, ControlInv
<1>9. ASSUME NEW s \in Session, WriteGraph(s) PROVE ControlInv'
  <2>1. conn[s].rows \in SUBSET Task /\ conn[s].status \in TaskGraphState
        /\ conn[s].tally \in Tally
    BY <1>c DEF Conn
  <2>2. conn' \in [Session -> Conn]
    BY <1>9, <1>n, <2>1 DEF WriteGraph
  <2>3. graph' \in GraphRow
    BY <1>9, <1>c, <2>1 DEF WriteGraph, Recomputed, GraphRow
  <2> QED
    BY <1>9, <1>c, <2>2, <2>3 DEF WriteGraph, ControlInv
<1>10. ASSUME NEW s \in Session, NEW F \in SUBSET Conditional, ListTasks(s, F)
       PROVE  ControlInv'
  <2>1. PICK due \in SUBSET Task, skips \in SUBSET Task :
           conn' = [conn EXCEPT ![s].pc = "refreshing", ![s].rows = due, ![s].skips = skips]
    <3> DEFINE due == {t \in Task : Decided(t)}
               skips == {t \in due : Skips(t, F)}
    <3>1. due \in SUBSET Task /\ skips \in SUBSET Task
      OBVIOUS
    <3>2. conn' = [conn EXCEPT ![s].pc = "refreshing", ![s].rows = due, ![s].skips = skips]
      BY <1>10 DEF ListTasks
    <3> HIDE DEF due, skips
    <3> QED
      BY <3>1, <3>2
  <2>2. [conn[s] EXCEPT !.pc = "refreshing", !.rows = due, !.skips = skips] \in Conn
    <3>1. conn[s] \in Conn
      BY <1>c
    <3> QED
      BY <3>1 DEF Conn, PC
  <2>3. conn' = [conn EXCEPT ![s] = [conn[s] EXCEPT !.pc = "refreshing", !.rows = due,
                                                    !.skips = skips]]
    BY <1>c, <2>1
  <2>4. conn' \in [Session -> Conn]
    BY <1>i, <2>2, <2>3
  <2> QED
    BY <1>10, <1>c, <2>4 DEF ListTasks, ControlInv
<1>11. ASSUME NEW s \in Session, NEW t \in Task, MarkReady(s, t) PROVE ControlInv'
  <2>1. PICK rows \in SUBSET Task :
           conn' = [conn EXCEPT ![s].pc = "readying", ![s].rows = rows]
    <3>1. conn[s].rows \ {t} \in SUBSET Task
      BY <1>c DEF Conn
    <3>2. conn' = [conn EXCEPT ![s].pc = "readying", ![s].rows = conn[s].rows \ {t}]
      BY <1>c, <1>11 DEF MarkReady
    <3> QED
      BY <3>1, <3>2
  <2>2. conn' \in [Session -> Conn]
    BY <1>p, <2>1 DEF PC
  <2> QED
    BY <1>11, <1>c, <2>2 DEF MarkReady, ControlInv
<1>12. ASSUME NEW s \in Session, NEW t \in Task, Skip(s, t) PROVE ControlInv'
  <2>1. PICK rows \in SUBSET Task :
           conn' = [conn EXCEPT ![s].pc = "counting", ![s].rows = rows]
    <3>1. conn[s].rows \ {t} \in SUBSET Task
      BY <1>c DEF Conn
    <3>2. conn' = [conn EXCEPT ![s].pc = "counting", ![s].rows = conn[s].rows \ {t}]
      BY <1>c, <1>12 DEF Skip
    <3> QED
      BY <3>1, <3>2
  <2>2. conn' \in [Session -> Conn]
    BY <1>p, <2>1 DEF PC
  <2> QED
    BY <1>12, <1>c, <2>2 DEF Skip, ControlInv
<1>13. ASSUME NEW s \in Session, NEW t \in Task, RefreshConflict(s, t) PROVE ControlInv'
  <2>1. conn[s].rows \ {t} \in SUBSET Task
    BY <1>c DEF Conn
  <2> QED
    BY <1>13, <1>n, <2>1 DEF RefreshConflict, Drop, ControlInv
<1>14. ASSUME NEW s \in Session, SetGraphRunning(s) PROVE ControlInv'
  <2>1. conn[s].rows \in SUBSET Task
    BY <1>c DEF Conn
  <2>2. graph' \in GraphRow
    BY <1>14, <1>c DEF SetGraphRunning, GraphRow, TaskGraphState
  <2> QED
    BY <1>14, <1>n, <2>1, <2>2 DEF SetGraphRunning, ControlInv
<1>15. ASSUME NEW s \in Session, NEW t \in Task, ReadTask(s, t) PROVE ControlInv'
  <2>1. task[t].version \in Nat /\ task[t].attempts \in 0 .. MaxAttempts
    BY DEF RowInv, TaskRow
  <2>2. [Idle EXCEPT !.pc = "asking", !.asked = t, !.seen = task[t].version,
                     !.during = task[t].attempts] \in Conn
    BY <2>1, IdleType DEF Conn, PC
  <2> QED
    BY <1>15, <1>i, <2>2 DEF ReadTask, ControlInv
<1>16. ASSUME NEW s \in Session, NEW t \in Task, ResumeWaiting(s, t) \/ ScheduleRetry(s, t)
       PROVE  ControlInv'
  BY <1>16, <1>g DEF ResumeWaiting, ScheduleRetry, ControlInv, PC
<1>17. ASSUME NEW s \in Session, NEW k \in Child, AddDynamicTask(s, k) PROVE ControlInv'
  BY <1>17, <1>g DEF AddDynamicTask, ControlInv, PC
<1>18. ASSUME NEW s \in Session, GrowGraph(s) PROVE ControlInv'
  <2>1. graph.size + 1 \in Nat
    BY <1>c DEF GraphRow
  <2>2. \A n \in Nat : [graph EXCEPT !.size = n, !.status = "RUNNING"] \in GraphRow
    BY <1>c DEF GraphRow, TaskGraphState
  <2>3. graph' \in GraphRow
    BY <1>18, <2>1, <2>2, Zenon DEF GrowGraph
  <2> QED
    BY <1>18, <1>e, <2>3 DEF GrowGraph, ControlInv
<1>19. ASSUME NEW s \in Session, RequestCancel(s) PROVE ControlInv'
  <2>1. PICK rows \in SUBSET Task :
           conn' = [conn EXCEPT ![s].pc = "cancelling", ![s].rows = rows]
    BY <1>19 DEF RequestCancel
  <2>2. conn' \in [Session -> Conn]
    BY <1>p, <2>1 DEF PC
  <2>3. cancels' \in 0 .. CancelLimit
    BY <1>0, <1>19, <1>c DEF RequestCancel
  <2> QED
    BY <1>19, <1>c, <2>2, <2>3 DEF RequestCancel, ControlInv
<1>20. ASSUME NEW s \in Session, NEW t \in Task, CancelRow(s, t) \/ FlagRow(s, t)
       PROVE  ControlInv'
  <2>1. conn' = [conn EXCEPT ![s].rows = @ \ {t}]
    BY <1>20 DEF CancelRow, FlagRow
  <2>2. conn' \in [Session -> Conn]
    BY <1>c, <2>1 DEF Conn
  <2> QED
    BY <1>20, <1>c, <2>2 DEF CancelRow, FlagRow, ControlInv
<1>21. ASSUME NEW s \in Session, CancelRunning(s) PROVE ControlInv'
  <2>1. PICK rows \in SUBSET Task :
           conn' = [conn EXCEPT ![s].pc = "flagging", ![s].rows = rows]
    BY <1>21 DEF CancelRunning
  <2>2. conn' \in [Session -> Conn]
    BY <1>p, <2>1 DEF PC
  <2> QED
    BY <1>21, <1>c, <2>2 DEF CancelRunning, ControlInv
<1>22. ASSUME NEW s \in Session, CancelRecount(s) PROVE ControlInv'
  BY <1>22, <1>g DEF CancelRecount, ControlInv, PC
<1>23. ASSUME NEW s \in Session, Rollback(s) PROVE ControlInv'
  BY <1>23, <1>c, <1>e DEF Rollback, ControlInv
<1> QED
  <2>1. CASE Next
    BY <2>1, <1>2, <1>3, <1>4, <1>5, <1>6, <1>7, <1>8, <1>9, <1>10, <1>11, <1>12, <1>13,
       <1>14, <1>15, <1>16, <1>17, <1>18, <1>19, <1>20, <1>21, <1>22, <1>23 DEF Next
  <2> QED
    BY <1>1, <2>1

-----------------------------------------------------------------------------
(* The theorems. *)

Inv == RowInv /\ ControlInv

\* The inductive invariant.
THEOREM Invariance == Spec => []Inv
<1>1. Init => Inv
  BY InitRows, InitControl DEF Inv
<1>2. Inv /\ [Next]_vars => Inv'
  BY NextRows, NextControl DEF Inv
<1> QED
  BY <1>1, <1>2, PTL DEF Spec

\* Every variable of the store has its type, for any graph and any number of sessions.
THEOREM TypeCorrect == Spec => []TypeOK
<1>1. Inv => TypeOK
  BY DEF Inv, RowInv, ControlInv, TypeOK
<1> QED
  BY <1>1, Invariance, PTL

\* The committed attempt ledger always tells the task's history.
THEOREM LedgerCorrect == Spec => []AttemptLedger
<1>1. Inv => AttemptLedger
  BY DEF Inv, RowInv, AttemptLedger
<1> QED
  BY <1>1, Invariance, PTL

\* No statement of any session rewrites a closed attempt or reopens a finished task.
THEOREM HistoryFinal == Spec => HistoryIsFinal
<1>1. ASSUME Inv, [Next]_vars
      PROVE  \A t \in Task :
               /\ task[t].status \in TERMINAL_TASK_STATES => task'[t].status = task[t].status
               /\ \A n \in Attempt :
                     task[t].ledger[n] \notin {"NONE", "RUNNING"}
                      => task'[t].ledger[n] = task[t].ledger[n]
  <2> TAKE t \in Task
  <2>1. RowStep(lock[t], task[t], task'[t])
    BY <1>1, NextRows DEF Inv, CommittedStep
  <2>2. task[t] \in TaskRow /\ LedgerOf(task[t])
    BY <1>1 DEF Inv, RowInv
  <2>3. task[t].ledger \in [Attempt -> AttemptStatus]
    BY <2>2 DEF TaskRow
  <2>4. CASE Opened(lock[t], task[t], task'[t])
    BY <2>3, <2>4 DEF Opened, TERMINAL_TASK_STATES
  <2>5. CASE Closed(lock[t], task[t], task'[t])
    BY <2>3, <2>5 DEF Closed, TERMINAL_TASK_STATES
  <2>6. CASE Turned(task[t], task'[t])
    BY <2>6 DEF Turned, StoreEdges, Allowed, TERMINAL_TASK_STATES
  <2>7. CASE Kept(task[t], task'[t])
    BY <2>7 DEF Kept
  <2> QED
    BY <2>1, <2>4, <2>5, <2>6, <2>7 DEF RowStep
<1> QED
  BY <1>1, Invariance, PTL DEF Spec, HistoryIsFinal

\* An attempt has one owner, from its claim to its end, and a live lease protects the
\* owner's work from every other session.
THEOREM OwnerKeepsAttempt == Spec => OneOwnerPerAttempt
<1>1. ASSUME Inv, Inv', [Next]_vars
      PROVE  \A t \in Task :
               IF task[t].owner = None
               THEN task'[t].owner # None
                       => task'[t].owner = lock[t] /\ task'[t].attempts = task[t].attempts + 1
               ELSE \/ task'[t].owner = task[t].owner /\ task'[t].attempts = task[t].attempts
                    \/ /\ task'[t].owner = None
                       /\ lock[t] = task[t].owner \/ task[t].lease = "lapsed"
  <2> TAKE t \in Task
  <2>1. RowStep(lock[t], task[t], task'[t])
    BY <1>1, NextRows DEF Inv, CommittedStep
  <2>2. LedgerOf(task[t]) /\ LedgerOf(task'[t])
    BY <1>1 DEF Inv, RowInv
  <2>3. /\ task[t].status = "RUNNING" <=> task[t].owner # None
        /\ task'[t].status = "RUNNING" <=> task'[t].owner # None
    BY <2>2 DEF LedgerOf
  <2>4. CASE Opened(lock[t], task[t], task'[t])
    BY <2>3, <2>4 DEF Opened
  <2>5. CASE Closed(lock[t], task[t], task'[t])
    BY <2>3, <2>5 DEF Closed, FINISH_TARGETS, TERMINAL_TASK_STATES
  <2>6. CASE Turned(task[t], task'[t])
    BY <2>3, <2>6 DEF Turned
  <2>7. CASE Kept(task[t], task'[t])
    BY <2>7 DEF Kept
  <2> QED
    BY <2>1, <2>4, <2>5, <2>6, <2>7 DEF RowStep
<1> QED
  BY <1>1, Invariance, PTL DEF Spec, OneOwnerPerAttempt

\* The store implements the abstract ledger: each of its steps is a step of the ledger
\* for every task that it touches, or leaves the ledger alone.
THEOREM StoreImplementsLedger == Spec => ImplementsLedger
<1>1. Init => Ledger!Init
  <2> SUFFICES ASSUME Init PROVE Ledger!Init
    OBVIOUS
  <2>1. task = [t \in Task |-> Installed(t)]
    BY DEF Init
  <2>2. \A t \in Task :
          /\ Installed(t).status \in {"PENDING", "READY", "ABSENT"}
          /\ Installed(t).attempts = 0
          /\ Installed(t).ledger = [n \in 1 .. MaxAttempts |-> "NONE"]
    BY DEF Installed, NewRow, Attempt
  <2> QED
    BY <2>1, <2>2 DEF Ledger!Init
<1>2. ASSUME Inv, [Next]_vars PROVE [Ledger!Next]_(Ledger!vars)
  <2>1. RowInv' /\ CommittedStep
    BY <1>2, NextRows DEF Inv
  <2>2. \A t \in Task : task[t] \in TaskRow /\ task'[t] \in TaskRow
    BY <1>2, <2>1 DEF Inv, RowInv
  <2>3. ASSUME NEW t \in Task
        PROVE  Ledger!Stays(t) \/ Ledger!Opens(t) \/ Ledger!Closes(t) \/ Ledger!Turns(t)
    <3>1. RowStep(lock[t], task[t], task'[t])
      BY <2>1 DEF CommittedStep
    <3>2. CASE Opened(lock[t], task[t], task'[t])
      BY <3>2 DEF Opened, Ledger!Opens, Ledger!Moves, StoreEdges, Allowed
    <3>3. CASE Closed(lock[t], task[t], task'[t])
      BY <3>3 DEF Closed, FINISH_TARGETS, TERMINAL_TASK_STATES, Ledger!Closes,
                  Ledger!Moves, StoreEdges, Allowed
    <3>4. CASE Turned(task[t], task'[t])
      BY <3>4 DEF Turned, Ledger!Turns, Ledger!Moves
    <3>5. CASE Kept(task[t], task'[t])
      BY <3>5 DEF Kept, Ledger!Stays
    <3> QED
      BY <3>1, <3>2, <3>3, <3>4, <3>5 DEF RowStep
  <2>4. Ledger!Next
    BY <2>2, <2>3 DEF Ledger!Next, TaskRow, Attempt
  <2> QED
    BY <2>4
<1> QED
  BY <1>1, <1>2, Invariance, PTL DEF Spec, ImplementsLedger, Ledger!Spec

-----------------------------------------------------------------------------
(* One actor at a time. *)

\* What a session may do.
Step(s) ==
    \/ ClaimCommit(s) \/ Recount(s) \/ WriteGraph(s) \/ SetGraphRunning(s)
    \/ GrowGraph(s) \/ RequestCancel(s) \/ CancelRunning(s) \/ CancelRecount(s)
    \/ Rollback(s)
    \/ \E t \in Task :
        \/ ClaimReady(s, t) \/ Heartbeat(s, t) \/ ReadTask(s, t)
        \/ \E target \in FINISH_TARGETS : FinishRunning(s, t, target)
        \/ MarkReady(s, t) \/ Skip(s, t) \/ RefreshConflict(s, t)
        \/ ResumeWaiting(s, t) \/ ScheduleRetry(s, t)
        \/ CancelRow(s, t) \/ FlagRow(s, t)
    \/ \E c \in Child : AddDynamicTask(s, c)
    \/ \E S \in SUBSET Task : ReclaimExpired(s, S)
    \/ \E F \in SUBSET Conditional : ListTasks(s, F)

\* The passing of time, which no session does.
Passing == \E t \in Task : LeaseLapses(t) \/ BackoffEnds(t)

\* A step is time passing, or one statement of one session.
LEMMA NextIsSomeStep == Next <=> Passing \/ \E s \in Session : Step(s)
BY Zenon DEF Next, Step, Passing

\* A step leaves session s, and the rows that s holds, as they are.
Undisturbed(s) ==
    /\ conn'[s] = conn[s]
    /\ graphLock' = s <=> graphLock = s
    /\ \A t \in Task :
          /\ lock'[t] = s <=> lock[t] = s
          /\ lock[t] = s => draft'[t] = draft[t] /\ task'[t] = task[t]

\* Row locks work: a session neither moves another nor touches a row that another holds.
LEMMA OthersUndisturbed ==
    ASSUME Inv, NEW s \in Session, Step(s), NEW o \in Session, o # s
    PROVE  Undisturbed(o)
<1>0. /\ None \notin Session /\ Child \subseteq Task /\ ParentOf \in [Child -> Task]
      /\ conn \in [Session -> Conn]
      /\ task \in [Task -> TaskRow] /\ draft \in [Task -> TaskRow]
      /\ lock \in [Task -> Session \cup {None}]
  BY StoreAssumption DEF Inv, RowInv, ControlInv
<1> DEFINE RowsKept ==
              \A t \in Task :
                  /\ lock'[t] = o <=> lock[t] = o
                  /\ lock[t] = o => draft'[t] = draft[t] /\ task'[t] = task[t]
           Same == conn'[o] = conn[o] /\ (graphLock' = o <=> graphLock = o) /\ RowsKept
<1> SUFFICES Same
  BY DEF Undisturbed
<1>v. ASSUME NEW S \in SUBSET Task, NEW row(_), \A t \in S : Free(t), task' = task,
             Write(s, S, row)
      PROVE  RowsKept
  BY <1>0, <1>v DEF Free, Write
<1>c. ASSUME Commit(s) PROVE RowsKept
  BY <1>0, <1>c DEF Commit, View
<1>a. ASSUME NEW t \in Task, Free(t), NEW r, Autocommit(t, r) PROVE RowsKept
  BY <1>0, <1>a DEF Autocommit, Free
<1>r. ASSUME UNCHANGED <<task, draft, lock>> PROVE RowsKept
  BY <1>r
<1>n. ASSUME NEW left, NextRow(s, left) PROVE conn'[o] = conn[o]
  BY <1>0, <1>n DEF NextRow
<1> HIDE DEF RowsKept
<1>1. ASSUME NEW t \in Task, ClaimReady(s, t) PROVE Same
  <2>1. RowsKept
    BY <1>1, <1>v DEF ClaimReady, Claimable
  <2> QED
    BY <1>0, <1>1, <2>1 DEF ClaimReady
<1>2. ASSUME NEW t \in Task, Heartbeat(s, t) PROVE Same
  BY <1>2, <1>a DEF Heartbeat
<1>3. ASSUME NEW t \in Task, NEW target \in FINISH_TARGETS, FinishRunning(s, t, target)
      PROVE  Same
  <2>1. RowsKept
    BY <1>3, <1>v DEF FinishRunning
  <2> QED
    BY <1>0, <1>3, <2>1 DEF FinishRunning, Goto
<1>4. ASSUME NEW S \in SUBSET Task, ReclaimExpired(s, S) PROVE Same
  <2>1. RowsKept
    BY <1>4, <1>v DEF ReclaimExpired, Expired
  <2> QED
    BY <1>0, <1>4, <2>1 DEF ReclaimExpired, Goto
<1>5. ASSUME NEW t \in Task, MarkReady(s, t) \/ ResumeWaiting(s, t) \/ ScheduleRetry(s, t)
      PROVE  Same
  <2>1. RowsKept
    BY <1>5, <1>v DEF MarkReady, ResumeWaiting, ScheduleRetry
  <2> QED
    BY <1>0, <1>5, <2>1 DEF MarkReady, ResumeWaiting, ScheduleRetry, Goto
<1>6. ASSUME NEW t \in Task, Skip(s, t) PROVE Same
  BY <1>0, <1>6, <1>a DEF Skip
<1>7. ASSUME NEW c \in Child, AddDynamicTask(s, c) PROVE Same
  <2>1. RowsKept
    BY <1>0, <1>7, <1>v DEF AddDynamicTask, MayGrow
  <2> QED
    BY <1>0, <1>7, <2>1 DEF AddDynamicTask, Goto
<1>8. ASSUME NEW t \in Task, CancelRow(s, t) \/ FlagRow(s, t) PROVE Same
  <2>1. RowsKept
    BY <1>8, <1>v, <1>r DEF CancelRow, FlagRow
  <2> QED
    BY <1>0, <1>8, <2>1 DEF CancelRow, FlagRow
<1>9. ASSUME ClaimCommit(s) \/ WriteGraph(s) \/ SetGraphRunning(s) \/ GrowGraph(s)
      PROVE  Same
  <2>1. RowsKept
    BY <1>9, <1>c DEF ClaimCommit, WriteGraph, SetGraphRunning, GrowGraph
  <2>2. conn'[o] = conn[o]
    BY <1>0, <1>9, <1>n DEF ClaimCommit, WriteGraph, SetGraphRunning, GrowGraph, End
  <2> QED
    BY <1>0, <1>9, <2>1, <2>2
       DEF ClaimCommit, WriteGraph, SetGraphRunning, GrowGraph, GraphFree
<1>10. ASSUME \/ Recount(s) \/ RequestCancel(s) \/ CancelRunning(s) \/ CancelRecount(s)
              \/ \E F \in SUBSET Conditional : ListTasks(s, F)
              \/ \E t \in Task : ReadTask(s, t) \/ RefreshConflict(s, t)
       PROVE  Same
  <2>1. RowsKept
    BY <1>10, <1>r DEF Recount, RequestCancel, CancelRunning, CancelRecount, ListTasks,
                       ReadTask, RefreshConflict
  <2>2. conn'[o] = conn[o]
    BY <1>0, <1>10, <1>n DEF Recount, RequestCancel, CancelRunning, CancelRecount,
                       ListTasks, ReadTask, RefreshConflict, Goto, Drop
  <2> QED
    BY <1>0, <1>10, <2>1, <2>2 DEF Recount, RequestCancel, CancelRunning, CancelRecount,
                       ListTasks, ReadTask, RefreshConflict
<1>11. ASSUME Rollback(s) PROVE Same
  <2>1. RowsKept
    BY <1>0, <1>11 DEF Rollback, RowsKept
  <2> QED
    BY <1>0, <1>11, <2>1 DEF Rollback, End
<1> QED
  BY <1>1, <1>2, <1>3, <1>4, <1>5, <1>6, <1>7, <1>8, <1>9, <1>10, <1>11, Zenon DEF Step

\* A lease or a backoff that runs out touches no row that is held.
LEMMA PassingUndisturbed ==
    ASSUME Inv, Passing, NEW o \in Session
    PROVE  Undisturbed(o)
<1>1. /\ None \notin Session /\ task \in [Task -> TaskRow] /\ draft \in [Task -> TaskRow]
  BY StoreAssumption DEF Inv, RowInv
<1>2. PICK t \in Task : LeaseLapses(t) \/ BackoffEnds(t)
  BY DEF Passing
<1>3. PICK r : Autocommit(t, r)
  BY <1>2 DEF LeaseLapses, BackoffEnds
<1>4. Free(t) /\ conn' = conn /\ graphLock' = graphLock
  BY <1>2 DEF LeaseLapses, BackoffEnds
<1> QED
  BY <1>1, <1>3, <1>4 DEF Undisturbed, Autocommit, Free

\* The fields of the rows that the statements write.
LEMMA WrittenFields ==
    ASSUME NEW r \in TaskRow
    PROVE  /\ \A s : /\ Claimed(r, s).status = "RUNNING"
                     /\ Claimed(r, s).attempts = r.attempts + 1
                     /\ Claimed(r, s).version = r.version + 1
           /\ \A v : /\ Released(r, v).status = v
                     /\ Released(r, v).attempts = r.attempts
                     /\ Released(r, v).version = r.version + 1
           /\ \A w : /\ Readied(r, w).status = "READY"
                     /\ Readied(r, w).attempts = r.attempts
                     /\ Readied(r, w).version = r.version + 1
           /\ /\ Skipped(r).status = "SKIPPED"
              /\ Skipped(r).attempts = r.attempts
              /\ Skipped(r).version = r.version + 1
           /\ /\ CancelledRow(r).status = "CANCELLED"
              /\ CancelledRow(r).attempts = r.attempts
              /\ CancelledRow(r).version = r.version + 1
           /\ /\ Flagged(r).status = r.status /\ Flagged(r).cancelled
              /\ Flagged(r).attempts = r.attempts
              /\ Flagged(r).version = r.version + 1
BY DEF TaskRow, Claimed, Released, Readied, Skipped, CancelledRow, Flagged

-----------------------------------------------------------------------------
(* What a session holds, by where it stands.                                 *)

\* The row was open to a request, and was made READY.
Requeued(r, q) ==
    /\ r.status \in {"PENDING", "WAITING", "FAILED_RETRYABLE"}
    /\ Turned(r, q) /\ q.status = "READY"

\* request_cancel has ended the task, or told its worker to stop.
Stopped(r, q) ==
    \/ r.status \in Unstarted /\ Turned(r, q) /\ q.status = "CANCELLED"
    \/ r.status = "RUNNING" /\ Kept(r, q) /\ q.cancelled

\* s inserts the child t and holds its parent, which runs.
Inserted(s, t) ==
    /\ t \in Child /\ task[t].status = "ABSENT" /\ Turned(task[t], draft[t])
    /\ lock[ParentOf[t]] = s /\ task[ParentOf[t]].status = "RUNNING"

Holding(s, t) ==
    \/ graphLock = s /\ Stopped(task[t], draft[t])
    \/ /\ graphLock # s
       /\ \/ At(s, "claiming") /\ Opened(s, task[t], draft[t])
          \/ At(s, "readying") /\ Requeued(task[t], draft[t])
          \/ At(s, "growing") /\ (Kept(task[t], draft[t]) \/ Inserted(s, t))
          \/ conn[s].pc \in {"counting", "writing"} /\ Closed(s, task[t], draft[t])

HeldBy(s) ==
    /\ \A t \in Task : lock[t] = s => Holding(s, t)
    /\ graphLock = s => conn[s].pc \in {"cancelling", "flagging", "counting", "writing"}
    /\ conn[s].pc \in {"cancelling", "flagging"} => graphLock = s
    /\ conn[s].pc \in {"idle", "asking", "claiming", "growing"} => conn[s].rows = {}
    /\ graphLock = s /\ conn[s].pc \in {"counting", "writing"} => conn[s].rows = {}

HeldInv == \A s \in Session : HeldBy(s)

LEMMA InitHeld == Init => HeldInv
BY StoreAssumption DEF Init, HeldInv, HeldBy, Idle

\* What a session holds stays true while others move: a child's parent is held too.
LEMMA UndisturbedHeld ==
    ASSUME NEW s \in Session, HeldBy(s), Undisturbed(s)
    PROVE  HeldBy(s)'
<1>0. Child \subseteq Task /\ ParentOf \in [Child -> Task]
  BY StoreAssumption
<1>1. \A t \in Task : lock'[t] = s => Holding(s, t)'
  BY <1>0 DEF HeldBy, Undisturbed, Holding, Inserted, At
<1> QED
  BY <1>1 DEF HeldBy, Undisturbed

\* A session's own statement leaves it holding what its place in the method says.
LEMMA StepHeld ==
    ASSUME Inv, NEW s \in Session, HeldBy(s), Step(s)
    PROVE  HeldBy(s)'
<1>0. /\ None \notin Session /\ Child \subseteq Task /\ ParentOf \in [Child -> Task]
      /\ conn \in [Session -> Conn]
      /\ task \in [Task -> TaskRow] /\ draft \in [Task -> TaskRow]
      /\ lock \in [Task -> Session \cup {None}]
  BY StoreAssumption DEF Inv, RowInv, ControlInv
<1>h. /\ \A t \in Task : lock[t] = s => Holding(s, t)
      /\ graphLock = s => conn[s].pc \in {"cancelling", "flagging", "counting", "writing"}
      /\ conn[s].pc \in {"cancelling", "flagging"} => graphLock = s
      /\ conn[s].pc \in {"idle", "asking", "claiming", "growing"} => conn[s].rows = {}
      /\ graphLock = s /\ conn[s].pc \in {"counting", "writing"} => conn[s].rows = {}
  BY DEF HeldBy
<1>r. \A t \in Task : RowStep(lock'[t], task'[t], draft'[t])
  <2>1. [Next]_vars
    BY NextIsSomeStep
  <2> QED
    BY <2>1, NextRows DEF Inv, RowInv
\* A session that reads, waits or stands idle holds nothing.
<1>f. conn[s].pc \in {"idle", "refreshing", "asking"}
         => graphLock # s /\ \A t \in Task : lock[t] # s
  BY <1>h DEF Holding, At
<1>n. ASSUME NEW left, NextRow(s, left)
      PROVE  \/ left = {} /\ conn'[s] = Idle
             \/ conn'[s].pc = "refreshing" /\ conn'[s].rows = left
  BY <1>0, <1>n DEF NextRow, Idle
<1>1. ASSUME NEW t \in Task, ClaimReady(s, t) PROVE HeldBy(s)'
  <2>1. /\ conn'[s].pc = "claiming" /\ conn'[s].rows = {}
        /\ graphLock' = graphLock /\ graphLock # s
    BY <1>0, <1>1, <1>h DEF ClaimReady, At, InClaimLoop, Conn
  <2>2. /\ lock[t] = None /\ task[t].status = "READY" /\ draft'[t].status = "RUNNING"
        /\ task' = task
        /\ \A u \in Task \ {t} : draft'[u] = draft[u] /\ lock'[u] = lock[u]
    BY <1>0, <1>1 DEF ClaimReady, Claimable, Free, View, Write, Claimed, TaskRow
  <2>3. \A u \in Task : lock'[u] = s => Opened(s, task'[u], draft'[u])
    <3> SUFFICES ASSUME NEW u \in Task, lock'[u] = s PROVE Opened(s, task'[u], draft'[u])
      OBVIOUS
    <3>1. CASE u = t
      BY <1>r, <2>2, <3>1 DEF RowStep, Closed, Turned, Kept
    <3>2. CASE u # t
      BY <1>1, <1>f, <1>h, <2>1, <2>2, <3>2 DEF ClaimReady, InClaimLoop, Holding, At
    <3> QED
      BY <3>1, <3>2
  <2> QED
    BY <2>1, <2>3 DEF HeldBy, Holding, At
<1>2. ASSUME NEW t \in Task, Heartbeat(s, t) PROVE HeldBy(s)'
  <2>1. lock' = lock /\ conn' = conn /\ graphLock' = graphLock /\ At(s, "idle")
    BY <1>2 DEF Heartbeat, Autocommit
  <2> QED
    BY <2>1, <1>f, <1>h DEF HeldBy, At
<1>3. ASSUME At(s, "idle"), Goto(s, "counting"), UNCHANGED <<task, graphLock>>,
             \A t \in Task : lock'[t] = s =>
                task[t].status = "RUNNING" /\ draft'[t].status \in FINISH_TARGETS
      PROVE  HeldBy(s)'
  <2>1. /\ conn'[s].pc = "counting" /\ conn'[s].rows = {}
        /\ graphLock' = graphLock /\ graphLock # s
    BY <1>0, <1>3, <1>h DEF Goto, At, Conn
  <2>2. \A t \in Task : lock'[t] = s => Closed(s, task'[t], draft'[t])
    BY <1>r, <1>3 DEF RowStep, Opened, Turned, Kept, FINISH_TARGETS, TERMINAL_TASK_STATES
  <2> QED
    BY <2>1, <2>2 DEF HeldBy, Holding, At
<1>4. ASSUME NEW t \in Task, NEW target \in FINISH_TARGETS, FinishRunning(s, t, target)
      PROVE  HeldBy(s)'
  <2>1. \A u \in Task : lock'[u] = s =>
           task[u].status = "RUNNING" /\ draft'[u].status \in FINISH_TARGETS
    BY <1>0, <1>4, <1>f, WrittenFields DEF FinishRunning, HoldsLease, Write, At
  <2> QED
    BY <1>3, <1>4, <2>1 DEF FinishRunning
<1>5. ASSUME NEW S \in SUBSET Task, ReclaimExpired(s, S) PROVE HeldBy(s)'
  <2>1. \A t \in S : /\ task[t].status = "RUNNING"
                    /\ ReclaimTarget(task[t]) \in FINISH_TARGETS
    BY <1>5 DEF ReclaimExpired, Expired, ReclaimTarget, FINISH_TARGETS, TERMINAL_TASK_STATES
  <2>2. \A u \in Task : lock'[u] = s =>
           task[u].status = "RUNNING" /\ draft'[u].status \in FINISH_TARGETS
    BY <1>0, <1>5, <1>f, <2>1, WrittenFields DEF ReclaimExpired, Write, At
  <2> QED
    BY <1>3, <1>5, <2>2 DEF ReclaimExpired
<1>6. ASSUME NEW t \in Task, MarkReady(s, t) \/ ResumeWaiting(s, t) \/ ScheduleRetry(s, t)
      PROVE  HeldBy(s)'
  <2>1. conn'[s].pc = "readying" /\ graphLock' = graphLock /\ graphLock # s
    BY <1>0, <1>6, <1>f DEF MarkReady, ResumeWaiting, ScheduleRetry, Goto, At, Conn
  <2>2. \A u \in Task : lock'[u] = s =>
           /\ task'[u].status \in {"PENDING", "WAITING", "FAILED_RETRYABLE"}
           /\ draft'[u].status = "READY"
    <3>1. task[t].status \in {"PENDING", "WAITING", "FAILED_RETRYABLE"}
      BY <1>6 DEF MarkReady, ResumeWaiting, ScheduleRetry
    <3>2. /\ \A u \in Task \ {t} : lock'[u] = lock[u]
          /\ \E w : draft'[t] = Readied(task[t], w)
      BY <1>0, <1>6 DEF MarkReady, ResumeWaiting, ScheduleRetry, Write
    <3>3. task' = task /\ \A u \in Task : lock[u] # s
      BY <1>6, <1>f DEF MarkReady, ResumeWaiting, ScheduleRetry, At
    <3> QED
      BY <1>0, <3>1, <3>2, <3>3, WrittenFields
  <2>3. \A u \in Task : lock'[u] = s => Requeued(task'[u], draft'[u])
    BY <1>r, <2>2 DEF RowStep, Opened, Closed, Turned, Kept, Requeued
  <2> QED
    BY <2>1, <2>3 DEF HeldBy, Holding, At
<1>7. ASSUME NEW t \in Task, Skip(s, t) PROVE HeldBy(s)'
  <2>1. /\ conn'[s].pc = "counting" /\ graphLock' = graphLock /\ graphLock # s
        /\ lock' = lock /\ \A u \in Task : lock[u] # s
    BY <1>0, <1>7, <1>f DEF Skip, Autocommit, At, Conn
  <2> QED
    BY <2>1 DEF HeldBy
<1>8. ASSUME NEW c \in Child, AddDynamicTask(s, c) PROVE HeldBy(s)'
  <2>1. /\ conn'[s].pc = "growing" /\ conn'[s].rows = {}
        /\ graphLock' = graphLock /\ graphLock # s
    BY <1>0, <1>8, <1>f, <1>h DEF AddDynamicTask, Goto, At, Conn
  <2>2. /\ c \in Task /\ ParentOf[c] \in Task
        /\ task[c].status = "ABSENT" /\ task[ParentOf[c]].status = "RUNNING"
        /\ task' = task /\ \A u \in Task : lock[u] # s
        /\ lock' = [u \in Task |-> IF u \in {ParentOf[c], c} THEN s ELSE lock[u]]
        /\ draft'[c] = NewRow("READY") /\ draft'[ParentOf[c]] = task[ParentOf[c]]
    BY <1>0, <1>8, <1>f DEF AddDynamicTask, MayGrow, Write, At
  <2>3. draft'[c].status = "READY"
    BY <2>2 DEF NewRow
  <2>4. Turned(task'[c], draft'[c])
    BY <1>r, <2>2, <2>3 DEF RowStep, Opened, Closed, Kept
  <2>5. \A u \in Task : lock'[u] = s => (Kept(task'[u], draft'[u]) \/ Inserted(s, u)')
    BY <2>2, <2>4 DEF Kept, Inserted
  <2> QED
    BY <2>1, <2>5 DEF HeldBy, Holding, At
<1>9. ASSUME ClaimCommit(s) \/ WriteGraph(s) \/ SetGraphRunning(s) \/ GrowGraph(s)
      PROVE  HeldBy(s)'
  <2>1. \A t \in Task : lock'[t] # s
    BY <1>0, <1>9 DEF ClaimCommit, WriteGraph, SetGraphRunning, GrowGraph, Commit
  <2>2. graphLock' # s
    BY <1>0, <1>9, <1>h DEF ClaimCommit, WriteGraph, SetGraphRunning, GrowGraph, At
  <2>3. \/ conn'[s] = Idle
        \/ conn'[s].pc = "refreshing"
    BY <1>0, <1>9, <1>n DEF ClaimCommit, WriteGraph, SetGraphRunning, GrowGraph, End
  <2> QED
    BY <2>1, <2>2, <2>3 DEF HeldBy, Idle
<1>10. ASSUME \/ \E F \in SUBSET Conditional : ListTasks(s, F)
              \/ \E t \in Task : ReadTask(s, t) \/ RefreshConflict(s, t)
       PROVE  HeldBy(s)'
  <2>1. lock' = lock /\ graphLock' = graphLock /\ graphLock # s /\ \A t \in Task : lock[t] # s
    BY <1>10, <1>f DEF ListTasks, ReadTask, RefreshConflict, At
  <2>2. \/ conn'[s].pc = "refreshing"
        \/ conn'[s].pc = "asking" /\ conn'[s].rows = {}
        \/ conn'[s] = Idle
    <3>1. CASE \E F \in SUBSET Conditional : ListTasks(s, F)
      <4>1. PICK rows, skips :
               conn' = [conn EXCEPT ![s].pc = "refreshing", ![s].rows = rows, ![s].skips = skips]
        BY <3>1, Zenon DEF ListTasks
      <4> QED
        BY <1>0, <4>1 DEF Conn
    <3>2. CASE \E t \in Task : ReadTask(s, t)
      BY <1>0, <3>2 DEF ReadTask, Idle
    <3>3. CASE \E t \in Task : RefreshConflict(s, t)
      BY <3>3, <1>n DEF RefreshConflict, Drop
    <3> QED
      BY <1>10, <3>1, <3>2, <3>3
  <2> QED
    BY <2>1, <2>2 DEF HeldBy, Idle
<1>11. ASSUME Recount(s) PROVE HeldBy(s)'
  <2>1. /\ conn'[s].pc = "writing" /\ conn'[s].rows = conn[s].rows /\ conn[s].pc = "counting"
        /\ UNCHANGED <<task, draft, lock, graphLock>>
    BY <1>0, <1>11 DEF Recount, At, Conn
  <2> QED
    BY <1>h, <2>1 DEF HeldBy, Holding, At
<1>12. ASSUME RequestCancel(s) PROVE HeldBy(s)'
  <2>1. conn'[s].pc = "cancelling" /\ lock' = lock /\ graphLock' = s
        /\ \A t \in Task : lock[t] # s
    BY <1>0, <1>12, <1>f DEF RequestCancel, At, Conn
  <2> QED
    BY <2>1 DEF HeldBy
<1>13. ASSUME NEW t \in Task, CancelRow(s, t) \/ FlagRow(s, t) PROVE HeldBy(s)'
  <2>1. /\ conn'[s].pc = conn[s].pc /\ conn[s].pc \in {"cancelling", "flagging"}
        /\ graphLock = s /\ graphLock' = s /\ task' = task
    BY <1>0, <1>13, <1>h DEF CancelRow, FlagRow, At, Conn
  <2>2. \A u \in Task \ {t} : draft'[u] = draft[u] /\ lock'[u] = lock[u]
    BY <1>0, <1>13 DEF CancelRow, FlagRow, Write
  <2>3. lock'[t] = s => \/ task[t].status \in Unstarted /\ draft'[t].status = "CANCELLED"
                        \/ task[t].status = "RUNNING" /\ draft'[t].status = "RUNNING"
                           /\ draft'[t].cancelled
    <3>1. lock[t] # s
      BY <1>0, <1>13 DEF CancelRow, FlagRow, Free
    <3>2. CASE CancelRow(s, t)
      BY <1>0, <3>1, <3>2, WrittenFields DEF CancelRow, Write, StillUnstarted
    <3>3. CASE FlagRow(s, t)
      BY <1>0, <3>1, <3>3, WrittenFields DEF FlagRow, Write
    <3> QED
      BY <1>13, <3>2, <3>3
  <2>4. lock'[t] = s => Stopped(task'[t], draft'[t])
    <3> SUFFICES ASSUME lock'[t] = s PROVE Stopped(task'[t], draft'[t])
      OBVIOUS
    <3>1. RowStep(s, task'[t], draft'[t])
      BY <1>r
    <3>2. CASE task[t].status \in Unstarted /\ draft'[t].status = "CANCELLED"
      BY <2>1, <3>1, <3>2 DEF RowStep, Opened, Closed, Kept, Stopped, Unstarted
    <3>3. CASE task[t].status = "RUNNING" /\ draft'[t].status = "RUNNING" /\ draft'[t].cancelled
      BY <2>1, <3>1, <3>3 DEF RowStep, Opened, Closed, Turned, Stopped, FINISH_TARGETS,
                             TERMINAL_TASK_STATES
    <3> QED
      BY <2>3, <3>2, <3>3
  <2>5. \A u \in Task : lock'[u] = s => Stopped(task'[u], draft'[u])
    BY <1>h, <2>1, <2>2, <2>4 DEF Holding
  <2> QED
    BY <2>1, <2>5 DEF HeldBy, Holding
<1>14. ASSUME CancelRunning(s) \/ CancelRecount(s) PROVE HeldBy(s)'
  <2>1. /\ conn[s].pc \in {"cancelling", "flagging"}
        /\ conn'[s].pc = "flagging" \/ (conn'[s].pc = "counting" /\ conn'[s].rows = {})
        /\ UNCHANGED <<task, draft, lock, graphLock>>
    BY <1>0, <1>14 DEF CancelRunning, CancelRecount, Goto, At, Conn
  <2> QED
    BY <1>h, <2>1 DEF HeldBy, Holding
<1>15. ASSUME Rollback(s) PROVE HeldBy(s)'
  <2>1. graphLock' # s /\ (\A t \in Task : lock'[t] # s) /\ conn'[s] = Idle
    BY <1>0, <1>15 DEF Rollback, End
  <2> QED
    BY <2>1 DEF HeldBy, Idle
<1> QED
  BY <1>1, <1>2, <1>4, <1>5, <1>6, <1>7, <1>8, <1>9, <1>10, <1>11, <1>12, <1>13, <1>14,
     <1>15, Zenon DEF Step

LEMMA NextHeld ==
    ASSUME Inv, HeldInv, [Next]_vars
    PROVE  HeldInv'
<1>1. CASE UNCHANGED vars
  <2>1. \A s \in Session : Undisturbed(s)
    BY <1>1 DEF vars, Undisturbed
  <2> QED
    BY <2>1, UndisturbedHeld DEF HeldInv
<1>2. CASE Passing
  BY <1>2, PassingUndisturbed, UndisturbedHeld DEF HeldInv
<1>3. ASSUME NEW a \in Session, Step(a) PROVE HeldInv'
  <2> SUFFICES ASSUME NEW s \in Session PROVE HeldBy(s)'
    BY DEF HeldInv
  <2>1. HeldBy(s)
    BY DEF HeldInv
  <2> QED
    BY <1>3, <2>1, StepHeld, OthersUndisturbed, UndisturbedHeld
<1> QED
  BY <1>1, <1>2, <1>3, NextIsSomeStep

-----------------------------------------------------------------------------
(* What a step does to the two versions of a row. *)

\* A statement of s prepares the next version of a free row.
Prepares(s, t) ==
    /\ lock[t] = None /\ task'[t] = task[t]
    /\ \/ task[t].status = "READY" /\ ~graph.cancelled /\ draft'[t] = Claimed(task[t], s)
       \/ /\ task[t].status = "RUNNING"
          /\ \E v \in FINISH_TARGETS : draft'[t] = Released(task[t], v)
       \/ /\ task[t].status \in {"WAITING", "FAILED_RETRYABLE"} \/ MarkReady(s, t)
          /\ \E w : draft'[t] = Readied(task[t], w)
       \/ task[t].status \in Unstarted /\ draft'[t] = CancelledRow(task[t])
       \/ task[t].status = "RUNNING" /\ draft'[t] = Flagged(task[t])
       \/ t \in Child /\ task[t].status = "ABSENT" /\ draft'[t] = NewRow("READY")

\* A heartbeat or a clock writes a free row, which stays where it is.
Overwrites(t) ==
    /\ lock[t] = None /\ draft'[t] = task'[t]
    /\ task'[t].status = task[t].status /\ task'[t].attempts = task[t].attempts
    /\ task'[t].version = task[t].version

RowMoves(s, t) ==
    \/ task'[t] = task[t] /\ draft'[t] = draft[t]
    \/ task'[t] = task[t] /\ draft'[t] = task[t]        \* rolled back, or only locked
    \/ lock[t] = s /\ task'[t] = draft[t] /\ draft'[t] = draft[t]
    \/ Prepares(s, t)
    \/ Overwrites(t)
    \/ Skip(s, t) /\ task'[t] = Skipped(task[t]) /\ draft'[t] = Skipped(task[t])

\* Each statement treats a row in one of the six ways of RowMoves.
LEMMA StepRowMoves ==
    ASSUME Inv, NEW s \in Session, Step(s), NEW t \in Task
    PROVE  RowMoves(s, t)
<1>0. /\ None \notin Session /\ Child \subseteq Task /\ ParentOf \in [Child -> Task]
      /\ task \in [Task -> TaskRow] /\ draft \in [Task -> TaskRow]
      /\ lock \in [Task -> Session \cup {None}]
      /\ \A u \in Task : lock[u] = None => draft[u] = task[u]
  BY StoreAssumption DEF Inv, RowInv
<1>1. ASSUME NEW u \in Task, ClaimReady(s, u) PROVE RowMoves(s, t)
  <2>1. /\ lock[u] = None /\ task[u].status = "READY" /\ ~graph.cancelled /\ task' = task
        /\ draft' = [v \in Task |-> IF v \in {u} THEN Claimed(task[v], s) ELSE draft[v]]
    BY <1>0, <1>1 DEF ClaimReady, Claimable, Free, View, Write
  <2> QED
    BY <2>1 DEF RowMoves, Prepares
<1>2. ASSUME NEW u \in Task, Heartbeat(s, u) PROVE RowMoves(s, t)
  <2>1. /\ lock[u] = None
        /\ task' = [task EXCEPT ![u] = [task[u] EXCEPT !.lease = "live"]]
        /\ draft' = [draft EXCEPT ![u] = [task[u] EXCEPT !.lease = "live"]]
    BY <1>2 DEF Heartbeat, Free, Autocommit
  <2>2. CASE u = t
    BY <1>0, <2>1, <2>2 DEF RowMoves, Overwrites, TaskRow
  <2>3. CASE u # t
    BY <1>0, <2>1, <2>3 DEF RowMoves
  <2> QED
    BY <2>2, <2>3
<1>3. ASSUME NEW u \in Task, NEW target \in FINISH_TARGETS, FinishRunning(s, u, target)
      PROVE  RowMoves(s, t)
  <2>1. /\ lock[u] = None /\ task[u].status = "RUNNING" /\ task' = task
        /\ draft' = [v \in Task |-> IF v \in {u} THEN Released(task[v], target) ELSE draft[v]]
    BY <1>3 DEF FinishRunning, HoldsLease, Free, Write
  <2> QED
    BY <2>1 DEF RowMoves, Prepares
<1>4. ASSUME NEW S \in SUBSET Task, ReclaimExpired(s, S) PROVE RowMoves(s, t)
  <2>1. /\ \A v \in S : lock[v] = None /\ task[v].status = "RUNNING"
        /\ task' = task
        /\ draft' = [v \in Task |-> IF v \in S THEN Released(task[v], ReclaimTarget(task[v]))
                                    ELSE draft[v]]
        /\ \A v \in S : ReclaimTarget(task[v]) \in FINISH_TARGETS
    BY <1>4 DEF ReclaimExpired, Expired, Free, Write, ReclaimTarget, FINISH_TARGETS,
                TERMINAL_TASK_STATES
  <2> QED
    BY <2>1 DEF RowMoves, Prepares
<1>5. ASSUME NEW u \in Task, MarkReady(s, u) \/ ResumeWaiting(s, u) \/ ScheduleRetry(s, u)
      PROVE  RowMoves(s, t)
  <2>1. /\ lock[u] = None /\ task' = task
        /\ task[u].status \in {"WAITING", "FAILED_RETRYABLE"} \/ MarkReady(s, u)
        /\ \E w : draft'[u] = Readied(task[u], w)
        /\ \A v \in Task \ {u} : draft'[v] = draft[v]
    BY <1>0, <1>5 DEF MarkReady, ResumeWaiting, ScheduleRetry, Free, Write
  <2> QED
    BY <2>1 DEF RowMoves, Prepares
<1>6. ASSUME NEW u \in Task, Skip(s, u) PROVE RowMoves(s, t)
  <2>1. /\ lock[u] = None /\ task[u].status = "PENDING"
        /\ task' = [task EXCEPT ![u] = Skipped(task[u])]
        /\ draft' = [draft EXCEPT ![u] = Skipped(task[u])]
    BY <1>6 DEF Skip, Free, Autocommit
  <2> QED
    BY <1>0, <1>6, <2>1 DEF RowMoves
<1>7. ASSUME NEW c \in Child, AddDynamicTask(s, c) PROVE RowMoves(s, t)
  <2>1. /\ lock[c] = None /\ task[c].status = "ABSENT" /\ task' = task
        /\ draft' = [u \in Task |-> IF u \in {ParentOf[c], c}
                                    THEN IF u = c THEN NewRow("READY") ELSE task[u]
                                    ELSE draft[u]]
    BY <1>7 DEF AddDynamicTask, Free, Write
  <2> QED
    BY <2>1 DEF RowMoves, Prepares
<1>8. ASSUME NEW u \in Task, CancelRow(s, u) PROVE RowMoves(s, t)
  <2>1. /\ lock[u] = None /\ task' = task
        /\ \/ draft' = draft
           \/ task[u].status \in Unstarted /\ draft'[u] = CancelledRow(task[u])
        /\ \A v \in Task \ {u} : draft'[v] = draft[v]
    BY <1>0, <1>8 DEF CancelRow, Free, Write, StillUnstarted
  <2> QED
    BY <2>1 DEF RowMoves, Prepares
<1>9. ASSUME NEW u \in Task, FlagRow(s, u) PROVE RowMoves(s, t)
  <2>1. /\ lock[u] = None /\ task' = task
        /\ draft' = draft \/ (task[u].status = "RUNNING" /\ draft'[u] = Flagged(task[u]))
        /\ \A v \in Task \ {u} : draft'[v] = draft[v]
    BY <1>0, <1>9 DEF FlagRow, Free, Write
  <2> QED
    BY <2>1 DEF RowMoves, Prepares
<1>10. ASSUME ClaimCommit(s) \/ WriteGraph(s) \/ SetGraphRunning(s) \/ GrowGraph(s)
       PROVE  RowMoves(s, t)
  <2>1. draft' = draft /\ task' = View(s)
    BY <1>10 DEF ClaimCommit, WriteGraph, SetGraphRunning, GrowGraph, Commit
  <2> QED
    BY <2>1 DEF RowMoves, View
<1>11. ASSUME \/ Recount(s) \/ RequestCancel(s) \/ CancelRunning(s) \/ CancelRecount(s)
              \/ \E F \in SUBSET Conditional : ListTasks(s, F)
              \/ \E u \in Task : ReadTask(s, u) \/ RefreshConflict(s, u)
       PROVE  RowMoves(s, t)
  BY <1>11 DEF Recount, RequestCancel, CancelRunning, CancelRecount, ListTasks,
               ReadTask, RefreshConflict, RowMoves
<1>12. ASSUME Rollback(s) PROVE RowMoves(s, t)
  BY <1>12 DEF Rollback, RowMoves
<1> QED
  BY <1>1, <1>2, <1>3, <1>4, <1>5, <1>6, <1>7, <1>8, <1>9, <1>10, <1>11, <1>12, Zenon
     DEF Step

\* Time passing leaves a row's status, attempts and version.
LEMMA PassingRowMoves ==
    ASSUME Inv, Passing, NEW t \in Task
    PROVE  (task'[t] = task[t] /\ draft'[t] = draft[t]) \/ Overwrites(t)
<1>1. task \in [Task -> TaskRow] /\ draft \in [Task -> TaskRow]
  BY DEF Inv, RowInv
<1>2. PICK u \in Task : LeaseLapses(u) \/ BackoffEnds(u)
  BY DEF Passing
<1>3. \A r \in TaskRow : \A le \in {"live", "lapsed"} :
         LET q == [r EXCEPT !.lease = le]
             b == [r EXCEPT !.backoff = FALSE]
         IN  /\ q.status = r.status /\ q.attempts = r.attempts /\ q.version = r.version
             /\ b.status = r.status /\ b.attempts = r.attempts /\ b.version = r.version
  BY DEF TaskRow
<1>4. CASE u = t
  <2>1. lock[t] = None /\ draft'[t] = task'[t]
    BY <1>1, <1>2, <1>4 DEF LeaseLapses, BackoffEnds, Free, Autocommit
  <2>2. \/ task'[t] = [task[t] EXCEPT !.lease = "lapsed"]
        \/ task'[t] = [task[t] EXCEPT !.backoff = FALSE]
    BY <1>1, <1>2, <1>4 DEF LeaseLapses, BackoffEnds, Autocommit
  <2> QED
    BY <1>1, <1>3, <2>1, <2>2 DEF Overwrites
<1>5. CASE u # t
  BY <1>1, <1>2, <1>5 DEF LeaseLapses, BackoffEnds, Autocommit
<1> QED
  BY <1>4, <1>5

\* How the status of a committed row changes: by what the transaction that commits it is.
StatusMoves(s, t) ==
    \/ task'[t].status = task[t].status
    \/ lock[t] = s /\ graphLock # s /\ Opened(s, task[t], task'[t])
    \/ lock[t] = s /\ graphLock # s /\ Requeued(task[t], task'[t])
    \/ lock[t] = s /\ GraphFree(s) /\ (Inserted(s, t) \/ At(s, "writing"))
    \/ task[t].status = "PENDING" /\ task'[t].status = "SKIPPED"

\* Who moves a committed status, and what he then holds: mostly the row, often the graph.
LEMMA StepStatusMoves ==
    ASSUME Inv, HeldInv, NEW s \in Session, Step(s), NEW t \in Task
    PROVE  StatusMoves(s, t)
<1>0. /\ task \in [Task -> TaskRow] /\ draft \in [Task -> TaskRow]
      /\ HeldBy(s) /\ None \notin Session
      /\ lock[t] = None => draft[t] = task[t]
  BY StoreAssumption DEF HeldInv, Inv, RowInv
<1>1. CASE /\ lock[t] = s /\ task'[t] = draft[t] /\ draft'[t] = draft[t]
           /\ task'[t].status # task[t].status
  <2>1. Holding(s, t)
    BY <1>0, <1>1 DEF HeldBy
  <2>2. ClaimCommit(s) \/ WriteGraph(s) \/ SetGraphRunning(s) \/ GrowGraph(s)
    <3>1. \/ task' = task
          \/ \E u \in Task : Free(u) /\ \E r : Autocommit(u, r)
          \/ ClaimCommit(s) \/ WriteGraph(s) \/ SetGraphRunning(s) \/ GrowGraph(s)
      BY Zenon DEF Step, Recount, RequestCancel, CancelRunning, CancelRecount, Rollback,
         ClaimReady, Heartbeat, ReadTask, FinishRunning, MarkReady, Skip, RefreshConflict,
         ResumeWaiting, ScheduleRetry, CancelRow, FlagRow, AddDynamicTask, ReclaimExpired,
         ListTasks
    <3>2. ASSUME NEW u \in Task, NEW r, Free(u), Autocommit(u, r) PROVE FALSE
      BY <1>0, <1>1, <3>2 DEF Free, Autocommit
    <3> QED
      BY <1>1, <3>1, <3>2
  <2> QED
    BY <1>0, <1>1, <2>1, <2>2
       DEF ClaimCommit, WriteGraph, SetGraphRunning, GrowGraph, Holding, HeldBy, At,
           StatusMoves, Kept
<1>2. CASE Overwrites(t) \/ (Skip(s, t) /\ task'[t] = Skipped(task[t]))
  BY <1>0, <1>2, WrittenFields DEF Overwrites, Skip, StatusMoves
<1>3. CASE task'[t].status = task[t].status
  BY <1>3 DEF StatusMoves
<1> QED
  BY <1>1, <1>2, <1>3, StepRowMoves DEF RowMoves, Prepares

-----------------------------------------------------------------------------
(* Cancellation. *)

\* What request_cancel has yet to reach is in the rows of its statement: the tasks that
\* have not started while it cancels those, the running ones while it flags them.
Reached(s, t) ==
    /\ task[t].status \in Unstarted
         => lock[t] = s \/ (At(s, "cancelling") /\ t \in conn[s].rows)
    /\ task[t].status = "RUNNING" /\ ~At(s, "cancelling")
         => lock[t] = s \/ (At(s, "flagging") /\ t \in conn[s].rows)

ReachInv == \A s \in Session : graphLock = s => \A t \in Task : Reached(s, t)

\* No claim is under way in a graph whose cancellation has committed.
NoClaimInv == graph.cancelled => \A t \in Task : draft[t].attempts = task[t].attempts

CancelInv == ReachInv /\ NoClaimInv

LEMMA InitCancel == Init => CancelInv
BY StoreAssumption DEF Init, CancelInv, ReachInv, NoClaimInv

\* When the cancellation is about to commit, it has reached every task, and no other
\* session holds a claim.
LEMMA AllReached ==
    ASSUME Inv, HeldInv, ReachInv, NEW s \in Session, graphLock = s,
           conn[s].pc \in {"counting", "writing"}, NEW t \in Task
    PROVE  /\ \/ View(s)[t].status \in TERMINAL_TASK_STATES \cup {"ABSENT"}
              \/ View(s)[t].status = "RUNNING" /\ View(s)[t].cancelled
           /\ lock[t] # s => draft[t].attempts = task[t].attempts
<1>0. /\ task[t] \in TaskRow /\ lock[t] \in Session \cup {None} /\ None \notin Session
      /\ lock[t] = None => draft[t] = task[t]
  BY StoreAssumption DEF Inv, RowInv
<1>1. Reached(s, t) /\ ~At(s, "cancelling") /\ ~At(s, "flagging")
  BY DEF ReachInv, At
<1>2. CASE lock[t] = s
  <2>1. Stopped(task[t], draft[t])
    BY <1>2 DEF HeldInv, HeldBy, Holding
  <2> QED
    BY <1>2, <2>1 DEF Stopped, Kept, View, TERMINAL_TASK_STATES
<1>3. CASE lock[t] # s
  <2>1. task[t].status \in TERMINAL_TASK_STATES \cup {"ABSENT"}
    BY <1>0, <1>1, <1>3 DEF Reached, TaskRow, TaskState, Unstarted, TERMINAL_TASK_STATES
  <2>2. draft[t].attempts = task[t].attempts
    <3>1. CASE lock[t] = None
      BY <1>0, <3>1
    <3>2. CASE lock[t] # None
      <4>1. Holding(lock[t], t) /\ graphLock # lock[t]
        BY <1>0, <1>3, <3>2 DEF HeldInv, HeldBy
      <4> QED
        BY <2>1, <4>1 DEF Holding, Opened, Requeued, Closed, Kept, Inserted, Turned,
                          TERMINAL_TASK_STATES
    <3> QED
      BY <3>1, <3>2
  <2> QED
    BY <1>3, <2>1, <2>2 DEF View
<1> QED
  BY <1>2, <1>3

\* No other session brings a task back behind the back of request_cancel.
LEMMA UndisturbedReached ==
    ASSUME Inv, HeldInv, ReachInv, NEW s \in Session, graphLock = s, Undisturbed(s),
           NEW t \in Task,
           task'[t].status = task[t].status \/ \E a \in Session \ {s} : StatusMoves(a, t)
    PROVE  Reached(s, t)'
<1>1. Reached(s, t) /\ None \notin Session
  BY StoreAssumption DEF ReachInv
<1>2. CASE task'[t].status = task[t].status
  BY <1>1, <1>2 DEF Reached, Undisturbed, At
<1>3. ASSUME NEW a \in Session \ {s}, StatusMoves(a, t), task'[t].status # task[t].status
      PROVE  Reached(s, t)'
  <2>1. ~GraphFree(a)
    BY <1>1 DEF GraphFree
  <2>2. \/ lock[t] = a /\ Opened(a, task[t], task'[t])
        \/ lock[t] = a /\ Requeued(task[t], task'[t])
        \/ task'[t].status = "SKIPPED"
    BY <1>3, <2>1 DEF StatusMoves
  <2> QED
    BY <1>1, <2>2 DEF Reached, Undisturbed, At, Opened, Requeued, Unstarted
<1> QED
  BY <1>2, <1>3

\* request_cancel's own statements visit what they have yet to reach.
LEMMA StepReached ==
    ASSUME Inv, HeldInv, ReachInv, NEW s \in Session, Step(s), graphLock' = s, NEW t \in Task
    PROVE  Reached(s, t)'
<1>0. /\ None \notin Session /\ conn \in [Session -> Conn] /\ HeldBy(s)
      /\ lock \in [Task -> Session \cup {None}]
  BY StoreAssumption DEF Inv, RowInv, ControlInv, HeldInv
<1>1. graphLock = s => Reached(s, t)
  BY DEF ReachInv
<1>2. CASE RequestCancel(s)
  BY <1>0, <1>2 DEF RequestCancel, Reached, At, Conn
<1>3. ASSUME NEW u \in Task, CancelRow(s, u) PROVE Reached(s, t)'
  <2>1. /\ conn[s].pc = "cancelling" /\ conn'[s].pc = "cancelling"
        /\ conn'[s].rows = conn[s].rows \ {u}
        /\ task' = task /\ graphLock = s
        /\ task[u].status \in Unstarted => lock'[u] = s
        /\ lock[t] = s => lock'[t] = s
    BY <1>0, <1>3 DEF CancelRow, HeldBy, At, Conn, Write, StillUnstarted
  <2> QED
    BY <1>1, <2>1 DEF Reached, At
<1>4. CASE CancelRunning(s)
  <2>1. /\ conn[s].pc = "cancelling" /\ conn[s].rows = {}
        /\ conn'[s].pc = "flagging"
        /\ conn'[s].rows = {u \in Task : View(s)[u].status = "RUNNING"}
        /\ task' = task /\ lock' = lock /\ graphLock = s
    BY <1>0, <1>4 DEF CancelRunning, HeldBy, At, Conn
  <2> QED
    BY <1>1, <2>1 DEF Reached, At, View
<1>5. ASSUME NEW u \in Task, FlagRow(s, u) PROVE Reached(s, t)'
  <2>1. /\ conn[s].pc = "flagging" /\ conn'[s].pc = "flagging"
        /\ conn'[s].rows = conn[s].rows \ {u}
        /\ task' = task /\ graphLock = s
        /\ task[u].status = "RUNNING" => lock'[u] = s
        /\ lock[t] = s => lock'[t] = s
    BY <1>0, <1>5 DEF FlagRow, HeldBy, At, Conn, Write
  <2> QED
    BY <1>1, <2>1 DEF Reached, At
<1>6. CASE CancelRecount(s) \/ Recount(s)
  <2>1. /\ conn[s].pc \in {"flagging", "counting"} /\ conn'[s].pc \in {"counting", "writing"}
        /\ conn[s].pc = "flagging" => conn[s].rows = {}
        /\ task' = task /\ lock' = lock /\ graphLock = s
    BY <1>0, <1>6 DEF CancelRecount, Recount, HeldBy, Goto, At, Conn
  <2> QED
    BY <1>1, <2>1 DEF Reached, At
<1>7. CASE \/ ClaimCommit(s) \/ SetGraphRunning(s) \/ GrowGraph(s)
           \/ \E F \in SUBSET Conditional : ListTasks(s, F)
           \/ \E u \in Task : \/ ClaimReady(s, u) \/ Heartbeat(s, u) \/ ReadTask(s, u)
                              \/ \E target \in FINISH_TARGETS : FinishRunning(s, u, target)
                              \/ MarkReady(s, u) \/ Skip(s, u) \/ RefreshConflict(s, u)
                              \/ ResumeWaiting(s, u) \/ ScheduleRetry(s, u)
           \/ \E c \in Child : AddDynamicTask(s, c)
           \/ \E S \in SUBSET Task : ReclaimExpired(s, S)
  <2>1. /\ graphLock' = graphLock
        /\ conn[s].pc \in {"idle", "claiming", "refreshing", "readying", "asking", "growing"}
    BY <1>7, Zenon
       DEF ClaimCommit, SetGraphRunning, GrowGraph, ListTasks, ClaimReady, InClaimLoop,
           Heartbeat, ReadTask, FinishRunning, MarkReady, Skip, RefreshConflict,
           ResumeWaiting, ScheduleRetry, AddDynamicTask, ReclaimExpired, At
  <2> QED
    BY <1>0, <2>1 DEF HeldBy
<1>8. CASE WriteGraph(s) \/ Rollback(s)
  BY <1>0, <1>8 DEF WriteGraph, Rollback
<1> QED
  BY <1>2, <1>3, <1>4, <1>5, <1>6, <1>7, <1>8, Zenon DEF Step

LEMMA NextReach ==
    ASSUME Inv, HeldInv, ReachInv, [Next]_vars
    PROVE  ReachInv'
<1> SUFFICES ASSUME NEW s \in Session, graphLock' = s, NEW t \in Task PROVE Reached(s, t)'
  BY DEF ReachInv
<1>0. task \in [Task -> TaskRow]
  BY DEF Inv, RowInv
<1>1. CASE UNCHANGED vars
  BY <1>1, UndisturbedReached DEF vars, Undisturbed
<1>2. CASE Passing
  <2>1. Undisturbed(s)
    BY <1>2, PassingUndisturbed
  <2>2. task'[t].status = task[t].status
    BY <1>2, PassingRowMoves DEF Overwrites
  <2>3. Reached(s, t)
    BY <2>1 DEF ReachInv, Undisturbed
  <2> QED
    BY <2>1, <2>2, <2>3 DEF Reached, Undisturbed, At
<1>3. ASSUME NEW a \in Session, Step(a) PROVE Reached(s, t)'
  <2>1. CASE a = s
    BY <1>3, <2>1, StepReached
  <2>2. CASE a # s
    <3>1. Undisturbed(s) /\ StatusMoves(a, t)
      BY <1>3, <2>2, OthersUndisturbed, StepStatusMoves
    <3>2. graphLock = s
      BY <3>1 DEF Undisturbed
    <3> QED
      BY <2>2, <3>1, <3>2, UndisturbedReached
  <2> QED
    BY <2>1, <2>2
<1> QED
  BY <1>1, <1>2, <1>3, NextIsSomeStep

\* Only the commit of a request_cancel sets the graph's cancellation_requested_at.
LEMMA WhoCancels ==
    ASSUME Inv, NEW s \in Session, Step(s), graph'.cancelled
    PROVE  graph.cancelled \/ (WriteGraph(s) /\ graphLock = s)
<1>0. graph \in GraphRow
  BY DEF Inv, ControlInv
<1>1. CASE graph' = graph
  BY <1>1
<1>2. CASE WriteGraph(s) \/ SetGraphRunning(s) \/ GrowGraph(s)
  <2>1. CASE WriteGraph(s)
    BY <1>0, <2>1 DEF WriteGraph, Recomputed, GraphRow
  <2>2. CASE SetGraphRunning(s)
    BY <1>0, <2>2 DEF SetGraphRunning, GraphRow
  <2>3. CASE GrowGraph(s)
    BY <1>0, <2>3 DEF GrowGraph, GraphRow
  <2> QED
    BY <1>2, <2>1, <2>2, <2>3
<1>3. graph' = graph \/ WriteGraph(s) \/ SetGraphRunning(s) \/ GrowGraph(s)
  BY Zenon DEF Step, Recount, RequestCancel, CancelRunning, CancelRecount, Rollback,
     ClaimCommit, ClaimReady, Heartbeat, ReadTask, FinishRunning, MarkReady, Skip,
     RefreshConflict, ResumeWaiting, ScheduleRetry, CancelRow, FlagRow, AddDynamicTask,
     ReclaimExpired, ListTasks
<1> QED
  BY <1>1, <1>2, <1>3

\* A cancelled graph has no claim under way: none starts, and none was held at the commit.
LEMMA NextNoClaim ==
    ASSUME Inv, HeldInv, CancelInv, [Next]_vars
    PROVE  NoClaimInv'
<1> SUFFICES ASSUME graph'.cancelled, NEW t \in Task
             PROVE  draft'[t].attempts = task'[t].attempts
  BY DEF NoClaimInv
<1>0. /\ task \in [Task -> TaskRow] /\ draft \in [Task -> TaskRow] /\ LedgerOf(task[t])
  BY DEF Inv, RowInv
<1>1. CASE UNCHANGED vars
  BY <1>1 DEF vars, CancelInv, NoClaimInv
<1>2. CASE Passing
  <2>1. graph' = graph
    BY <1>2 DEF Passing, LeaseLapses, BackoffEnds
  <2> QED
    BY <1>2, <2>1, PassingRowMoves DEF CancelInv, NoClaimInv, Overwrites
<1>3. ASSUME NEW s \in Session, Step(s) PROVE draft'[t].attempts = task'[t].attempts
  <2>1. CASE graph.cancelled
    <3>1. draft[t].attempts = task[t].attempts
      BY <2>1 DEF CancelInv, NoClaimInv
    <3>2. RowMoves(s, t)
      BY <1>3, StepRowMoves
    <3>3. CASE Skip(s, t) /\ task'[t] = Skipped(task[t]) /\ draft'[t] = Skipped(task[t])
      BY <3>3
    <3>4. CASE Prepares(s, t)
      <4>1. NewRow("READY").attempts = 0
        BY DEF NewRow
      <4> QED
        BY <1>0, <2>1, <3>4, <4>1, WrittenFields DEF Prepares, LedgerOf
    <3> QED
      BY <3>1, <3>2, <3>3, <3>4 DEF RowMoves, Overwrites
  <2>2. CASE WriteGraph(s) /\ graphLock = s
    <3>1. At(s, "writing") /\ task' = View(s) /\ draft' = draft
      BY <2>2 DEF WriteGraph, Commit
    <3>2. lock[t] # s => draft[t].attempts = task[t].attempts
      BY <2>2, <3>1, AllReached DEF CancelInv, At
    <3> QED
      BY <3>1, <3>2 DEF View
  <2> QED
    BY <1>3, <2>1, <2>2, WhoCancels
<1> QED
  BY <1>1, <1>2, <1>3, NextIsSomeStep

-----------------------------------------------------------------------------
(* Joins. *)

\* A task that has ended stays as it ended.
LEMMA TerminalStays ==
    ASSUME Inv, [Next]_vars, NEW t \in Task, task[t].status \in TERMINAL_TASK_STATES
    PROVE  task'[t].status = task[t].status
<1>1. RowStep(lock[t], task[t], task'[t])
  BY NextRows DEF Inv, CommittedStep
<1> QED
  BY <1>1 DEF RowStep, Opened, Closed, Turned, Kept, StoreEdges, Allowed,
              TERMINAL_TASK_STATES

\* The cardinality of a disjoint union.
LEMMA DisjointUnion ==
    ASSUME NEW S, IsFiniteSet(S), NEW T, IsFiniteSet(T), S \cap T = {}
    PROVE  Cardinality(S \cup T) = Cardinality(S) + Cardinality(T)
<1>1. Cardinality(S) \in Nat /\ Cardinality(T) \in Nat /\ Cardinality(S \cap T) = 0
  BY FS_CardinalityType, FS_EmptySet
<1>2. Cardinality(S \cup T) = Cardinality(S) + Cardinality(T) - Cardinality(S \cap T)
  BY FS_Union
<1> QED
  BY <1>1, <1>2

\* A join that is decided stays decided, as long as no dependency leaves a terminal state:
\* the successes only grow, and successes and open tasks together only shrink.
LEMMA DecisionIsFinal ==
    ASSUME NEW join, NEW D, IsFiniteSet(D), NEW old, NEW new,
           \A d \in D : old[d] \in TERMINAL_TASK_STATES => new[d] = old[d],
           JoinDecision(join, D, old) # "pending"
    PROVE  JoinDecision(join, D, new) = JoinDecision(join, D, old)
<1> DEFINE needs == JoinNeeds(join, D)
           Won(status) == {d \in D : status[d] = "SUCCEEDED"}
           Live(status) == {d \in D : status[d] \notin TERMINAL_TASK_STATES}
<1>1. /\ Cardinality(Won(old)) \in Nat /\ Cardinality(Won(new)) \in Nat
      /\ Cardinality(Live(old)) \in Nat /\ Cardinality(Live(new)) \in Nat
      /\ IsFiniteSet(Won(old)) /\ IsFiniteSet(Won(new))
      /\ IsFiniteSet(Live(old)) /\ IsFiniteSet(Live(new))
  <2>1. \A status : Won(status) \in SUBSET D /\ Live(status) \in SUBSET D
    OBVIOUS
  <2> QED
    BY <2>1, FS_Subset, FS_CardinalityType
<1>2. Cardinality(Won(old)) <= Cardinality(Won(new))
  <2>1. Won(old) \in SUBSET Won(new)
    BY DEF TERMINAL_TASK_STATES
  <2> QED
    BY <1>1, <2>1, FS_Subset
<1>3. \A status : IsFiniteSet(Won(status)) /\ IsFiniteSet(Live(status)) =>
         Cardinality(Won(status) \cup Live(status))
            = Cardinality(Won(status)) + Cardinality(Live(status))
  <2>1. \A status : Won(status) \cap Live(status) = {}
    BY DEF TERMINAL_TASK_STATES
  <2> HIDE DEF Won, Live
  <2> QED
    BY <2>1, DisjointUnion
<1>4. Cardinality(Won(new) \cup Live(new)) <= Cardinality(Won(old) \cup Live(old))
  <2>1. Won(new) \cup Live(new) \in SUBSET (Won(old) \cup Live(old))
    BY DEF TERMINAL_TASK_STATES
  <2>2. IsFiniteSet(Won(old) \cup Live(old))
    BY <1>1, FS_Union
  <2> HIDE DEF Won, Live
  <2> QED
    BY <2>1, <2>2, FS_Subset
<1>5. Cardinality(Won(new)) + Cardinality(Live(new))
         <= Cardinality(Won(old)) + Cardinality(Live(old))
  BY <1>1, <1>3, <1>4
<1>6. Cardinality(D) \in Nat
  BY FS_CardinalityType
<1>7. \A status :
         JoinDecision(join, D, status) =
            IF D = {} THEN "ready"
            ELSE IF needs \notin 1 .. Cardinality(D) THEN "impossible"
            ELSE IF Cardinality(Won(status)) >= needs THEN "ready"
            ELSE IF Cardinality(Won(status)) + Cardinality(Live(status)) < needs
                 THEN "impossible" ELSE "pending"
  BY DEF JoinDecision
<1> HIDE DEF needs, Won, Live
<1>8. CASE D = {} \/ needs \notin 1 .. Cardinality(D)
  BY <1>7, <1>8
<1>9. CASE D # {} /\ needs \in 1 .. Cardinality(D)
  BY <1>1, <1>2, <1>5, <1>6, <1>7, <1>9
<1> QED
  BY <1>8, <1>9

\* The decision of a task's join is final once it is made.
LEMMA DecisionStays ==
    ASSUME Inv, [Next]_vars, NEW t \in Task, Decision(t) # "pending"
    PROVE  Decision(t)' = Decision(t)
<1> DEFINE old == [u \in Task |-> task[u].status]
           new == [u \in Task |-> task'[u].status]
<1>1. DependsOn[t] \in SUBSET Task /\ IsFiniteSet(DependsOn[t])
  BY StoreAssumption, FS_Subset
<1>2. \A d \in DependsOn[t] : old[d] \in TERMINAL_TASK_STATES => new[d] = old[d]
  BY <1>1, TerminalStays
<1>3. JoinDecision(Join[t], DependsOn[t], old) # "pending"
  BY DEF Decision
<1> HIDE DEF old, new
<1>4. JoinDecision(Join[t], DependsOn[t], new) = JoinDecision(Join[t], DependsOn[t], old)
  BY <1>1, <1>2, <1>3, DecisionIsFinal
<1> QED
  BY <1>4 DEF Decision, old, new

\* What a version of t's row says of t's join.
JoinOf(t, r) ==
    /\ r.status \in {"READY", "RUNNING", "WAITING", "FAILED_RETRYABLE", "SUCCEEDED",
                     "FAILED_FINAL"} => Decision(t) = "ready"
    /\ r.status = "SKIPPED" /\ r.attempts = 0 /\ t \notin Conditional
         => Decision(t) = "impossible"
    /\ r.status = "RUNNING" => r.attempts > 0

\* What refresh_ready has decided of the tasks it has yet to visit.
ChosenBy(s) ==
    conn[s].pc \notin {"cancelling", "flagging"} =>
        \A t \in conn[s].rows :
            /\ t \in conn[s].skips => Decision(t) = "impossible" \/ t \in Conditional
            /\ t \notin conn[s].skips => Decision(t) = "ready"

JoinInv ==
    /\ \A t \in Task : JoinOf(t, task[t]) /\ JoinOf(t, draft[t])
    /\ \A s \in Session : ChosenBy(s)

LEMMA InitJoin == Init => JoinInv
<1> SUFFICES ASSUME Init PROVE JoinInv
  OBVIOUS
<1>1. \A t \in Task : DependsOn[t] = {} => Decision(t) = "ready"
  BY DEF Decision, JoinDecision
<1>2. \A t \in Task : /\ task[t] = Installed(t) /\ draft[t] = Installed(t)
                      /\ Installed(t).status \in {"ABSENT", "PENDING", "READY"}
                      /\ Installed(t).status = "READY" => DependsOn[t] = {}
  BY DEF Init, Installed, NewRow
<1>3. \A s \in Session : conn[s].rows = {}
  BY DEF Init, Idle
<1> QED
  BY <1>1, <1>2, <1>3 DEF JoinInv, JoinOf, ChosenBy

\* A version keeps what it says of the join.
LEMMA JoinOfStays ==
    ASSUME Inv, [Next]_vars, NEW t \in Task, NEW r, JoinOf(t, r)
    PROVE  /\ r.status \in {"READY", "RUNNING", "WAITING", "FAILED_RETRYABLE", "SUCCEEDED",
                            "FAILED_FINAL"} => Decision(t)' = "ready"
           /\ r.status = "SKIPPED" /\ r.attempts = 0 /\ t \notin Conditional
                => Decision(t)' = "impossible"
           /\ r.status = "RUNNING" => r.attempts > 0
BY DecisionStays DEF JoinOf

\* A statement writes only versions that say the truth about the join.
LEMMA StepJoinRow ==
    ASSUME Inv, JoinInv, NEW s \in Session, Step(s), NEW t \in Task
    PROVE  JoinOf(t, task[t])' /\ JoinOf(t, draft[t])'
<1>0. /\ task \in [Task -> TaskRow] /\ draft \in [Task -> TaskRow]
      /\ task[t].attempts \in Nat
      /\ [Next]_vars
  BY StoreAssumption, NextIsSomeStep DEF Inv, RowInv, TaskRow
<1>1. JoinOf(t, task[t]) /\ JoinOf(t, draft[t]) /\ ChosenBy(s)
  BY DEF JoinInv
<1> DEFINE Says(r) ==
       /\ r.status \in {"READY", "RUNNING", "WAITING", "FAILED_RETRYABLE", "SUCCEEDED",
                        "FAILED_FINAL"} => Decision(t)' = "ready"
       /\ r.status = "SKIPPED" /\ r.attempts = 0 /\ t \notin Conditional
            => Decision(t)' = "impossible"
       /\ r.status = "RUNNING" => r.attempts > 0
<1>2. Says(task[t]) /\ Says(draft[t])
  BY <1>0, <1>1, JoinOfStays
<1>3. CASE Prepares(s, t)
  <2>1. ASSUME task[t].status = "READY", draft'[t] = Claimed(task[t], s)
        PROVE  Says(draft'[t])
    BY <1>0, <1>2, <2>1, WrittenFields
  <2>2. ASSUME task[t].status = "RUNNING", NEW v, draft'[t] = Released(task[t], v)
        PROVE  Says(draft'[t])
    BY <1>0, <1>2, <2>2, WrittenFields
  <2>3. ASSUME task[t].status \in {"WAITING", "FAILED_RETRYABLE"} \/ MarkReady(s, t),
               NEW w, draft'[t] = Readied(task[t], w)
        PROVE  Says(draft'[t])
    <3>1. CASE task[t].status \in {"WAITING", "FAILED_RETRYABLE"}
      BY <1>0, <1>2, <2>3, <3>1, WrittenFields
    <3>2. CASE MarkReady(s, t)
      <4>1. Decision(t) = "ready"
        BY <1>1, <3>2 DEF MarkReady, ChosenBy, At
      <4>2. Decision(t)' = "ready"
        BY <1>0, <4>1, DecisionStays
      <4> QED
        BY <1>0, <2>3, <4>2, WrittenFields
    <3> QED
      BY <2>3, <3>1, <3>2
  <2>4. ASSUME draft'[t] = CancelledRow(task[t]) PROVE Says(draft'[t])
    BY <1>0, <2>4, WrittenFields
  <2>5. ASSUME draft'[t] = Flagged(task[t]) PROVE Says(draft'[t])
    BY <1>0, <1>2, <2>5, WrittenFields
  <2>6. ASSUME t \in Child, draft'[t] = NewRow("READY") PROVE Says(draft'[t])
    <3>1. NewRow("READY").status = "READY"
      BY DEF NewRow
    <3>2. Decision(t)' = "ready"
      BY <2>6, StoreAssumption DEF Decision, JoinDecision
    <3> QED
      BY <2>6, <3>1, <3>2
  <2>7. task'[t] = task[t] /\ Says(draft'[t])
    BY <1>3, <2>1, <2>2, <2>3, <2>4, <2>5, <2>6 DEF Prepares
  <2> QED
    BY <1>2, <2>7 DEF JoinOf
<1>4. CASE Skip(s, t) /\ task'[t] = Skipped(task[t]) /\ draft'[t] = Skipped(task[t])
  <2>1. Decision(t) = "impossible" \/ t \in Conditional
    BY <1>1, <1>4 DEF Skip, ChosenBy, At
  <2>2. Decision(t)' = "impossible" \/ t \in Conditional
    BY <1>0, <2>1, DecisionStays
  <2> QED
    BY <1>0, <1>4, <2>2, WrittenFields DEF JoinOf
<1>5. CASE ~Prepares(s, t) /\ ~Skip(s, t)
  BY <1>2, <1>5, StepRowMoves DEF RowMoves, Overwrites, JoinOf
<1>6. CASE ~Prepares(s, t) /\ ~(task'[t] = Skipped(task[t]) /\ draft'[t] = Skipped(task[t]))
  BY <1>2, <1>6, StepRowMoves DEF RowMoves, Overwrites, JoinOf
<1> QED
  BY <1>3, <1>4, <1>5, <1>6

\* refresh_ready decides once, and then only drops tasks from its list.
LEMMA StepLoop ==
    ASSUME Inv, HeldInv, NEW s \in Session, Step(s)
    PROVE  \/ conn'[s].pc \in {"cancelling", "flagging"}
           \/ conn'[s].rows = {}
           \/ /\ conn[s].pc \notin {"cancelling", "flagging"}
              /\ conn'[s].rows \subseteq conn[s].rows /\ conn'[s].skips = conn[s].skips
           \/ \E F \in SUBSET Conditional : ListTasks(s, F)
<1> DEFINE Shrinks == /\ conn[s].pc \notin {"cancelling", "flagging"}
                      /\ conn'[s].rows \subseteq conn[s].rows
                      /\ conn'[s].skips = conn[s].skips
<1>0. conn \in [Session -> Conn] /\ HeldBy(s)
  BY DEF Inv, ControlInv, HeldInv
<1>n. ASSUME NEW left, NextRow(s, left), left \subseteq conn[s].rows,
             conn[s].pc \notin {"cancelling", "flagging"}
      PROVE  conn'[s].rows = {} \/ Shrinks
  BY <1>0, <1>n DEF NextRow, Idle
<1>g. ASSUME NEW pc, Goto(s, pc) PROVE conn'[s].rows = conn[s].rows
  BY <1>0, <1>g DEF Goto, Conn
<1>e. ASSUME End(s) PROVE conn'[s].rows = {}
  BY <1>0, <1>e DEF End, Idle
<1>1. CASE \E t \in Task : ClaimReady(s, t) \/ MarkReady(s, t) \/ Skip(s, t)
  BY <1>0, <1>1 DEF ClaimReady, MarkReady, Skip, InClaimLoop, At, Conn
<1>2. CASE \E t \in Task : Heartbeat(s, t)
  BY <1>0, <1>2 DEF Heartbeat, At
<1>3. CASE \E t \in Task : ResumeWaiting(s, t) \/ ScheduleRetry(s, t)
  BY <1>0, <1>3, <1>g DEF ResumeWaiting, ScheduleRetry, HeldBy, At
<1>4. CASE \/ \E t \in Task, target \in FINISH_TARGETS : FinishRunning(s, t, target)
           \/ \E S \in SUBSET Task : ReclaimExpired(s, S)
           \/ \E c \in Child : AddDynamicTask(s, c)
  BY <1>0, <1>4, <1>g DEF FinishRunning, ReclaimExpired, AddDynamicTask, HeldBy, At
<1>5. CASE WriteGraph(s) \/ SetGraphRunning(s)
  BY <1>0, <1>n, <1>5 DEF WriteGraph, SetGraphRunning, At
<1>6. CASE \E t \in Task : RefreshConflict(s, t)
  BY <1>0, <1>n, <1>6 DEF RefreshConflict, Drop, At
<1>7. CASE ClaimCommit(s) \/ GrowGraph(s) \/ Rollback(s)
  BY <1>e, <1>7 DEF ClaimCommit, GrowGraph, Rollback
<1>8. CASE \E t \in Task : ReadTask(s, t)
  BY <1>0, <1>8 DEF ReadTask, Idle
<1>9. CASE Recount(s)
  BY <1>0, <1>9 DEF Recount, At, Conn
<1>10. CASE RequestCancel(s) \/ CancelRunning(s)
  BY <1>0, <1>10 DEF RequestCancel, CancelRunning, Conn
<1>11. CASE CancelRecount(s)
  BY <1>0, <1>11 DEF CancelRecount, Goto, Conn
<1>12. CASE \E t \in Task : CancelRow(s, t) \/ FlagRow(s, t)
  BY <1>0, <1>12 DEF CancelRow, FlagRow, At, Conn
<1> QED
  BY <1>1, <1>2, <1>3, <1>4, <1>5, <1>6, <1>7, <1>8, <1>9, <1>10, <1>11, <1>12, Zenon
     DEF Step

\* What refresh_ready has decided stays true until it visits the task.
LEMMA StepChosen ==
    ASSUME Inv, HeldInv, JoinInv, NEW s \in Session, Step(s)
    PROVE  ChosenBy(s)'
<1>0. conn \in [Session -> Conn] /\ [Next]_vars
  BY NextIsSomeStep DEF Inv, ControlInv
<1>1. CASE \/ conn'[s].pc \in {"cancelling", "flagging"}
           \/ conn'[s].rows = {}
  BY <1>1 DEF ChosenBy
<1>2. CASE /\ conn[s].pc \notin {"cancelling", "flagging"}
           /\ conn'[s].rows \subseteq conn[s].rows /\ conn'[s].skips = conn[s].skips
  <2>1. ChosenBy(s) /\ conn[s].rows \subseteq Task
    BY <1>0 DEF JoinInv, Conn
  <2> QED
    BY <1>0, <1>2, <2>1, DecisionStays DEF ChosenBy
<1>3. ASSUME NEW F \in SUBSET Conditional, ListTasks(s, F) PROVE ChosenBy(s)'
  <2>1. PICK due : /\ due = {t \in Task : Decided(t)}
                   /\ conn'[s].rows = due /\ conn'[s].skips = {t \in due : Skips(t, F)}
    <3>1. PICK rows, skips :
              /\ conn' = [conn EXCEPT ![s].pc = "refreshing", ![s].rows = rows,
                                      ![s].skips = skips]
              /\ rows = {t \in Task : Decided(t)} /\ skips = {t \in rows : Skips(t, F)}
      BY <1>3 DEF ListTasks
    <3> QED
      BY <1>0, <3>1 DEF Conn
  <2>2. \A t \in Task : Decision(t) \in {"ready", "impossible", "pending"}
    BY DEF Decision, JoinDecision
  <2> QED
    BY <1>0, <2>1, <2>2, DecisionStays DEF ChosenBy, Decided, Skips
<1> QED
  BY <1>1, <1>2, <1>3, StepLoop

LEMMA NextJoin ==
    ASSUME Inv, HeldInv, JoinInv, [Next]_vars
    PROVE  JoinInv'
<1>0. conn \in [Session -> Conn]
  BY DEF Inv, ControlInv
<1>u. ASSUME NEW s \in Session, Undisturbed(s) PROVE ChosenBy(s)'
  <2>1. ChosenBy(s) /\ conn[s].rows \subseteq Task
    BY <1>0 DEF JoinInv, Conn
  <2> QED
    BY <1>u, <2>1, DecisionStays DEF ChosenBy, Undisturbed
<1>r. ASSUME NEW t \in Task,
             (task'[t] = task[t] /\ draft'[t] = draft[t]) \/ Overwrites(t)
      PROVE  JoinOf(t, task[t])' /\ JoinOf(t, draft[t])'
  <2>1. JoinOf(t, task[t]) /\ JoinOf(t, draft[t])
    BY DEF JoinInv
  <2> QED
    BY <1>r, <2>1, JoinOfStays DEF Overwrites, JoinOf
<1>1. CASE UNCHANGED vars
  BY <1>1, <1>u, <1>r DEF vars, Undisturbed, JoinInv
<1>2. CASE Passing
  BY <1>2, <1>u, <1>r, PassingUndisturbed, PassingRowMoves DEF JoinInv
<1>3. ASSUME NEW a \in Session, Step(a) PROVE JoinInv'
  <2>1. \A t \in Task : JoinOf(t, task[t])' /\ JoinOf(t, draft[t])'
    BY <1>3, StepJoinRow
  <2>2. ASSUME NEW s \in Session PROVE ChosenBy(s)'
    BY <1>3, <1>u, StepChosen, OthersUndisturbed
  <2> QED
    BY <2>1, <2>2 DEF JoinInv
<1> QED
  BY <1>1, <1>2, <1>3, NextIsSomeStep

-----------------------------------------------------------------------------
(* The graph row: its counters, its status, and what a session is about to write there. *)

NotAhead(tally, rows) ==
    /\ tally.succeeded <= Cardinality(In(rows, "SUCCEEDED"))
    /\ tally.failed <= Cardinality(In(rows, "FAILED_FINAL"))
    /\ tally.cancelled <= Cardinality(In(rows, "CANCELLED"))
    /\ tally.skipped <= Cardinality(In(rows, "SKIPPED"))

\* What a status of the graph says of its tasks.
Ended(rows) == \A t \in Present(rows) : rows[t].status \in TERMINAL_TASK_STATES

Finished(status, rows) ==
    status \in TERMINAL_GRAPH_STATES =>
        /\ Ended(rows)
        /\ status = "FAILED_FINAL" <=> In(rows, "FAILED_FINAL") # {}
        /\ status = "SUCCEEDED" =>
              \A t \in Present(rows) : rows[t].status \in {"SUCCEEDED", "SKIPPED"}

CountInv ==
    /\ NotAhead(graph.tally, task)
    /\ \A s \in Session : At(s, "writing") => NotAhead(conn[s].tally, View(s))

FinishInv ==
    /\ Finished(graph.status, task)
    /\ \A s \in Session : At(s, "writing") => Finished(conn[s].status, View(s))

\* The counts of the recount are numbers.
LEMMA CountIsNat ==
    ASSUME NEW rows, NEW status
    PROVE  IsFiniteSet(In(rows, status)) /\ Cardinality(In(rows, status)) \in Nat
<1>1. In(rows, status) \in SUBSET Task
  BY DEF In
<1> QED
  BY <1>1, StoreAssumption, FS_Subset, FS_CardinalityType

\* While ended tasks stay as they ended, what was counted of them is never too much.
LEMMA CountsOnlyGrow ==
    ASSUME NEW old, NEW new, NEW tally \in Tally, NotAhead(tally, old),
           \A t \in Task : old[t].status \in TERMINAL_TASK_STATES
                              => new[t].status = old[t].status
    PROVE  NotAhead(tally, new)
<1>1. \A x \in TERMINAL_TASK_STATES : Cardinality(In(old, x)) <= Cardinality(In(new, x))
  <2> TAKE x \in TERMINAL_TASK_STATES
  <2>1. In(old, x) \in SUBSET In(new, x)
    BY DEF In
  <2> QED
    BY <2>1, CountIsNat, FS_Subset
<1>2. \A x \in TERMINAL_TASK_STATES :
         Cardinality(In(old, x)) \in Nat /\ Cardinality(In(new, x)) \in Nat
  BY CountIsNat
<1> QED
  BY <1>1, <1>2 DEF NotAhead, Tally, TERMINAL_TASK_STATES

\* What a session sees of the ended tasks does not change under it.
LEMMA ViewTerminalStays ==
    ASSUME Inv, [Next]_vars, NEW s \in Session, Undisturbed(s), NEW t \in Task,
           View(s)[t].status \in TERMINAL_TASK_STATES
    PROVE  View(s)'[t].status = View(s)[t].status
BY TerminalStays DEF View, Undisturbed

\* The status that a recount computes is true of the rows it reads.
LEMMA StatusOfIsTrue ==
    ASSUME NEW rows
    PROVE  Finished(StatusOf(rows), rows)
<1>1. CASE \A t \in Present(rows) : rows[t].status \in TERMINAL_TASK_STATES
  <2>1. CASE In(rows, "FAILED_FINAL") # {}
    BY <1>1, <2>1 DEF StatusOf, Finished, Ended
  <2>2. CASE In(rows, "FAILED_FINAL") = {} /\ In(rows, "CANCELLED") # {}
    BY <1>1, <2>2 DEF StatusOf, Finished, Ended
  <2>3. CASE In(rows, "FAILED_FINAL") = {} /\ In(rows, "CANCELLED") = {}
    <3>1. StatusOf(rows) = "SUCCEEDED"
      BY <1>1, <2>3 DEF StatusOf
    <3>2. \A t \in Present(rows) : rows[t].status \in {"SUCCEEDED", "SKIPPED"}
      BY <1>1, <2>3 DEF Present, In, TERMINAL_TASK_STATES
    <3> QED
      BY <1>1, <2>3, <3>1, <3>2 DEF Finished, Ended
  <2> QED
    BY <2>1, <2>2, <2>3
<1>2. CASE ~ \A t \in Present(rows) : rows[t].status \in TERMINAL_TASK_STATES
  BY <1>2 DEF StatusOf, Finished, TERMINAL_GRAPH_STATES
<1> QED
  BY <1>1, <1>2

\* Only statuses matter to what a status of the graph says.
LEMMA FinishedOfStatuses ==
    ASSUME NEW status, NEW old, NEW new, Finished(status, old),
           \A t \in Task : new[t].status = old[t].status
    PROVE  Finished(status, new)
<1>1. Present(new) = Present(old) /\ In(new, "FAILED_FINAL") = In(old, "FAILED_FINAL")
  BY DEF Present, In
<1>2. Present(old) \subseteq Task
  BY DEF Present
<1> QED
  BY <1>1, <1>2 DEF Finished, Ended

\* The row of a task that has ended, or that nobody has inserted, stays as it is, unless
\* its inserter holds a running parent.
LEMMA EndedStays ==
    ASSUME Inv, HeldInv, NEW a \in Session, Step(a), NEW t \in Task,
           task[t].status \in TERMINAL_TASK_STATES \cup {"ABSENT"},
           t \in Child => ~(lock[ParentOf[t]] = a /\ task[ParentOf[t]].status = "RUNNING")
    PROVE  task'[t].status = task[t].status
<1>1. StatusMoves(a, t) /\ (lock[t] = a => Holding(a, t))
  BY StepStatusMoves DEF HeldInv, HeldBy
<1>2. ~Opened(lock[t], task[t], task'[t]) /\ ~Requeued(task[t], task'[t]) /\ task[t].status # "PENDING"
  BY DEF Opened, Requeued, TERMINAL_TASK_STATES
<1>3. ~Inserted(a, t)
  BY DEF Inserted
<1>4. ~(lock[t] = a /\ At(a, "writing"))
  BY <1>1 DEF Holding, At, Stopped, Closed, Unstarted, TERMINAL_TASK_STATES
<1> QED
  BY <1>1, <1>2, <1>3, <1>4 DEF StatusMoves

\* Once every task has ended, as s sees them, nobody adds one.
LEMMA EndedViewStays ==
    ASSUME Inv, HeldInv, [Next]_vars, NEW s \in Session, Undisturbed(s), Ended(View(s)),
           NEW t \in Task
    PROVE  View(s)'[t].status = View(s)[t].status
<1>0. /\ Child \subseteq Task /\ ParentOf \in [Child -> Task]
      /\ lock[t] # s => View(s)[t] = task[t] /\ View(s)'[t] = task'[t]
      /\ lock[t] = s => View(s)'[t] = View(s)[t]
  BY StoreAssumption DEF View, Undisturbed
<1>1. CASE lock[t] = s
  BY <1>0, <1>1
<1>2. CASE lock[t] # s
  <2>1. task[t].status \in TERMINAL_TASK_STATES \cup {"ABSENT"}
    BY <1>0, <1>2 DEF Ended, Present
  <2>2. CASE UNCHANGED vars
    BY <1>0, <1>2, <2>2 DEF vars
  <2>3. CASE Passing
    BY <1>0, <1>2, <2>3, PassingRowMoves DEF Overwrites
  <2>4. ASSUME NEW a \in Session, Step(a) PROVE task'[t].status = task[t].status
    <3>1. CASE a = s
      <4>1. StatusMoves(a, t) /\ lock[t] # a
        BY <1>2, <2>4, <3>1, StepStatusMoves
      <4> QED
        BY <2>1, <4>1 DEF StatusMoves, TERMINAL_TASK_STATES
    <3>2. CASE a # s
      <4>1. t \in Child => ~(lock[ParentOf[t]] = a /\ task[ParentOf[t]].status = "RUNNING")
        BY <1>0, <3>2 DEF Ended, Present, View, TERMINAL_TASK_STATES
      <4> QED
        BY <2>1, <2>4, <4>1, EndedStays
    <3> QED
      BY <3>1, <3>2
  <2> QED
    BY <1>0, <1>2, <2>2, <2>3, <2>4, NextIsSomeStep
<1> QED
  BY <1>1, <1>2

\* How the graph row changes.
LEMMA GraphMoves ==
    ASSUME Inv, NEW s \in Session, Step(s)
    PROVE  \/ graph' = graph
           \/ WriteGraph(s)
           \/ /\ graph'.tally = graph.tally /\ graph'.cancelled = graph.cancelled
              /\ graph'.status = "RUNNING"
<1>0. graph \in GraphRow
  BY DEF Inv, ControlInv
<1>1. graph' = graph \/ WriteGraph(s) \/ SetGraphRunning(s) \/ GrowGraph(s)
  BY Zenon DEF Step, Recount, RequestCancel, CancelRunning, CancelRecount, Rollback,
     ClaimCommit, ClaimReady, Heartbeat, ReadTask, FinishRunning, MarkReady, Skip,
     RefreshConflict, ResumeWaiting, ScheduleRetry, CancelRow, FlagRow, AddDynamicTask,
     ReclaimExpired, ListTasks
<1>2. CASE SetGraphRunning(s)
  BY <1>0, <1>2 DEF SetGraphRunning, GraphRow
<1>3. CASE GrowGraph(s)
  BY <1>0, <1>3 DEF GrowGraph, GraphRow
<1> QED
  BY <1>1, <1>2, <1>3

\* A session comes to write the graph row only by counting.
LEMMA ComesToWrite ==
    ASSUME Inv, NEW s \in Session, Step(s), conn'[s].pc = "writing"
    PROVE  /\ Recount(s)
           /\ conn'[s].status = StatusOf(View(s)) /\ conn'[s].tally = TallyOf(View(s))
           /\ View(s)' = View(s)
<1>0. conn \in [Session -> Conn]
  BY DEF Inv, ControlInv
<1>g. ASSUME NEW pc, Goto(s, pc) PROVE conn'[s].pc = pc
  BY <1>0, <1>g DEF Goto, Conn
<1>e. ASSUME End(s) PROVE conn'[s].pc = "idle"
  BY <1>0, <1>e DEF End, Idle
<1>n. ASSUME NEW left, NextRow(s, left) PROVE conn'[s].pc \in {"idle", "refreshing"}
  BY <1>0, <1>n DEF NextRow, Idle
<1>1. ~ \E t \in Task : \/ ClaimReady(s, t) \/ Heartbeat(s, t) \/ MarkReady(s, t) \/ Skip(s, t)
                        \/ CancelRow(s, t) \/ FlagRow(s, t)
  <2>1. ASSUME NEW t \in Task, ClaimReady(s, t) PROVE FALSE
    BY <1>0, <2>1 DEF ClaimReady, Conn
  <2>2. ASSUME NEW t \in Task, Heartbeat(s, t) PROVE FALSE
    BY <2>2 DEF Heartbeat, At
  <2>3. ASSUME NEW t \in Task, MarkReady(s, t) \/ Skip(s, t) PROVE FALSE
    BY <1>0, <2>3 DEF MarkReady, Skip, Conn
  <2>4. ASSUME NEW t \in Task, CancelRow(s, t) \/ FlagRow(s, t) PROVE FALSE
    BY <1>0, <2>4 DEF CancelRow, FlagRow, At, Conn
  <2> QED
    BY <2>1, <2>2, <2>3, <2>4
<1>2. ~ \E t \in Task : ReadTask(s, t)
  BY <1>0 DEF ReadTask, Idle
<1>3. ~ \E t \in Task : \/ ResumeWaiting(s, t) \/ ScheduleRetry(s, t)
                        \/ \E target \in FINISH_TARGETS : FinishRunning(s, t, target)
  BY <1>g DEF ResumeWaiting, ScheduleRetry, FinishRunning
<1>4. /\ ~ \E S \in SUBSET Task : ReclaimExpired(s, S)
      /\ ~ \E c \in Child : AddDynamicTask(s, c)
      /\ ~CancelRecount(s)
  BY <1>g DEF ReclaimExpired, AddDynamicTask, CancelRecount
<1>5. ~WriteGraph(s) /\ ~SetGraphRunning(s) /\ ~ \E t \in Task : RefreshConflict(s, t)
  BY <1>n DEF WriteGraph, SetGraphRunning, RefreshConflict, Drop
<1>6. ~ClaimCommit(s) /\ ~GrowGraph(s) /\ ~Rollback(s)
  BY <1>e DEF ClaimCommit, GrowGraph, Rollback
<1>7. ~RequestCancel(s) /\ ~CancelRunning(s)
  BY <1>0 DEF RequestCancel, CancelRunning, Conn
<1>8. ~ \E F \in SUBSET Conditional : ListTasks(s, F)
  <2> SUFFICES ASSUME NEW F \in SUBSET Conditional, ListTasks(s, F) PROVE FALSE
    OBVIOUS
  <2>1. PICK rows, skips :
            conn' = [conn EXCEPT ![s].pc = "refreshing", ![s].rows = rows, ![s].skips = skips]
    BY Zenon DEF ListTasks
  <2> QED
    BY <1>0, <2>1 DEF Conn
<1>9. Recount(s)
  BY <1>1, <1>2, <1>3, <1>4, <1>5, <1>6, <1>7, <1>8, Zenon DEF Step
<1>10. conn'[s].status = StatusOf(View(s)) /\ conn'[s].tally = TallyOf(View(s))
  <2>1. PICK st, ta : /\ conn' = [conn EXCEPT ![s].pc = "writing", ![s].status = st,
                                              ![s].tally = ta]
                      /\ st = StatusOf(View(s)) /\ ta = TallyOf(View(s))
    BY <1>9 DEF Recount
  <2> QED
    BY <1>0, <2>1 DEF Conn
<1> QED
  BY <1>9, <1>10 DEF Recount, View

LEMMA InitGraph == Init => CountInv /\ FinishInv
<1> SUFFICES ASSUME Init PROVE CountInv /\ FinishInv
  OBVIOUS
<1>1. \A s \in Session : ~At(s, "writing")
  BY DEF Init, Idle, At
<1>2. graph.status = "RUNNING" /\ graph.tally = NoTally
  BY DEF Init
<1> QED
  BY <1>1, <1>2, CountIsNat DEF CountInv, NotAhead, NoTally, FinishInv, Finished,
                               TERMINAL_GRAPH_STATES

\* A tally, once counted, stays behind the rows until it is written, and after.
LEMMA NextCount ==
    ASSUME Inv, CountInv, [Next]_vars
    PROVE  CountInv'
<1>0. graph.tally \in Tally /\ conn \in [Session -> Conn]
  BY DEF Inv, ControlInv, GraphRow
<1>1. graph' = graph \/ graph'.tally = graph.tally => NotAhead(graph'.tally, task')
  BY <1>0, TerminalStays, CountsOnlyGrow DEF CountInv
<1>u. ASSUME NEW s \in Session, Undisturbed(s), conn'[s].pc = "writing"
      PROVE  NotAhead(conn'[s].tally, View(s)')
  <2>1. NotAhead(conn[s].tally, View(s)) /\ conn'[s] = conn[s] /\ conn[s].tally \in Tally
    BY <1>0, <1>u DEF CountInv, Undisturbed, At, Conn
  <2> QED
    BY <1>u, <2>1, ViewTerminalStays, CountsOnlyGrow
<1>2. CASE UNCHANGED vars
  BY <1>2 DEF vars, CountInv, View, At
<1>3. CASE Passing
  <2>1. graph' = graph
    BY <1>3 DEF Passing, LeaseLapses, BackoffEnds
  <2> QED
    BY <1>1, <1>3, <1>u, <2>1, PassingUndisturbed DEF CountInv, At
<1>4. ASSUME NEW a \in Session, Step(a) PROVE CountInv'
  <2>1. NotAhead(graph'.tally, task')
    <3>1. CASE WriteGraph(a)
      <4>1. graph'.tally = conn[a].tally /\ task' = View(a) /\ At(a, "writing")
        BY <3>1 DEF WriteGraph, Recomputed, Commit, Inv, ControlInv, GraphRow
      <4> QED
        BY <4>1 DEF CountInv
    <3> QED
      BY <1>1, <1>4, <3>1, GraphMoves
  <2>2. ASSUME NEW s \in Session, conn'[s].pc = "writing"
        PROVE  NotAhead(conn'[s].tally, View(s)')
    <3>1. CASE s = a
      <4>1. conn'[s].tally = TallyOf(View(s)) /\ View(s)' = View(s)
        BY <1>4, <2>2, <3>1, ComesToWrite
      <4> QED
        BY <4>1, CountIsNat DEF TallyOf, NotAhead
    <3>2. CASE s # a
      BY <1>4, <1>u, <2>2, <3>2, OthersUndisturbed
    <3> QED
      BY <3>1, <3>2
  <2> QED
    BY <2>1, <2>2 DEF CountInv, At
<1> QED
  BY <1>2, <1>3, <1>4, NextIsSomeStep

\* A finished status, once computed, stays true until it is written, and after.
LEMMA NextFinish ==
    ASSUME Inv, HeldInv, FinishInv, [Next]_vars
    PROVE  FinishInv'
<1>0. conn \in [Session -> Conn] /\ Child \subseteq Task /\ ParentOf \in [Child -> Task]
  BY StoreAssumption DEF Inv, ControlInv
<1>u. ASSUME NEW s \in Session, Undisturbed(s), conn'[s].pc = "writing"
      PROVE  Finished(conn'[s].status, View(s)')
  <2>1. Finished(conn[s].status, View(s)) /\ conn'[s] = conn[s]
    BY <1>u DEF FinishInv, Undisturbed, At
  <2>2. CASE conn[s].status \in TERMINAL_GRAPH_STATES
    <3>1. Ended(View(s))
      BY <2>1, <2>2 DEF Finished
    <3>2. \A t \in Task : View(s)'[t].status = View(s)[t].status
      BY <1>u, <3>1, EndedViewStays
    <3> QED
      BY <2>1, <3>2, FinishedOfStatuses
  <2>3. CASE conn[s].status \notin TERMINAL_GRAPH_STATES
    BY <2>1, <2>3 DEF Finished
  <2> QED
    BY <2>2, <2>3
<1>1. CASE UNCHANGED vars
  BY <1>1 DEF vars, FinishInv, View, At
<1>2. CASE Passing
  <2>1. graph' = graph /\ \A t \in Task : task'[t].status = task[t].status
    BY <1>2, PassingRowMoves DEF Passing, LeaseLapses, BackoffEnds, Overwrites
  <2>2. Finished(graph'.status, task')
    BY <2>1, FinishedOfStatuses DEF FinishInv
  <2> QED
    BY <1>2, <1>u, <2>2, PassingUndisturbed DEF FinishInv, At
<1>3. ASSUME NEW a \in Session, Step(a) PROVE FinishInv'
  <2>1. Finished(graph'.status, task')
    <3>1. CASE WriteGraph(a)
      <4>1. graph'.status = conn[a].status /\ task' = View(a) /\ At(a, "writing")
        BY <3>1 DEF WriteGraph, Recomputed, Commit, Inv, ControlInv, GraphRow
      <4> QED
        BY <4>1 DEF FinishInv
    <3>2. CASE graph'.status = "RUNNING" \/ graph'.status \notin TERMINAL_GRAPH_STATES
      BY <3>2 DEF Finished, TERMINAL_GRAPH_STATES
    <3>3. CASE graph' = graph /\ graph.status \in TERMINAL_GRAPH_STATES
      <4>1. Finished(graph.status, task) /\ Ended(task)
        BY <3>3 DEF FinishInv, Finished
      <4>2. ASSUME NEW t \in Task PROVE task'[t].status = task[t].status
        <5>1. /\ task[t].status \in TERMINAL_TASK_STATES \cup {"ABSENT"}
              /\ t \in Child => task[ParentOf[t]].status # "RUNNING"
          BY <1>0, <4>1 DEF Ended, Present, TERMINAL_TASK_STATES
        <5> QED
          BY <1>3, <5>1, EndedStays
      <4> QED
        BY <3>3, <4>1, <4>2, FinishedOfStatuses
    <3> QED
      BY <1>3, <3>1, <3>2, <3>3, GraphMoves
  <2>2. ASSUME NEW s \in Session, conn'[s].pc = "writing"
        PROVE  Finished(conn'[s].status, View(s)')
    <3>1. CASE s = a
      BY <1>3, <2>2, <3>1, ComesToWrite, StatusOfIsTrue
    <3>2. CASE s # a
      BY <1>3, <1>u, <2>2, <3>2, OthersUndisturbed
    <3> QED
      BY <3>1, <3>2
  <2> QED
    BY <2>1, <2>2 DEF FinishInv, At
<1> QED
  BY <1>1, <1>2, <1>3, NextIsSomeStep

-----------------------------------------------------------------------------
(* Versions: what the caller of a resume or a retry has read. *)

\* A row's next version has a greater state_version, or the same attempt.
Ahead(r, q) ==
    /\ q.version >= r.version
    /\ q.version = r.version => q.attempts = r.attempts

AskedBy(s) ==
    At(s, "asking") =>
        /\ conn[s].asked \in Task
        /\ task[conn[s].asked].version >= conn[s].seen
        /\ task[conn[s].asked].version = conn[s].seen
              => task[conn[s].asked].attempts = conn[s].during

\* The first version of a row is the one that is inserted.
Unborn(r) == r.status = "ABSENT" => r.version = 1

VersionInv ==
    /\ \A t \in Task : Ahead(task[t], draft[t]) /\ Unborn(task[t]) /\ Unborn(draft[t])
    /\ \A s \in Session : AskedBy(s)

LEMMA InitVersions == Init => VersionInv
<1> SUFFICES ASSUME Init PROVE VersionInv
  OBVIOUS
<1>1. \A t \in Task : draft[t] = task[t] /\ task[t].version = 1
  BY DEF Init, Installed, NewRow
<1>2. \A s \in Session : ~At(s, "asking")
  BY DEF Init, Idle, At
<1> QED
  BY <1>1, <1>2 DEF VersionInv, AskedBy, Ahead, Unborn

\* The committed row only moves ahead, and so does what is prepared for it.
LEMMA RowsMoveAhead ==
    ASSUME Inv, VersionInv, [Next]_vars, NEW t \in Task
    PROVE  /\ Ahead(task[t], task'[t]) /\ Ahead(task'[t], draft'[t])
           /\ Unborn(task'[t]) /\ Unborn(draft'[t])
<1> DEFINE Moved == /\ Ahead(task[t], task'[t]) /\ Ahead(task'[t], draft'[t])
                    /\ Unborn(task'[t]) /\ Unborn(draft'[t])
<1>0. /\ task \in [Task -> TaskRow] /\ draft \in [Task -> TaskRow]
      /\ LedgerOf(task[t]) /\ Ahead(task[t], draft[t])
      /\ Unborn(task[t]) /\ Unborn(draft[t])
  BY DEF Inv, RowInv, VersionInv
<1>1. task[t].version \in Nat /\ draft[t].version \in Nat
  BY <1>0 DEF TaskRow
<1>2. CASE UNCHANGED vars
  BY <1>0, <1>1, <1>2 DEF vars, Ahead
<1>3. CASE (task'[t] = task[t] /\ draft'[t] = draft[t]) \/ Overwrites(t)
  BY <1>0, <1>1, <1>3 DEF Overwrites, Ahead, Unborn
<1>4. ASSUME NEW s \in Session, Step(s) PROVE Moved
  <2>1. RowMoves(s, t)
    BY <1>4, StepRowMoves
  <2>2. CASE Prepares(s, t)
    <3>1. \/ draft'[t].version = task[t].version + 1 /\ draft'[t].status # "ABSENT"
          \/ task[t].status = "ABSENT" /\ draft'[t] = NewRow("READY")
      BY <1>0, <2>2, WrittenFields DEF Prepares, FINISH_TARGETS, TERMINAL_TASK_STATES
    <3>2. CASE draft'[t].version = task[t].version + 1 /\ draft'[t].status # "ABSENT"
      BY <1>0, <1>1, <2>2, <3>2 DEF Prepares, Ahead, Unborn
    <3>3. CASE task[t].status = "ABSENT" /\ draft'[t] = NewRow("READY")
      <4>1. task[t].version = 1 /\ task[t].attempts = 0
        BY <1>0, <3>3 DEF Unborn, LedgerOf
      <4> QED
        BY <1>0, <2>2, <3>3, <4>1 DEF Prepares, Ahead, Unborn, NewRow
    <3> QED
      BY <3>1, <3>2, <3>3
  <2>3. CASE Skip(s, t) /\ task'[t] = Skipped(task[t]) /\ draft'[t] = Skipped(task[t])
    BY <1>0, <1>1, <2>3, WrittenFields DEF Ahead, Unborn
  <2> QED
    BY <1>0, <1>1, <1>3, <2>1, <2>2, <2>3 DEF RowMoves, Ahead, Unborn
<1> QED
  BY <1>2, <1>3, <1>4, PassingRowMoves, NextIsSomeStep

\* A session comes to ask by reading the row.
LEMMA ComesToAsk ==
    ASSUME Inv, NEW s \in Session, Step(s), conn'[s].pc = "asking"
    PROVE  \E t \in Task : ReadTask(s, t)
<1>0. conn \in [Session -> Conn]
  BY DEF Inv, ControlInv
<1>g. ASSUME NEW pc, Goto(s, pc) PROVE conn'[s].pc = pc
  BY <1>0, <1>g DEF Goto, Conn
<1>e. ASSUME End(s) PROVE conn'[s].pc = "idle"
  BY <1>0, <1>e DEF End, Idle
<1>n. ASSUME NEW left, NextRow(s, left) PROVE conn'[s].pc \in {"idle", "refreshing"}
  BY <1>0, <1>n DEF NextRow, Idle
<1>i. ASSUME NEW pc \in PC, At(s, pc), conn' = conn PROVE pc = "asking"
  BY <1>i DEF At
<1>k. ASSUME NEW pc \in PC, At(s, pc), NEW rows, conn' = [conn EXCEPT ![s].rows = rows]
      PROVE  pc = "asking"
  BY <1>0, <1>k DEF At, Conn
<1>m. ASSUME NEW pc, NEW rows, conn' = [conn EXCEPT ![s].pc = pc, ![s].rows = rows]
      PROVE  pc = "asking"
  BY <1>0, <1>m DEF Conn
<1>l. ASSUME NEW pc, NEW left, conn' = [conn EXCEPT ![s].pc = pc, ![s].left = left]
      PROVE  pc = "asking"
  BY <1>0, <1>l DEF Conn
<1>1. ~ \E t \in Task : Heartbeat(s, t) \/ CancelRow(s, t) \/ FlagRow(s, t)
  BY <1>i, <1>k DEF Heartbeat, CancelRow, FlagRow, PC
<1>2. ~ \E t \in Task : ClaimReady(s, t) \/ MarkReady(s, t) \/ Skip(s, t)
  BY <1>l, <1>m DEF ClaimReady, MarkReady, Skip
<1>3. ~ \E t \in Task : \/ ResumeWaiting(s, t) \/ ScheduleRetry(s, t)
                        \/ \E target \in FINISH_TARGETS : FinishRunning(s, t, target)
  BY <1>g DEF ResumeWaiting, ScheduleRetry, FinishRunning
<1>4. /\ ~ \E S \in SUBSET Task : ReclaimExpired(s, S)
      /\ ~ \E c \in Child : AddDynamicTask(s, c)
      /\ ~CancelRecount(s)
  BY <1>g DEF ReclaimExpired, AddDynamicTask, CancelRecount
<1>5. ~WriteGraph(s) /\ ~SetGraphRunning(s) /\ ~ \E t \in Task : RefreshConflict(s, t)
  BY <1>n DEF WriteGraph, SetGraphRunning, RefreshConflict, Drop
<1>6. ~ClaimCommit(s) /\ ~GrowGraph(s) /\ ~Rollback(s)
  BY <1>e DEF ClaimCommit, GrowGraph, Rollback
<1>7. ~RequestCancel(s) /\ ~CancelRunning(s)
  BY <1>0 DEF RequestCancel, CancelRunning, Conn
<1>8. ~Recount(s) /\ ~ \E F \in SUBSET Conditional : ListTasks(s, F)
  <2>1. ~Recount(s)
    <3> SUFFICES ASSUME Recount(s) PROVE FALSE
      OBVIOUS
    <3>1. PICK st, ta : conn' = [conn EXCEPT ![s].pc = "writing", ![s].status = st,
                                             ![s].tally = ta]
      BY Zenon DEF Recount
    <3> QED
      BY <1>0, <3>1 DEF Conn
  <2>2. ASSUME NEW F \in SUBSET Conditional, ListTasks(s, F) PROVE FALSE
    <3>1. PICK rows, skips :
              conn' = [conn EXCEPT ![s].pc = "refreshing", ![s].rows = rows, ![s].skips = skips]
      BY <2>2, Zenon DEF ListTasks
    <3> QED
      BY <1>0, <3>1 DEF Conn
  <2> QED
    BY <2>1, <2>2
<1> QED
  BY <1>1, <1>2, <1>3, <1>4, <1>5, <1>6, <1>7, <1>8, Zenon DEF Step

\* What the caller has read stays behind the row, or of the same attempt.
LEMMA NextVersions ==
    ASSUME Inv, VersionInv, [Next]_vars
    PROVE  VersionInv'
<1>0. conn \in [Session -> Conn] /\ task \in [Task -> TaskRow] /\ task' \in [Task -> TaskRow]
  BY NextRows DEF Inv, RowInv, ControlInv
<1>r. \A t \in Task : /\ Ahead(task'[t], draft'[t])
                      /\ Unborn(task'[t]) /\ Unborn(draft'[t])
  BY RowsMoveAhead
<1>u. ASSUME NEW s \in Session, conn'[s] = conn[s] PROVE AskedBy(s)'
  <2> SUFFICES ASSUME At(s, "asking") PROVE AskedBy(s)'
    BY <1>u DEF AskedBy, At
  <2> DEFINE t == conn[s].asked
  <2>1. t \in Task /\ conn[s].seen \in Nat /\ AskedBy(s)
    BY <1>0 DEF VersionInv, AskedBy, Conn
  <2>2. Ahead(task[t], task'[t])
    BY <2>1, RowsMoveAhead
  <2>3. task[t].version \in Nat /\ task'[t].version \in Nat
    BY <1>0, <2>1 DEF TaskRow
  <2> QED
    BY <1>u, <2>1, <2>2, <2>3 DEF AskedBy, Ahead
<1>1. CASE UNCHANGED vars
  BY <1>1, <1>r, <1>u DEF vars, VersionInv
<1>2. CASE Passing
  BY <1>2, <1>r, <1>u, PassingUndisturbed DEF VersionInv, Undisturbed
<1>3. ASSUME NEW a \in Session, Step(a) PROVE VersionInv'
  <2> SUFFICES ASSUME NEW s \in Session PROVE AskedBy(s)'
    BY <1>r DEF VersionInv
  <2>1. CASE s # a
    BY <1>3, <1>u, <2>1, OthersUndisturbed DEF Undisturbed
  <2>2. CASE s = a /\ conn'[s].pc = "asking"
    <3>1. PICK t \in Task : ReadTask(s, t)
      BY <1>3, <2>2, ComesToAsk
    <3>2. /\ conn'[s].asked = t /\ conn'[s].seen = task[t].version
          /\ conn'[s].during = task[t].attempts /\ task' = task
      BY <1>0, <3>1 DEF ReadTask, Idle
    <3>3. task[t].version \in Nat
      BY <1>0 DEF TaskRow
    <3> QED
      BY <3>2, <3>3 DEF AskedBy
  <2>3. CASE conn'[s].pc # "asking"
    BY <2>3 DEF AskedBy, At
  <2> QED
    BY <2>1, <2>2, <2>3
<1> QED
  BY <1>1, <1>2, <1>3, NextIsSomeStep

-----------------------------------------------------------------------------
(* The theorems that rest on what sessions hold. *)

GraphInv == HeldInv /\ CancelInv /\ JoinInv /\ CountInv /\ FinishInv /\ VersionInv

\* The inductive invariant of the graph, on top of that of its rows.
THEOREM GraphInvariance == Spec => []GraphInv
<1>1. Init => GraphInv
  BY InitHeld, InitCancel, InitJoin, InitGraph, InitVersions DEF GraphInv
<1>2. Inv /\ GraphInv /\ [Next]_vars => GraphInv'
  <2> SUFFICES ASSUME Inv, GraphInv, [Next]_vars PROVE GraphInv'
    OBVIOUS
  <2>1. HeldInv' /\ JoinInv' /\ VersionInv'
    BY NextHeld, NextJoin, NextVersions DEF GraphInv
  <2>2. ReachInv' /\ NoClaimInv'
    BY NextReach, NextNoClaim DEF GraphInv, CancelInv
  <2>3. CountInv' /\ FinishInv'
    BY NextCount, NextFinish DEF GraphInv
  <2> QED
    BY <2>1, <2>2, <2>3 DEF GraphInv, CancelInv
<1> QED
  BY <1>1, <1>2, Invariance, PTL DEF Spec

\* A task that was made READY has its join satisfied, and one that was skipped can never
\* have it satisfied, on however old a read refresh_ready decided.
THEOREM JoinIsRespected == Spec => []JoinRespected
<1>1. GraphInv => JoinRespected
  BY DEF GraphInv, JoinInv, JoinOf, JoinRespected
<1> QED
  BY <1>1, GraphInvariance, PTL

\* A finished status of the graph is the truth about its tasks, whatever recounts and
\* insertions are under way.
THEOREM FinishedIsTrue == Spec => []FinishedGraphIsTrue
<1>1. GraphInv => FinishedGraphIsTrue
  BY DEF GraphInv, FinishInv, Finished, Ended, FinishedGraphIsTrue
<1> QED
  BY <1>1, GraphInvariance, PTL

\* The counters of the graph row never run ahead of the task rows.
THEOREM CountersLag == Spec => []CountersNeverAhead
<1>1. GraphInv => CountersNeverAhead
  BY DEF GraphInv, CountInv, NotAhead, CountersNeverAhead
<1> QED
  BY <1>1, GraphInvariance, PTL

\* The commit of request_cancel leaves no task that could still start, and no running one
\* that has not been told.
THEOREM CancelReaches == Spec => CancelReachesEveryTask
<1>1. ASSUME Inv, GraphInv, [Next]_vars
      PROVE  \A s \in Session :
               graphLock = s /\ task' # task /\ At(s, "writing") /\ conn'[s] = Idle
                   => \A t \in Present(task') :
                         \/ task'[t].status \in TERMINAL_TASK_STATES
                         \/ task'[t].status = "RUNNING" /\ task'[t].cancelled
  <2> SUFFICES ASSUME NEW s \in Session, graphLock = s, task' # task, At(s, "writing"),
                      conn'[s] = Idle, NEW t \in Present(task')
               PROVE  \/ task'[t].status \in TERMINAL_TASK_STATES
                      \/ task'[t].status = "RUNNING" /\ task'[t].cancelled
    OBVIOUS
  <2>1. conn'[s] # conn[s]
    BY DEF Idle, At
  <2>2. Step(s)
    BY <1>1, <2>1, NextIsSomeStep, OthersUndisturbed, PassingUndisturbed
       DEF Undisturbed, vars
  <2>3. WriteGraph(s)
    BY <2>2, Zenon
       DEF Step, At, Recount, RequestCancel, CancelRunning, CancelRecount, Rollback,
           ClaimCommit, SetGraphRunning, GrowGraph, ClaimReady, Heartbeat, ReadTask,
           FinishRunning, MarkReady, Skip, RefreshConflict, ResumeWaiting, ScheduleRetry,
           CancelRow, FlagRow, AddDynamicTask, ReclaimExpired, ListTasks
  <2>4. task' = View(s) /\ t \in Task
    BY <2>3 DEF WriteGraph, Commit, Present
  <2>5. task'[t].status # "ABSENT"
    BY DEF Present
  <2> QED
    BY <1>1, <2>4, <2>5, AllReached DEF GraphInv, CancelInv, At
<1> QED
  BY <1>1, Invariance, GraphInvariance, PTL DEF Spec, CancelReachesEveryTask

\* In a cancelled graph no attempt begins, not even one that was claimed before.
THEOREM NoneAfterCancel == Spec => NoAttemptAfterCancel
<1>1. ASSUME Inv, GraphInv, [Next]_vars
      PROVE  graph.cancelled => \A t \in Task : task'[t].attempts = task[t].attempts
  <2> SUFFICES ASSUME graph.cancelled, NEW t \in Task
               PROVE  task'[t].attempts = task[t].attempts
    OBVIOUS
  <2>1. task[t] \in TaskRow /\ draft[t].attempts = task[t].attempts
    BY <1>1 DEF Inv, RowInv, GraphInv, CancelInv, NoClaimInv
  <2>2. CASE UNCHANGED vars
    BY <2>2 DEF vars
  <2>3. CASE Passing
    BY <1>1, <2>3, PassingRowMoves DEF Overwrites
  <2>4. ASSUME NEW s \in Session, Step(s) PROVE task'[t].attempts = task[t].attempts
    BY <1>1, <2>1, <2>4, StepRowMoves, WrittenFields DEF RowMoves, Prepares, Overwrites
  <2> QED
    BY <1>1, <2>2, <2>3, <2>4, NextIsSomeStep
<1> QED
  BY <1>1, Invariance, GraphInvariance, PTL DEF Spec, NoAttemptAfterCancel

\* A resume or a retry requeues the attempt its caller has read, never a later one.
THEOREM RequeuesTheRead == Spec => RequeuesWhatItRead
<1>1. ASSUME Inv, GraphInv, [Next]_vars
      PROVE  \A s \in Session, t \in Task :
               At(s, "asking") /\ conn'[s].pc = "readying" /\ lock'[t] = s
                   => t = conn[s].asked /\ draft[t].attempts = conn[s].during
  <2> SUFFICES ASSUME NEW s \in Session, NEW t \in Task, At(s, "asking"),
                      conn'[s].pc = "readying", lock'[t] = s
               PROVE  t = conn[s].asked /\ draft[t].attempts = conn[s].during
    OBVIOUS
  <2>1. conn'[s] # conn[s]
    BY DEF At
  <2>2. Step(s)
    BY <1>1, <2>1, NextIsSomeStep, OthersUndisturbed, PassingUndisturbed
       DEF Undisturbed, vars
  <2>3. End(s) => conn'[s].pc = "idle"
    BY <1>1 DEF Inv, ControlInv, End, Idle
  <2>4. PICK u \in Task : ResumeWaiting(s, u) \/ ScheduleRetry(s, u)
    BY <2>2, <2>3, Zenon
       DEF Step, At, InClaimLoop, Recount, WriteGraph, RequestCancel, CancelRunning,
           CancelRecount, Rollback, ClaimCommit, SetGraphRunning, GrowGraph, ClaimReady,
           Heartbeat, ReadTask, FinishRunning, MarkReady, Skip, RefreshConflict, CancelRow,
           FlagRow, AddDynamicTask, ReclaimExpired, ListTasks
  <2>5. /\ conn[s].asked = u /\ Free(u) /\ task[u].version = conn[s].seen
        /\ \A v \in Task \ {u} : lock'[v] = lock[v]
    BY <2>4 DEF ResumeWaiting, ScheduleRetry, SeenIsCurrent, Write
  <2>6. lock[t] # s
    BY <1>1 DEF GraphInv, HeldInv, HeldBy, Holding, At
  <2>7. t = u /\ draft[u] = task[u]
    BY <1>1, <2>5, <2>6 DEF Inv, RowInv, Free
  <2>8. task[u].attempts = conn[s].during
    BY <1>1, <2>5 DEF GraphInv, VersionInv, AskedBy
  <2> QED
    BY <2>5, <2>7, <2>8
<1> QED
  BY <1>1, Invariance, GraphInvariance, PTL DEF Spec, RequeuesWhatItRead
=============================================================================
