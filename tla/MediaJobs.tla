------------------------------ MODULE MediaJobs ------------------------------
(***************************************************************************)
(* The path of a media job, from the API's transaction to a final row:     *)
(*                                                                         *)
(*   create    one transaction writes the tasks row and a job dispatch row *)
(*             in outbox_events;                                           *)
(*   dispatch  MediaJobOutboxDispatcher publishes unpublished rows under   *)
(*             their locks and marks them in the same transaction;         *)
(*   work      a Celery worker (acks_late = false: the message is gone     *)
(*             before the task runs) claims the row, runs the handler and  *)
(*             writes the end of the run;                                  *)
(*   wait      a handler that polls a provider parks the row, and the wake *)
(*             scheduler of the dispatcher process redispatches it;        *)
(*   fail      RETRYING is sent again by Celery, a final failure becomes a *)
(*             dead letter, which an operator may replay.                  *)
(*                                                                         *)
(* Every statement of TaskJobStore is a transaction of its own, so the     *)
(* steps of two workers interleave between them.  A fault of the store is  *)
(* an exception in the worker, of a statement that was committed or not.   *)
(* The handler's answer is free here; VideoJobs models the one of video.   *)
(***************************************************************************)
EXTENDS Naturals, FiniteSets

CONSTANTS Jobs,         \* media tasks that the API may create
          Workers,      \* Celery worker processes
          Dispatchers,  \* outbox dispatcher processes
          BatchLimit,   \* rows of one dispatch transaction
          MaxAttempts,  \* tasks.max_attempts
          MaxRetries,   \* max_retries of the Celery task
          MaxWaits,     \* bound: external waits of one job
          MaxReplays,   \* bound: replays of dead letters
          MaxCrashes,   \* bound: crashes of workers and dispatchers
          MaxFaults     \* bound: failed calls of the database and the broker

ASSUME JobsAssumption ==
  /\ Jobs # {}
  /\ BatchLimit \in Nat \ {0} /\ MaxAttempts \in Nat \ {0} /\ MaxRetries \in Nat
  /\ MaxWaits \in Nat /\ MaxReplays \in Nat /\ MaxCrashes \in Nat /\ MaxFaults \in Nat

(* image.transform: 3 attempts, max_retries 3; video.render: 3 and 2.      *)
ASSUME RetriesCoverAttempts == MaxRetries + 1 >= MaxAttempts

VARIABLES task,        \* [Jobs -> row of tasks]
          outbox,      \* job dispatch rows with published_at NULL
          dispatcher,  \* [Dispatchers -> its open transaction]
          broker,      \* [Jobs -> [retries -> number of messages]]
          worker,      \* [Workers -> the task it runs]
          dead,        \* [Jobs -> dead letters not replayed]
          bounds,      \* counters behind MaxReplays, MaxCrashes and MaxFaults
          resumes,     \* history: [Jobs -> claims of a parked row]
          dropped,     \* history: jobs whose message or run was lost to a fault
          unheard      \* history: jobs with a commit the worker heard as a failure

vars == <<task, outbox, dispatcher, broker, worker, dead, bounds, resumes, dropped, unheard>>

Retries == 0 .. MaxRetries

(* cancel: cancellation_requested_at is set; timer: retry_not_before is    *)
(* set; wakes stands for the state_version that names a wake's outbox row. *)
Kinds == {"image.transform", "video.render"}
TaskRow == [kind : Kinds,
            status : {"absent", "pending", "running", "retrying", "waiting_external",
                      "succeeded", "failed", "cancelled"},
            attempts : 0 .. MaxAttempts, cancel : BOOLEAN, timer : BOOLEAN,
            wakes : 0 .. MaxWaits]
Absent == [kind |-> "image.transform", status |-> "absent", attempts |-> 0, cancel |-> FALSE, timer |-> FALSE, wakes |-> 0]

Record == [job : Jobs, wake : 0 .. MaxWaits]
Terminal == {"succeeded", "failed", "cancelled"}
Claimed == {"handling", "handled", "reconciling", "storing", "failing"}
WorkerState == [pc : Claimed \cup {"idle", "received", "checked", "retrying", "dead"},
                job : Jobs, retries : Retries, cancelSeen : BOOLEAN,
                result : {"none", "ok", "wait", "cancelled", "refused", "transient", "permanent"}]

(* The job of an idle worker means nothing.                                *)
Idle == [pc |-> "idle", job |-> CHOOSE j \in Jobs : TRUE, retries |-> 0,
         cancelSeen |-> FALSE, result |-> "none"]

TypeOK ==
  /\ task \in [Jobs -> TaskRow]
  /\ outbox \subseteq Record
  /\ dispatcher \in [Dispatchers -> [batch : SUBSET Record, sent : SUBSET Record]]
  /\ broker \in [Jobs -> [Retries -> Nat]]
  /\ worker \in [Workers -> WorkerState]
  /\ dead \in [Jobs -> Nat]
  /\ bounds \in [replays : 0 .. MaxReplays, crashes : 0 .. MaxCrashes, faults : 0 .. MaxFaults]
  /\ resumes \in [Jobs -> Nat]
  /\ dropped \subseteq Jobs /\ unheard \subseteq Jobs

Init ==
  /\ task = [j \in Jobs |-> Absent]
  /\ outbox = {}
  /\ dispatcher = [d \in Dispatchers |-> [batch |-> {}, sent |-> {}]]
  /\ broker = [j \in Jobs |-> [r \in Retries |-> 0]]
  /\ worker = [w \in Workers |-> Idle]
  /\ dead = [j \in Jobs |-> 0]
  /\ bounds = [replays |-> 0, crashes |-> 0, faults |-> 0]
  /\ resumes = [j \in Jobs |-> 0]
  /\ dropped = {} /\ unheard = {}

Fault == bounds.faults < MaxFaults /\ bounds' = [bounds EXCEPT !.faults = @ + 1]
Crash == bounds.crashes < MaxCrashes /\ bounds' = [bounds EXCEPT !.crashes = @ + 1]

Published(queue, j, r) == [queue EXCEPT ![j][r] = @ + 1]

-----------------------------------------------------------------------------
(* The API and the database.                                               *)

(* create: the row and its dispatch are one transaction, under the         *)
(* advisory locks of the idempotency key, the operation and the task.  A   *)
(* row that another service has inserted, pending or retrying and without  *)
(* an input, is bound by an UPDATE instead: to a job it is absent until    *)
(* then, for without an input there is no dispatch of it.                  *)
CreateGeneration(j, kind) ==
  /\ task[j].status = "absent"
  /\ task' = [task EXCEPT ![j].kind = kind, ![j].status = "pending"]
  /\ outbox' = outbox \cup {[job |-> j, wake |-> 0]}
  /\ UNCHANGED <<dispatcher, broker, worker, dead, bounds, resumes, dropped, unheard>>

(* cancellation_requested_at is written by request_cancel of the task      *)
(* graph store alone, there for the statuses of a graph's tasks; here it   *)
(* comes while the job is open, at any moment of it.                       *)
RequestCancel(j) ==
  /\ task[j].status \notin Terminal \cup {"absent"}
  /\ ~task[j].cancel
  /\ task' = [task EXCEPT ![j].cancel = TRUE]
  /\ UNCHANGED <<outbox, dispatcher, broker, worker, dead, bounds, resumes, dropped, unheard>>

(* The wake scheduler: every due wait of a batch gets a new dispatch row   *)
(* and loses its timer, in one transaction.                                *)
Due == {j \in Jobs : task[j].status = "waiting_external" /\ task[j].timer}

\* Slip: the timer is taken away without a dispatch row.
StageDueBatchWithoutRow(due) ==
  /\ due # {} /\ due \subseteq Due /\ Cardinality(due) <= BatchLimit
  /\ task' = [j \in Jobs |->
        IF j \in due THEN [task[j] EXCEPT !.timer = FALSE, !.wakes = @ + 1] ELSE task[j]]
  /\ UNCHANGED <<outbox, dispatcher, broker, worker, dead, bounds, resumes, dropped, unheard>>

StageDueBatch(due) ==
  /\ due # {} /\ due \subseteq Due /\ Cardinality(due) <= BatchLimit
  /\ task' = [j \in Jobs |->
        IF j \in due THEN [task[j] EXCEPT !.timer = FALSE, !.wakes = @ + 1] ELSE task[j]]
  /\ outbox' = outbox \cup {[job |-> j, wake |-> task[j].wakes + 1] : j \in due}
  /\ UNCHANGED <<dispatcher, broker, worker, dead, bounds, resumes, dropped, unheard>>

-----------------------------------------------------------------------------
(* MediaJobOutboxDispatcher.dispatch_batch.  The order of the rows in a    *)
(* batch (created_at, id) is left open: the messages have no order either. *)

Closed == [batch |-> {}, sent |-> {}]
Locked == UNION {dispatcher[d].batch \cup dispatcher[d].sent : d \in Dispatchers}

(* SELECT ... FOR UPDATE SKIP LOCKED LIMIT                                 *)
BeginBatch(d) ==
  /\ dispatcher[d] = Closed
  /\ \E rows \in SUBSET (outbox \ Locked) :
       /\ rows # {} /\ Cardinality(rows) <= BatchLimit
       /\ Cardinality(rows) = BatchLimit \/ rows = outbox \ Locked
       /\ dispatcher' = [dispatcher EXCEPT ![d].batch = rows]
  /\ UNCHANGED <<task, outbox, broker, worker, dead, bounds, resumes, dropped, unheard>>

PublishRow(d) ==
  /\ \E row \in dispatcher[d].batch :
       /\ broker' = Published(broker, row.job, 0)
       /\ dispatcher' = [dispatcher EXCEPT ![d] = [batch |-> @.batch \ {row},
                                                   sent |-> @.sent \cup {row}]]
  /\ UNCHANGED <<task, outbox, worker, dead, bounds, resumes, dropped, unheard>>

\* Slip: the row whose publish raised is marked as published, too.
PublishFailsMarked(d) ==
  /\ Fault
  /\ \E row \in dispatcher[d].batch, accepted \in BOOLEAN :
       /\ broker' = IF accepted THEN Published(broker, row.job, 0) ELSE broker
       /\ outbox' = outbox \ (dispatcher[d].sent \cup {row})
  /\ dispatcher' = [dispatcher EXCEPT ![d] = Closed]
  /\ UNCHANGED <<task, worker, dead, resumes, dropped, unheard>>

(* A publish that raises ends the batch: the rows before it are committed, *)
(* its own stays unpublished even when the broker took the message.        *)
PublishFails(d) ==
  /\ Fault
  /\ \E row \in dispatcher[d].batch, accepted \in BOOLEAN :
       broker' = IF accepted THEN Published(broker, row.job, 0) ELSE broker
  /\ outbox' = outbox \ dispatcher[d].sent
  /\ dispatcher' = [dispatcher EXCEPT ![d] = Closed]
  /\ UNCHANGED <<task, worker, dead, resumes, dropped, unheard>>

CommitBatch(d) ==
  /\ dispatcher[d].batch = {} /\ dispatcher[d].sent # {}
  /\ outbox' = outbox \ dispatcher[d].sent
  /\ dispatcher' = [dispatcher EXCEPT ![d] = Closed]
  /\ UNCHANGED <<task, broker, worker, dead, bounds, resumes, dropped, unheard>>

(* The transaction rolls back: what was sent is sent again later.          *)
DispatcherCrash(d) ==
  /\ dispatcher[d] # Closed
  /\ Crash
  /\ dispatcher' = [dispatcher EXCEPT ![d] = Closed]
  /\ UNCHANGED <<task, outbox, broker, worker, dead, resumes, dropped, unheard>>

-----------------------------------------------------------------------------
(* execute_job and execute_video_job, one action per statement of the      *)
(* store or call of the handler.                                           *)

At(w, pc) == worker[w].pc = pc
JobOf(w) == worker[w].job
IsVideo(w) == task[JobOf(w)].kind = "video.render"
Goto(w, pc) == worker' = [worker EXCEPT ![w].pc = pc]
GotoWith(w, pc, result) == worker' = [worker EXCEPT ![w].pc = pc, ![w].result = result]
Done(w) == worker' = [worker EXCEPT ![w] = Idle]
CancelRequested(j) == task[j].status = "cancelled" \/ task[j].cancel

(* acks_late = false: the message is acknowledged when it is received.     *)
Receive(w, j, r) ==
  /\ At(w, "idle") /\ broker[j][r] > 0
  /\ broker' = [broker EXCEPT ![j][r] = @ - 1]
  /\ worker' = [worker EXCEPT ![w].pc = "received", ![w].job = j, ![w].retries = r]
  /\ UNCHANGED <<task, outbox, dispatcher, dead, bounds, resumes, dropped, unheard>>

(* Before the claim: execute_job answers CANCELLED and leaves the row as   *)
(* it is; execute_video_job remembers the request and goes on.             *)
CheckBefore(w) ==
  /\ At(w, "received")
  /\ IF IsVideo(w)
     THEN worker' = [worker EXCEPT ![w].pc = "checked", ![w].cancelSeen = CancelRequested(JobOf(w))]
     ELSE IF CancelRequested(JobOf(w)) THEN Done(w) ELSE Goto(w, "checked")
  /\ UNCHANGED <<task, outbox, dispatcher, broker, dead, bounds, resumes, dropped, unheard>>

\* Slip: a running row is claimed again.
ClaimableRunning(row) ==
  \/ row.status \in {"pending", "retrying", "running"} /\ row.attempts < MaxAttempts /\ ~row.timer
  \/ row.status = "waiting_external" /\ ~row.timer

\* Slip: retry_not_before is not looked at.
ClaimableAnyTime(row) ==
  \/ row.status \in {"pending", "retrying"} /\ row.attempts < MaxAttempts /\ ~row.timer
  \/ row.status = "waiting_external"

\* Slip: a failed row with attempts left is claimed.
ClaimableFailed(row) ==
  \/ row.status \in {"pending", "retrying", "failed"} /\ row.attempts < MaxAttempts /\ ~row.timer
  \/ row.status = "waiting_external" /\ ~row.timer

Claimable(row) ==
  \/ row.status \in {"pending", "retrying"} /\ row.attempts < MaxAttempts /\ ~row.timer
  \/ row.status = "waiting_external" /\ ~row.timer

ClaimedRow(row) ==
  [row EXCEPT !.status = "running",
              !.attempts = IF row.status = "waiting_external" THEN @ ELSE @ + 1]

Resumed(j) == IF task[j].status = "waiting_external"
              THEN [resumes EXCEPT ![j] = @ + 1] ELSE resumes

Claim(w) ==
  /\ At(w, "checked") /\ Claimable(task[JobOf(w)])
  /\ task' = [task EXCEPT ![JobOf(w)] = ClaimedRow(@)]
  /\ resumes' = Resumed(JobOf(w))
  /\ Goto(w, IF worker[w].cancelSeen THEN "reconciling" ELSE "handling")
  /\ UNCHANGED <<outbox, dispatcher, broker, dead, bounds, dropped, unheard>>

(* The message of a row that is not claimable is spent without effect.     *)
SkipUnclaimable(w) ==
  /\ At(w, "checked") /\ ~Claimable(task[JobOf(w)])
  /\ Done(w)
  /\ UNCHANGED <<task, outbox, dispatcher, broker, dead, bounds, resumes, dropped, unheard>>

(* The handler returns an output or an ExternalWait, or raises.            *)
Handle(w, result) ==
  /\ At(w, "handling")
  /\ result = "wait" => task[JobOf(w)].wakes < MaxWaits
  /\ GotoWith(w, IF result \in {"transient", "permanent"} THEN "failing" ELSE "handled", result)
  /\ UNCHANGED <<task, outbox, dispatcher, broker, dead, bounds, resumes, dropped, unheard>>

(* After the handler: a requested cancellation takes the place of the      *)
(* result, at once for execute_job, through the provider for video.        *)
CheckAfter(w) ==
  /\ At(w, "handled")
  /\ IF ~CancelRequested(JobOf(w)) THEN Goto(w, "storing")
     ELSE IF IsVideo(w) THEN GotoWith(w, "reconciling", "none")
     ELSE GotoWith(w, "storing", "cancelled")
  /\ UNCHANGED <<task, outbox, dispatcher, broker, dead, bounds, resumes, dropped, unheard>>

(* _reconcile_cancellation: what the provider says of the job; refused is  *)
(* its own FAILED, which is written inside the try block.                  *)
Reconcile(w, result) ==
  /\ At(w, "reconciling")
  /\ result = "wait" => task[JobOf(w)].wakes < MaxWaits
  /\ GotoWith(w, IF result \in {"transient", "permanent"} THEN "failing" ELSE "storing", result)
  /\ UNCHANGED <<task, outbox, dispatcher, broker, dead, bounds, resumes, dropped, unheard>>

(* wait_external refuses a row that is not running; succeed and cancel     *)
(* change nothing when their WHERE clause finds no row.                    *)
Refused(w) == worker[w].result = "wait" /\ task[JobOf(w)].status # "running"

StoredRow(row, result) ==
  CASE result = "wait" -> [row EXCEPT !.status = "waiting_external", !.timer = TRUE]
    [] result = "ok" -> IF row.status = "running"
                        THEN [row EXCEPT !.status = "succeeded", !.timer = FALSE] ELSE row
    [] result = "refused" -> [row EXCEPT !.status = "failed", !.timer = FALSE]
    [] OTHER -> IF row.status \in {"pending", "running", "retrying", "waiting_external"}
                THEN [row EXCEPT !.status = "cancelled", !.timer = FALSE] ELSE row

Store(w) ==
  /\ At(w, "storing")
  /\ IF Refused(w)
     THEN GotoWith(w, "failing", "permanent") /\ task' = task
     ELSE /\ task' = [task EXCEPT ![JobOf(w)] = StoredRow(@, worker[w].result)]
          /\ IF worker[w].result = "refused" THEN Goto(w, "dead") ELSE Done(w)
  /\ UNCHANGED <<outbox, dispatcher, broker, dead, bounds, resumes, dropped, unheard>>

(* fail has no guard on the status: it overwrites whatever row it finds.   *)
Retried(w) == worker[w].result = "transient" /\ task[JobOf(w)].attempts < MaxAttempts
FailedRow(w) == [task[JobOf(w)] EXCEPT !.status = IF Retried(w) THEN "retrying" ELSE "failed",
                                       !.timer = FALSE]
Fail(w) ==
  /\ At(w, "failing")
  /\ task' = [task EXCEPT ![JobOf(w)] = FailedRow(w)]
  /\ Goto(w, IF Retried(w) THEN "retrying" ELSE "dead")
  /\ UNCHANGED <<outbox, dispatcher, broker, dead, bounds, resumes, dropped, unheard>>

(* self.retry: the same message with retries + 1, or its exception.        *)
Retry(w) ==
  /\ At(w, "retrying")
  /\ IF worker[w].retries < MaxRetries
     THEN broker' = Published(broker, JobOf(w), worker[w].retries + 1) /\ Done(w)
     ELSE broker' = broker /\ Goto(w, "dead")
  /\ UNCHANGED <<task, outbox, dispatcher, dead, bounds, resumes, dropped, unheard>>

(* RuntimeTask.on_failure records a dead letter and suppresses its errors. *)
RecordDeadLetter(w) ==
  /\ At(w, "dead")
  /\ dead' = [dead EXCEPT ![JobOf(w)] = @ + 1]
  /\ Done(w)
  /\ UNCHANGED <<task, outbox, dispatcher, broker, bounds, resumes, dropped, unheard>>

-----------------------------------------------------------------------------
(* Faults of a worker.                                                     *)

(* A call of the store raises; committed says whether PostgreSQL had taken *)
(* the statement.  Inside the try block the exception becomes a permanent  *)
(* failure, outside it ends the Celery task.                               *)
Guarded(w) == worker[w].pc \in {"handled", "storing"} /\ ~(worker[w].result = "cancelled" /\ ~IsVideo(w))
RaiseTo(w) == IF Guarded(w) THEN GotoWith(w, "failing", "permanent") ELSE Goto(w, "dead")

Written(w) ==
  CASE At(w, "checked") /\ Claimable(task[JobOf(w)]) -> ClaimedRow(task[JobOf(w)])
    [] At(w, "storing") /\ ~Refused(w) -> StoredRow(task[JobOf(w)], worker[w].result)
    [] At(w, "failing") -> FailedRow(w)
    [] OTHER -> task[JobOf(w)]

StoreFault(w, committed) ==
  /\ worker[w].pc \in {"received", "checked", "handled", "storing", "failing"}
  /\ committed => Written(w) # task[JobOf(w)]
  /\ Fault
  /\ RaiseTo(w)
  /\ task' = IF committed THEN [task EXCEPT ![JobOf(w)] = Written(w)] ELSE task
  /\ resumes' = IF committed /\ At(w, "checked") /\ Claimable(task[JobOf(w)])
                THEN Resumed(JobOf(w)) ELSE resumes
  /\ unheard' = IF committed THEN unheard \cup {JobOf(w)} ELSE unheard
  /\ dropped' = IF Guarded(w) THEN dropped ELSE dropped \cup {JobOf(w)}
  /\ UNCHANGED <<outbox, dispatcher, broker, dead>>

(* The publish of a retry, or the record of a dead letter, fails.          *)
PublishFault(w) ==
  /\ worker[w].pc \in {"retrying", "dead"}
  /\ Fault
  /\ IF At(w, "retrying") THEN Goto(w, "dead") ELSE Done(w)
  /\ dropped' = IF At(w, "retrying") THEN dropped \cup {JobOf(w)} ELSE dropped
  /\ UNCHANGED <<task, outbox, dispatcher, broker, dead, resumes, unheard>>

(* task_reject_on_worker_lost = false: nothing brings the message back.    *)
WorkerCrash(w) ==
  /\ ~At(w, "idle")
  /\ Crash
  /\ Done(w)
  /\ dropped' = dropped \cup {JobOf(w)}
  /\ UNCHANGED <<task, outbox, dispatcher, broker, dead, resumes, unheard>>

(* The operator's replay: publish, then mark the record; a crash between   *)
(* the two leaves the record to be replayed again.                         *)
ReplayDeadLetter(j, marked) ==
  /\ dead[j] > 0 /\ bounds.replays < MaxReplays
  /\ bounds' = [bounds EXCEPT !.replays = @ + 1]
  /\ broker' = Published(broker, j, 0)
  /\ dead' = IF marked THEN [dead EXCEPT ![j] = @ - 1] ELSE dead
  /\ UNCHANGED <<task, outbox, dispatcher, worker, resumes, dropped, unheard>>

-----------------------------------------------------------------------------
Results == {"ok", "wait", "transient", "permanent"}
Work(w) ==
  \/ \E j \in Jobs, r \in Retries : Receive(w, j, r)
  \/ CheckBefore(w) \/ Claim(w) \/ SkipUnclaimable(w)
  \/ \E result \in Results : Handle(w, result)
  \/ CheckAfter(w)
  \/ \E result \in Results \cup {"cancelled", "refused"} : Reconcile(w, result)
  \/ Store(w) \/ Fail(w) \/ Retry(w) \/ RecordDeadLetter(w)

Dispatch(d) == BeginBatch(d) \/ PublishRow(d) \/ CommitBatch(d)

Next ==
  \/ \E j \in Jobs, kind \in Kinds : CreateGeneration(j, kind)
  \/ \E j \in Jobs : RequestCancel(j)
  \/ \E due \in SUBSET Jobs : StageDueBatch(due)
  \/ \E d \in Dispatchers : Dispatch(d) \/ PublishFails(d) \/ DispatcherCrash(d)
  \/ \E w \in Workers : Work(w)
  \/ \E w \in Workers, committed \in BOOLEAN : StoreFault(w, committed)
  \/ \E w \in Workers : PublishFault(w) \/ WorkerCrash(w)
  \/ \E j \in Jobs, marked \in BOOLEAN : ReplayDeadLetter(j, marked)

Spec == Init /\ [][Next]_vars

(* The dispatcher loop and the workers keep running; the dispatcher is     *)
(* restarted when it stops.                                                *)
Fairness ==
  /\ WF_vars(\E due \in SUBSET Jobs : StageDueBatch(due))
  /\ \A d \in Dispatchers : WF_vars(Dispatch(d))
  /\ \A w \in Workers : WF_vars(Work(w))
FairSpec == Spec /\ Fairness

-----------------------------------------------------------------------------
(* Properties.                                                             *)

Holds(w) == worker[w].pc \in Claimed

(* Duplicated messages, retries, wakes and replays never put two workers   *)
(* on one job, and the row says running for as long as its worker is at    *)
(* it; only a commit that was heard as a failure can leave a worker        *)
(* writing the end of a run that is over.                                  *)
OneHolder ==
  \A w \in Workers : Holds(w) /\ JobOf(w) \notin unheard =>
    /\ task[JobOf(w)].status = "running"
    /\ \A v \in Workers \ {w} : Holds(v) => JobOf(v) # JobOf(w)

(* Whatever interleaving brought it there, a job that waits for a worker   *)
(* has something on the way that will bring one: a dispatch row, a         *)
(* message, a worker before its claim or before its retry.  The exceptions *)
(* are the faults the code does not recover from, and the cancelled job    *)
(* that execute_job leaves as it was.                                      *)
OnTheWay(j) ==
  \/ \E row \in outbox : row.job = j /\ \A d \in Dispatchers : row \notin dispatcher[d].sent
  \/ \E r \in Retries : broker[j][r] > 0
  \/ \E w \in Workers : JobOf(w) = j /\ worker[w].pc \in {"received", "checked", "retrying"}
Forgiven(j) == j \in dropped \cup unheard \/ (task[j].cancel /\ task[j].kind = "image.transform")
Carried ==
  \A j \in Jobs : ~Forgiven(j) =>
    /\ Claimable(task[j]) => OnTheWay(j)
    /\ task[j].status = "running" => \E w \in Workers : JobOf(w) = j /\ Holds(w)
    /\ task[j].status \in {"pending", "retrying"} => Claimable(task[j])

(* An external wait costs no attempt and a wake is used once: the claims   *)
(* of a job are its attempts and at most one for each wake staged.         *)
RunsAreEarned == \A j \in Jobs : resumes[j] <= task[j].wakes

(* A settled row stays settled, replays and late messages included; only   *)
(* fail, after a commit it did not hear of, takes a settled row back.      *)
TerminalIsFinal ==
  [][\A j \in Jobs : task[j].status \in Terminal =>
        task'[j].status = task[j].status \/ j \in unheard]_vars

(* Every job the API accepted settles, through dispatcher crashes, failed  *)
(* publishes and duplicates, unless its own worker or one of its calls is  *)
(* lost, or it is an image job whose cancellation was seen before a claim. *)
EveryJobSettles ==
  \A j \in Jobs : task[j].status = "pending" ~>
                     (task[j].status \in Terminal \/ Forgiven(j))

=============================================================================
