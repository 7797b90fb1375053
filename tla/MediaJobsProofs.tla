-------------------------- MODULE MediaJobsProofs --------------------------
(***************************************************************************)
(* An inductive invariant of MediaJobs, for any jobs, workers, dispatchers *)
(* and limits, and what follows from it.                                   *)
(***************************************************************************)
EXTENDS MediaJobs, TLAPS

\* A worker that writes the end of a run that is over.
Ghost(w) == At(w, "failing") /\ worker[w].result = "permanent" /\ JobOf(w) \in unheard
Owns(w) == Holds(w) /\ ~Ghost(w)

(* A job has one owner, and the row is running while it has one, unless a  *)
(* ghost has failed it.                                                    *)
OwnerInv ==
  /\ \A w \in Workers : Owns(w) =>
       \/ task[JobOf(w)].status = "running"
       \/ task[JobOf(w)].status = "failed" /\ JobOf(w) \in unheard
  /\ \A v, w \in Workers : Owns(v) /\ Owns(w) /\ JobOf(v) = JobOf(w) => v = w
  /\ \A w \in Workers : worker[w].pc \in {"handled", "storing"} /\ worker[w].result = "wait" =>
       task[JobOf(w)].wakes < MaxWaits
  /\ \A w \in Workers : Holds(w) => task[JobOf(w)].attempts # 0

RowOK(j) ==
  /\ task[j].status = "absent" => task[j] = Absent
  /\ task[j].status \in {"pending", "retrying"} => task[j].attempts < MaxAttempts /\ ~task[j].timer
  /\ task[j].status = "waiting_external" =>
       IF task[j].timer THEN task[j].wakes < MaxWaits ELSE resumes[j] < task[j].wakes
  /\ resumes[j] <= task[j].wakes
  /\ task[j].attempts = 0 => task[j].status \in {"absent", "pending"}
RowInv == \A j \in Jobs : RowOK(j)

Records == outbox \cup UNION {dispatcher[d].batch \cup dispatcher[d].sent : d \in Dispatchers}

\* Nothing is on its way for a job that does not exist.
KnownInv ==
  /\ \A record \in Records : task[record.job].status # "absent" /\ record.wake <= task[record.job].wakes
  /\ \A j \in Jobs, r \in Retries : broker[j][r] > 0 => task[j].status # "absent"
  /\ \A w \in Workers : ~At(w, "idle") => task[JobOf(w)].status # "absent"
  /\ \A j \in Jobs : dead[j] > 0 => task[j].status # "absent"

(* Celery's count of retries is behind the row's count of attempts: the    *)
(* retries do not run out before the attempts do.                          *)
Counted(j, r) ==
  \/ j \in unheard
  \/ r < task[j].attempts
  \/ r = task[j].attempts /\ task[j].status \in {"pending", "retrying"}
CountOK(w) ==
  /\ worker[w].pc \in {"received", "checked"} => Counted(JobOf(w), worker[w].retries)
  /\ Holds(w) /\ JobOf(w) \notin unheard => worker[w].retries < task[JobOf(w)].attempts
  /\ At(w, "retrying") /\ JobOf(w) \notin unheard =>
       worker[w].retries < MaxRetries /\ Counted(JobOf(w), worker[w].retries + 1)
CountInv ==
  /\ \A j \in Jobs, r \in Retries : broker[j][r] > 0 => Counted(j, r)
  /\ \A w \in Workers : CountOK(w)

Inv == TypeOK /\ OwnerInv /\ RowInv /\ KnownInv /\ CountInv /\ Carried

-----------------------------------------------------------------------------
(* Types. *)

LEMMA IdleType == Idle \in WorkerState /\ Idle.pc = "idle" /\ Closed.batch = {} /\ Closed.sent = {}
  <1>1. (CHOOSE j \in Jobs : TRUE) \in Jobs
    BY JobsAssumption
  <1>2. 0 \in Retries
    BY JobsAssumption DEF Retries
  <1> QED
    BY <1>1, <1>2 DEF Idle, WorkerState, Closed

\* Where the steps of a worker take it.
LEMMA GotoType ==
  ASSUME TypeOK, NEW w \in Workers, NEW pc \in Claimed \cup {"idle", "received", "checked", "retrying", "dead"},
         Goto(w, pc)
  PROVE  /\ worker' \in [Workers -> WorkerState]
         /\ worker'[w].pc = pc /\ worker'[w].job = worker[w].job
         /\ worker'[w].retries = worker[w].retries /\ worker'[w].result = worker[w].result
         /\ \A v \in Workers \ {w} : worker'[v] = worker[v]
  <1>1. worker' = [worker EXCEPT ![w] = [worker[w] EXCEPT !.pc = pc]]
    BY DEF Goto
  <1>2. worker[w] \in WorkerState
    BY DEF TypeOK
  <1>3. [worker[w] EXCEPT !.pc = pc] \in WorkerState
    BY <1>2 DEF WorkerState
  <1> QED
    BY <1>1, <1>2, <1>3 DEF TypeOK, WorkerState

LEMMA GotoWithType ==
  ASSUME TypeOK, NEW w \in Workers, NEW pc \in Claimed,
         NEW r \in {"none", "ok", "wait", "cancelled", "refused", "transient", "permanent"},
         GotoWith(w, pc, r)
  PROVE  /\ worker' \in [Workers -> WorkerState]
         /\ worker'[w].pc = pc /\ worker'[w].job = worker[w].job
         /\ worker'[w].retries = worker[w].retries /\ worker'[w].result = r
         /\ \A v \in Workers \ {w} : worker'[v] = worker[v]
  <1>1. worker' = [worker EXCEPT ![w] = [worker[w] EXCEPT !.pc = pc, !.result = r]]
    BY DEF GotoWith, TypeOK
  <1>2. worker[w] \in WorkerState
    BY DEF TypeOK
  <1>3. [worker[w] EXCEPT !.pc = pc, !.result = r] \in WorkerState
    BY <1>2 DEF WorkerState
  <1> QED
    BY <1>1, <1>2, <1>3 DEF TypeOK, WorkerState

LEMMA DoneType ==
  ASSUME TypeOK, NEW w \in Workers, Done(w)
  PROVE  /\ worker' \in [Workers -> WorkerState]
         /\ worker'[w] = Idle
         /\ \A v \in Workers \ {w} : worker'[v] = worker[v]
  BY IdleType DEF Done, TypeOK

LEMMA ReceiveType ==
  ASSUME TypeOK, NEW w \in Workers, NEW j \in Jobs, NEW r \in Retries,
         worker' = [worker EXCEPT ![w].pc = "received", ![w].job = j, ![w].retries = r]
  PROVE  /\ worker' \in [Workers -> WorkerState]
         /\ worker'[w].pc = "received" /\ worker'[w].job = j
         /\ worker'[w].retries = r /\ worker'[w].result = worker[w].result
         /\ \A v \in Workers \ {w} : worker'[v] = worker[v]
  <1>1. worker' = [worker EXCEPT ![w] = [worker[w] EXCEPT !.pc = "received", !.job = j, !.retries = r]]
    BY DEF TypeOK
  <1>2. worker[w] \in WorkerState
    BY DEF TypeOK
  <1>3. [worker[w] EXCEPT !.pc = "received", !.job = j, !.retries = r] \in WorkerState
    BY <1>2 DEF WorkerState
  <1> QED
    BY <1>1, <1>2, <1>3 DEF TypeOK, WorkerState

LEMMA SeenType ==
  ASSUME TypeOK, NEW w \in Workers, NEW seen \in BOOLEAN,
         worker' = [worker EXCEPT ![w].pc = "checked", ![w].cancelSeen = seen]
  PROVE  /\ worker' \in [Workers -> WorkerState]
         /\ worker'[w].pc = "checked" /\ worker'[w].job = worker[w].job
         /\ worker'[w].retries = worker[w].retries /\ worker'[w].result = worker[w].result
         /\ \A v \in Workers \ {w} : worker'[v] = worker[v]
  <1>1. worker' = [worker EXCEPT ![w] = [worker[w] EXCEPT !.pc = "checked", !.cancelSeen = seen]]
    BY DEF TypeOK
  <1>2. worker[w] \in WorkerState
    BY DEF TypeOK
  <1>3. [worker[w] EXCEPT !.pc = "checked", !.cancelSeen = seen] \in WorkerState
    BY <1>2 DEF WorkerState
  <1> QED
    BY <1>1, <1>2, <1>3 DEF TypeOK, WorkerState

\* One message more.
LEMMA PublishedType ==
  ASSUME TypeOK, NEW j \in Jobs, NEW r \in Retries, broker' = Published(broker, j, r)
  PROVE  /\ broker' \in [Jobs -> [Retries -> Nat]]
         /\ broker'[j][r] > 0
         /\ \A i \in Jobs, q \in Retries : broker'[i][q] >= broker[i][q]
         /\ \A i \in Jobs, q \in Retries : broker'[i][q] > 0 => broker[i][q] > 0 \/ (i = j /\ q = r)
  <1>1. broker' = [broker EXCEPT ![j] = [broker[j] EXCEPT ![r] = broker[j][r] + 1]]
    BY DEF Published, TypeOK
  <1>2. broker \in [Jobs -> [Retries -> Nat]] /\ broker[j] \in [Retries -> Nat] /\ broker[j][r] \in Nat
    BY DEF TypeOK
  <1> DEFINE q1 == [broker[j] EXCEPT ![r] = broker[j][r] + 1]
  <1>3. /\ q1 \in [Retries -> Nat] /\ q1[r] = broker[j][r] + 1
        /\ \A q \in Retries \ {r} : q1[q] = broker[j][q]
    BY <1>2
  <1> HIDE DEF q1
  <1>4. broker' = [broker EXCEPT ![j] = q1]
    BY <1>1 DEF q1
  <1>5. broker' \in [Jobs -> [Retries -> Nat]] /\ broker'[j] = q1 /\ \A i \in Jobs \ {j} : broker'[i] = broker[i]
    BY <1>2, <1>3, <1>4
  <1>6. ASSUME NEW i \in Jobs, NEW q \in Retries
        PROVE  broker'[i][q] = broker[i][q] \/ (i = j /\ q = r /\ broker'[i][q] = broker[i][q] + 1)
    BY <1>3, <1>5
  <1>7. \A i \in Jobs, q \in Retries : broker[i][q] \in Nat
    BY <1>2
  <1> QED
    BY <1>2, <1>3, <1>5, <1>6, <1>7

\* What the steps make of a row.
LEMMA RowTypes ==
  ASSUME NEW row \in TaskRow
  PROVE  /\ Claimable(row) => ClaimedRow(row) \in TaskRow
         /\ \A result : StoredRow(row, result) \in TaskRow
         /\ \A status \in {"retrying", "failed"} : [row EXCEPT !.status = status, !.timer = FALSE] \in TaskRow
         /\ [row EXCEPT !.cancel = TRUE] \in TaskRow
         /\ \A kind \in Kinds : [row EXCEPT !.kind = kind, !.status = "pending"] \in TaskRow
         /\ row.wakes < MaxWaits => [row EXCEPT !.timer = FALSE, !.wakes = row.wakes + 1] \in TaskRow
  <1> USE JobsAssumption
  <1>1. Claimable(row) => ClaimedRow(row) \in TaskRow
    <2>1. row.attempts \in 0 .. MaxAttempts
      BY DEF TaskRow
    <2>2. ASSUME Claimable(row)
          PROVE  (IF row.status = "waiting_external" THEN row.attempts ELSE row.attempts + 1) \in 0 .. MaxAttempts
      BY <2>1, <2>2 DEF Claimable
    <2> DEFINE n == IF row.status = "waiting_external" THEN row.attempts ELSE row.attempts + 1
    <2>3. ClaimedRow(row) = [row EXCEPT !.status = "running", !.attempts = n]
      BY DEF ClaimedRow
    <2>4. Claimable(row) => n \in 0 .. MaxAttempts
      BY <2>2
    <2> HIDE DEF n
    <2> QED
      BY <2>3, <2>4 DEF TaskRow
  <1>2. \A result : StoredRow(row, result) \in TaskRow
    <2> TAKE result
    <2>1. /\ [row EXCEPT !.status = "waiting_external", !.timer = TRUE] \in TaskRow
          /\ \A status \in {"succeeded", "failed", "cancelled"} : [row EXCEPT !.status = status, !.timer = FALSE] \in TaskRow
      BY DEF TaskRow
    <2> QED
      BY <2>1 DEF StoredRow
  <1>3. \A status \in {"retrying", "failed"} : [row EXCEPT !.status = status, !.timer = FALSE] \in TaskRow
    BY DEF TaskRow
  <1>4. [row EXCEPT !.cancel = TRUE] \in TaskRow
    BY DEF TaskRow
  <1>5. \A kind \in Kinds : [row EXCEPT !.kind = kind, !.status = "pending"] \in TaskRow
    BY DEF TaskRow
  <1>6. row.wakes < MaxWaits => [row EXCEPT !.timer = FALSE, !.wakes = row.wakes + 1] \in TaskRow
    <2>1. row.wakes < MaxWaits => row.wakes + 1 \in 0 .. MaxWaits
      BY DEF TaskRow
    <2> QED
      BY <2>1 DEF TaskRow
  <1> QED
    BY <1>1, <1>2, <1>3, <1>4, <1>5, <1>6

-----------------------------------------------------------------------------
(* The steps, by what they do to a row and to a worker. *)

Created(j) == task[j].status = "absent"
              /\ \E kind \in Kinds : task'[j] = [task[j] EXCEPT !.kind = kind, !.status = "pending"]
              /\ [job |-> j, wake |-> 0] \in outbox' /\ dispatcher' = dispatcher
Flagged(j) == task[j].status # "absent" /\ task'[j] = [task[j] EXCEPT !.cancel = TRUE]
Staged(j) == j \in Due /\ task'[j] = [task[j] EXCEPT !.timer = FALSE, !.wakes = task[j].wakes + 1]
             /\ [job |-> j, wake |-> task[j].wakes + 1] \in outbox' /\ dispatcher' = dispatcher
ClaimsRow(j) == Claimable(task[j]) /\ task'[j] = ClaimedRow(task[j])
Stores(w, j) == JobOf(w) = j /\ At(w, "storing") /\ ~Refused(w)
                /\ task'[j] = StoredRow(task[j], worker[w].result) /\ ~Owns(w)'
Fails(w, j) == JobOf(w) = j /\ At(w, "failing") /\ task'[j] = FailedRow(w) /\ ~Owns(w)'
               /\ (Retried(w) => j \in unheard' \/ (worker'[w].pc = "retrying" /\ worker'[w].job = j))
\* A claim whose answer is heard starts a run.
Runs(j) == j \in unheard' \/ \E w \in Workers : worker'[w].job = j /\ worker'[w].pc \in {"handling", "reconciling"}

\* What a step may do to the row of a job.
RowMove(j) ==
  \/ (task'[j] = task[j] \/ Flagged(j)) /\ resumes'[j] = resumes[j]
  \/ Created(j) /\ resumes'[j] = resumes[j]
  \/ Staged(j) /\ resumes'[j] = resumes[j]
  \/ ClaimsRow(j) /\ Runs(j) /\ resumes'[j] = IF task[j].status = "waiting_external" THEN resumes[j] + 1 ELSE resumes[j]
  \/ \E w \in Workers : (Stores(w, j) \/ Fails(w, j)) /\ resumes'[j] = resumes[j]

\* A step that writes at most the row of j.
OnlyRow(j) == \A i \in Jobs \ {j} : task'[i] = task[i] /\ resumes'[i] = resumes[i]

LEMMA RowMoves ==
  ASSUME TypeOK, Next
  PROVE  \A j \in Jobs : RowMove(j)
  <1> USE DEF At, JobOf
  <1>0. /\ task \in [Jobs -> TaskRow] /\ worker \in [Workers -> WorkerState] /\ resumes \in [Jobs -> Nat]
        /\ \A w \in Workers : worker[w] \in WorkerState /\ worker[w].job \in Jobs
    BY DEF TypeOK, WorkerState
  <1>1. CASE task' = task /\ resumes' = resumes
    BY <1>1 DEF RowMove
  <1>2. ASSUME NEW j \in Jobs, OnlyRow(j), RowMove(j)
        PROVE  \A i \in Jobs : RowMove(i)
    BY <1>2 DEF OnlyRow, RowMove
  <1>3. ASSUME NEW j \in Jobs, NEW r \in TaskRow, task' = [task EXCEPT ![j] = r], resumes' = resumes
        PROVE  task'[j] = r /\ resumes'[j] = resumes[j] /\ OnlyRow(j)
    BY <1>0, <1>3 DEF OnlyRow
  <1>4. ASSUME NEW j \in Jobs, NEW kind \in Kinds, CreateGeneration(j, kind)
        PROVE  \A i \in Jobs : RowMove(i)
    <2> DEFINE r == [task[j] EXCEPT !.kind = kind, !.status = "pending"]
    <2>1. r \in TaskRow
      BY <1>0, RowTypes
    <2>2. /\ task' = [task EXCEPT ![j] = r] /\ resumes' = resumes /\ task[j].status = "absent"
          /\ [job |-> j, wake |-> 0] \in outbox' /\ dispatcher' = dispatcher
      BY <1>4, <1>0 DEF CreateGeneration
    <2>3. task'[j] = r /\ resumes'[j] = resumes[j] /\ OnlyRow(j)
      BY <2>1, <2>2, <1>3
    <2> QED
      BY <2>2, <2>3, <1>2 DEF RowMove, Created
  <1>5. ASSUME NEW j \in Jobs, RequestCancel(j)
        PROVE  \A i \in Jobs : RowMove(i)
    <2> DEFINE r == [task[j] EXCEPT !.cancel = TRUE]
    <2>1. r \in TaskRow
      BY <1>0, RowTypes
    <2>2. task' = [task EXCEPT ![j] = r] /\ resumes' = resumes /\ task[j].status # "absent"
      BY <1>5, <1>0 DEF RequestCancel
    <2>3. task'[j] = r /\ resumes'[j] = resumes[j] /\ OnlyRow(j)
      BY <2>1, <2>2, <1>3
    <2> QED
      BY <2>2, <2>3, <1>2 DEF RowMove, Flagged
  <1>6. ASSUME NEW due \in SUBSET Jobs, StageDueBatch(due)
        PROVE  \A i \in Jobs : RowMove(i)
    <2> TAKE i \in Jobs
    <2>1. resumes' = resumes
      BY <1>6 DEF StageDueBatch
    <2>2. CASE i \notin due
      BY <2>1, <2>2, <1>6 DEF StageDueBatch, RowMove
    <2>3. CASE i \in due
      BY <2>1, <2>3, <1>6 DEF StageDueBatch, RowMove, Staged
    <2> QED
      BY <2>2, <2>3
  <1>7. ASSUME NEW w \in Workers, NEW j \in Jobs, j = worker[w].job, Claimable(task[j]),
               task' = [task EXCEPT ![j] = ClaimedRow(task[j])], resumes' = Resumed(j), Runs(j)
        PROVE  \A i \in Jobs : RowMove(i)
    <2>1. ClaimedRow(task[j]) \in TaskRow
      BY <1>0, <1>7, RowTypes
    <2>2. task'[j] = ClaimedRow(task[j]) /\ \A i \in Jobs \ {j} : task'[i] = task[i]
      BY <2>1, <1>0, <1>7
    <2>3. /\ \A i \in Jobs \ {j} : resumes'[i] = resumes[i]
          /\ resumes'[j] = IF task[j].status = "waiting_external" THEN resumes[j] + 1 ELSE resumes[j]
      BY <1>0, <1>7 DEF Resumed
    <2> QED
      BY <2>2, <2>3, <1>2, <1>7 DEF RowMove, ClaimsRow, OnlyRow
  <1>8. ASSUME NEW w \in Workers, NEW r \in TaskRow, task' = [task EXCEPT ![worker[w].job] = r], resumes' = resumes,
               ~Owns(w)', \/ At(w, "storing") /\ ~Refused(w) /\ r = StoredRow(task[worker[w].job], worker[w].result)
                          \/ /\ At(w, "failing") /\ r = FailedRow(w)
                             /\ Retried(w) => \/ worker[w].job \in unheard'
                                              \/ worker'[w].pc = "retrying" /\ worker'[w].job = worker[w].job
        PROVE  \A i \in Jobs : RowMove(i)
    <2>1. task'[worker[w].job] = r /\ resumes'[worker[w].job] = resumes[worker[w].job] /\ OnlyRow(worker[w].job)
      BY <1>0, <1>3, <1>8
    <2>2. RowMove(worker[w].job)
      BY <2>1, <1>8 DEF RowMove, Stores, Fails
    <2> QED
      BY <2>1, <2>2, <1>0, <1>2
  <1>9. \A w \in Workers, v \in {"retrying", "dead", "idle"} : worker'[w].pc = v => ~Owns(w)'
    BY DEF Owns, Holds, Claimed
  <1>10. \A w \in Workers : FailedRow(w) \in TaskRow /\ StoredRow(task[worker[w].job], worker[w].result) \in TaskRow
    BY <1>0, RowTypes DEF FailedRow
  <1>11. ASSUME NEW w \in Workers, Claim(w)
         PROVE  \A i \in Jobs : RowMove(i)
    <2>1. PICK pc \in {"handling", "reconciling"} : Goto(w, pc)
      BY <1>11 DEF Claim
    <2>2. Runs(worker[w].job)
      BY <2>1, GotoType DEF Runs, Claimed
    <2> QED
      BY <2>2, <1>7, <1>11, <1>0 DEF Claim
  <1>12. ASSUME NEW w \in Workers, Store(w)
         PROVE  \A i \in Jobs : RowMove(i)
    <2>1. CASE Refused(w)
      BY <2>1, <1>1, <1>12 DEF Store
    <2>2. CASE ~Refused(w)
      <3>1. worker'[w].pc \in {"dead", "idle"}
        <4>1. CASE worker[w].result = "refused"
          <5>1. Goto(w, "dead")
            BY <4>1, <2>2, <1>12 DEF Store
          <5> QED
            BY <5>1, GotoType
        <4>2. CASE worker[w].result # "refused"
          BY <4>2, <2>2, <1>12, DoneType, IdleType DEF Store
        <4> QED
          BY <4>1, <4>2
      <3> QED
        BY <3>1, <2>2, <1>8, <1>9, <1>10, <1>12, <1>0 DEF Store
    <2> QED
      BY <2>1, <2>2
  <1>13. ASSUME NEW w \in Workers, Fail(w)
         PROVE  \A i \in Jobs : RowMove(i)
    <2>1. \E pc \in {"retrying", "dead"} : Goto(w, pc)
      BY <1>13 DEF Fail
    <2>2. worker'[w].pc \in {"retrying", "dead"} /\ worker'[w].job = worker[w].job
      BY <2>1, GotoType
    <2>3. Retried(w) => worker'[w].pc = "retrying"
      BY <1>13, GotoType DEF Fail
    <2> QED
      BY <2>2, <2>3, <1>8, <1>9, <1>10, <1>13 DEF Fail
  <1>14. ASSUME NEW w \in Workers, NEW committed \in BOOLEAN, StoreFault(w, committed)
         PROVE  \A i \in Jobs : RowMove(i)
    <2>1. CASE ~committed
      BY <2>1, <1>1, <1>14 DEF StoreFault
    <2>2. CASE committed /\ At(w, "checked") /\ Claimable(task[worker[w].job])
      <3>1. task' = [task EXCEPT ![worker[w].job] = ClaimedRow(task[worker[w].job])] /\ resumes' = Resumed(worker[w].job)
        BY <2>2, <1>14 DEF StoreFault, Written
      <3>2. Runs(worker[w].job)
        BY <2>2, <1>14 DEF StoreFault, Runs
      <3> QED
        BY <2>2, <3>1, <3>2, <1>0, <1>7
    <2>3. CASE committed /\ At(w, "storing") /\ ~Refused(w)
      <3>1. /\ task' = [task EXCEPT ![worker[w].job] = StoredRow(task[worker[w].job], worker[w].result)] /\ resumes' = resumes
            /\ unheard' = unheard \cup {worker[w].job} /\ RaiseTo(w)
        BY <2>3, <1>14 DEF StoreFault, Written
      <3>2. ~Owns(w)'
        <4>1. CASE Guarded(w)
          <5>1. GotoWith(w, "failing", "permanent")
            BY <4>1, <3>1 DEF RaiseTo
          <5>2. worker'[w].pc = "failing" /\ worker'[w].result = "permanent" /\ worker'[w].job = worker[w].job
            BY <5>1, GotoWithType DEF Claimed
          <5> QED
            BY <5>2, <3>1 DEF Owns, Ghost
        <4>2. CASE ~Guarded(w)
          BY <4>2, <3>1, <1>9, GotoType DEF RaiseTo
        <4> QED
          BY <4>1, <4>2
      <3> QED
        BY <2>3, <3>1, <3>2, <1>8, <1>10
    <2>4. CASE committed /\ At(w, "failing")
      <3>1. /\ task' = [task EXCEPT ![worker[w].job] = FailedRow(w)] /\ resumes' = resumes /\ RaiseTo(w)
            /\ unheard' = unheard \cup {worker[w].job}
        BY <2>4, <1>14 DEF StoreFault, Written
      <3>2. worker'[w].pc = "dead"
        BY <2>4, <3>1, GotoType DEF RaiseTo, Guarded
      <3> QED
        BY <2>4, <3>1, <3>2, <1>8, <1>9, <1>10
    <2>5. CASE ~(At(w, "checked") /\ Claimable(task[worker[w].job])) /\ ~(At(w, "storing") /\ ~Refused(w)) /\ ~At(w, "failing")
      BY <2>1, <2>5, <1>14 DEF StoreFault, Written
    <2> QED
      BY <2>1, <2>2, <2>3, <2>4, <2>5
  <1>15. ASSUME NEW w \in Workers, Work(w)
         PROVE  \A i \in Jobs : RowMove(i)
    <2>1. CASE (\E j \in Jobs, r \in Retries : Receive(w, j, r)) \/ CheckBefore(w) \/ SkipUnclaimable(w) \/ CheckAfter(w)
                \/ (\E result \in Results : Handle(w, result))
                \/ (\E result \in Results \cup {"cancelled", "refused"} : Reconcile(w, result)) \/ Retry(w) \/ RecordDeadLetter(w)
      BY <2>1, <1>1 DEF Receive, CheckBefore, SkipUnclaimable, CheckAfter, Handle, Reconcile, Retry, RecordDeadLetter
    <2> QED
      BY <2>1, <1>11, <1>12, <1>13, <1>15 DEF Work
  <1>16. CASE (\E d \in Dispatchers : Dispatch(d) \/ PublishFails(d) \/ DispatcherCrash(d))
              \/ (\E w \in Workers : PublishFault(w) \/ WorkerCrash(w))
              \/ (\E j \in Jobs, marked \in BOOLEAN : ReplayDeadLetter(j, marked))
    BY <1>16, <1>1 DEF Dispatch, BeginBatch, PublishRow, CommitBatch, PublishFails, DispatcherCrash, PublishFault, WorkerCrash,
      ReplayDeadLetter
  <1> QED
    BY <1>4, <1>5, <1>6, <1>14, <1>15, <1>16 DEF Next

\* What a step may do to a worker: it goes on with the message it has.
Kept(w) == worker'[w].job = worker[w].job /\ worker'[w].retries = worker[w].retries

Receives(w) ==
  /\ At(w, "idle") /\ worker'[w].pc = "received" /\ task' = task
  /\ worker'[w].job \in Jobs /\ worker'[w].retries \in Retries /\ broker[worker'[w].job][worker'[w].retries] > 0
Checks(w) == Kept(w) /\ At(w, "received") /\ worker'[w].pc = "checked" /\ task' = task
Claims(w) == Kept(w) /\ At(w, "checked") /\ worker'[w].pc \in {"handling", "reconciling"} /\ ClaimsRow(JobOf(w))
             /\ unheard' = unheard
GoesOn(w) ==
  /\ Kept(w) /\ Holds(w) /\ ~At(w, "failing") /\ worker'[w].pc \in Claimed /\ worker'[w].pc # "handling"
  /\ worker'[w].pc \in {"handled", "storing"} /\ worker'[w].result = "wait" =>
       task' = task /\ (task[JobOf(w)].wakes < MaxWaits \/ (At(w, "handled") /\ worker[w].result = "wait"))
Retrying(w) == Kept(w) /\ At(w, "failing") /\ worker'[w].pc = "retrying" /\ Retried(w) /\ task'[JobOf(w)] = FailedRow(w)
GivesUp(w) == Kept(w) /\ ~At(w, "idle") /\ worker'[w].pc = "dead"

WorkerMove(w) ==
  \/ worker'[w] = Idle
  \/ Receives(w) \/ Checks(w) \/ Claims(w) \/ GoesOn(w) \/ Retrying(w) \/ GivesUp(w)

LEMMA WorkerMoves ==
  ASSUME TypeOK, Next
  PROVE  /\ worker' \in [Workers -> WorkerState]
         /\ \/ worker' = worker
            \/ \E w \in Workers : WorkerMove(w) /\ \A v \in Workers \ {w} : worker'[v] = worker[v]
  <1> USE DEF At, JobOf, Holds
  <1>0. /\ task \in [Jobs -> TaskRow] /\ worker \in [Workers -> WorkerState]
        /\ \A w \in Workers : worker[w] \in WorkerState /\ worker[w].job \in Jobs
    BY DEF TypeOK, WorkerState
  <1>1. ASSUME NEW w \in Workers, Done(w)
        PROVE  WorkerMove(w) /\ worker' \in [Workers -> WorkerState] /\ \A v \in Workers \ {w} : worker'[v] = worker[v]
    BY <1>1, DoneType DEF WorkerMove
  <1>2. ASSUME NEW w \in Workers, Goto(w, "dead"), worker[w].pc # "idle"
        PROVE  WorkerMove(w) /\ worker' \in [Workers -> WorkerState] /\ \A v \in Workers \ {w} : worker'[v] = worker[v]
    BY <1>2, GotoType DEF WorkerMove, GivesUp, Kept
  <1>3. ASSUME NEW w \in Workers, RaiseTo(w), worker[w].pc # "idle"
        PROVE  WorkerMove(w) /\ worker' \in [Workers -> WorkerState] /\ \A v \in Workers \ {w} : worker'[v] = worker[v]
    <2>1. CASE Guarded(w)
      BY <2>1, <1>3, GotoWithType DEF RaiseTo, Guarded, WorkerMove, GoesOn, Kept, Claimed
    <2> QED
      BY <2>1, <1>2, <1>3 DEF RaiseTo
  <1> DEFINE Moved(w) == WorkerMove(w) /\ worker' \in [Workers -> WorkerState] /\ \A v \in Workers \ {w} : worker'[v] = worker[v]
  <1>4. ASSUME NEW w \in Workers, NEW j \in Jobs, NEW r \in Retries, Receive(w, j, r)
        PROVE  Moved(w)
    <2>1. /\ worker[w].pc = "idle" /\ broker[j][r] > 0 /\ task' = task
          /\ worker' = [worker EXCEPT ![w].pc = "received", ![w].job = j, ![w].retries = r]
      BY <1>4 DEF Receive
    <2>2. /\ worker' \in [Workers -> WorkerState] /\ \A v \in Workers \ {w} : worker'[v] = worker[v]
          /\ worker'[w].pc = "received" /\ worker'[w].job = j /\ worker'[w].retries = r
      BY <2>1, ReceiveType
    <2> QED
      BY <2>1, <2>2 DEF WorkerMove, Receives
  <1>5. ASSUME NEW w \in Workers, CheckBefore(w)
        PROVE  Moved(w)
    <2>1. CASE IsVideo(w)
      <3>1. CancelRequested(JobOf(w)) \in BOOLEAN
        BY <1>0 DEF CancelRequested, TaskRow
      <3> QED
        BY <2>1, <3>1, <1>5, SeenType DEF CheckBefore, WorkerMove, Checks, Kept
    <2>2. CASE ~IsVideo(w) /\ CancelRequested(JobOf(w))
      BY <2>2, <1>1, <1>5 DEF CheckBefore
    <2>3. CASE ~IsVideo(w) /\ ~CancelRequested(JobOf(w))
      BY <2>3, <1>5, GotoType DEF CheckBefore, WorkerMove, Checks, Kept
    <2> QED
      BY <2>1, <2>2, <2>3
  <1>6. ASSUME NEW w \in Workers, Claim(w)
        PROVE  Moved(w)
    <2>1. PICK pc \in {"handling", "reconciling"} : Goto(w, pc)
      BY <1>6 DEF Claim
    <2>2. worker'[w].pc = pc /\ Kept(w) /\ worker' \in [Workers -> WorkerState] /\ \A v \in Workers \ {w} : worker'[v] = worker[v]
      BY <2>1, GotoType DEF Kept, Claimed
    <2>3. ClaimsRow(JobOf(w)) /\ unheard' = unheard
      <3>1. ClaimedRow(task[worker[w].job]) \in TaskRow
        BY <1>6, <1>0, RowTypes DEF Claim
      <3> QED
        BY <3>1, <1>6, <1>0 DEF Claim, ClaimsRow
    <2> QED
      BY <2>2, <2>3, <1>6 DEF Claim, WorkerMove, Claims
  <1>7. ASSUME NEW w \in Workers, NEW result \in Results \cup {"cancelled", "refused"}, Handle(w, result) \/ Reconcile(w, result)
        PROVE  Moved(w)
    <2>1. PICK pc \in {"failing", "handled", "storing"} : GotoWith(w, pc, result)
      BY <1>7 DEF Handle, Reconcile
    <2>2. /\ worker'[w].pc = pc /\ worker'[w].result = result /\ Kept(w)
          /\ worker' \in [Workers -> WorkerState] /\ \A v \in Workers \ {w} : worker'[v] = worker[v]
      BY <2>1, GotoWithType DEF Kept, Claimed, Results
    <2> QED
      BY <2>2, <1>7 DEF Handle, Reconcile, WorkerMove, GoesOn, Claimed
  <1>8. ASSUME NEW w \in Workers, CheckAfter(w)
        PROVE  Moved(w)
    <2>1. CASE Goto(w, "storing")
      BY <2>1, <1>8, GotoType DEF CheckAfter, WorkerMove, GoesOn, Kept, Claimed
    <2>2. CASE GotoWith(w, "reconciling", "none") \/ GotoWith(w, "storing", "cancelled")
      BY <2>2, <1>8, GotoWithType DEF CheckAfter, WorkerMove, GoesOn, Kept, Claimed
    <2> QED
      BY <2>1, <2>2, <1>8 DEF CheckAfter
  <1>9. ASSUME NEW w \in Workers, Store(w)
        PROVE  Moved(w)
    <2>1. CASE Refused(w)
      BY <2>1, <1>9, GotoWithType DEF Store, WorkerMove, GoesOn, Kept, Claimed
    <2> QED
      BY <2>1, <1>1, <1>2, <1>9 DEF Store
  <1>10. ASSUME NEW w \in Workers, Fail(w)
         PROVE  Moved(w)
    <2>1. CASE Retried(w)
      <3>1. /\ worker'[w].pc = "retrying" /\ Kept(w)
            /\ worker' \in [Workers -> WorkerState] /\ \A v \in Workers \ {w} : worker'[v] = worker[v]
        BY <2>1, <1>10, GotoType DEF Fail, Kept
      <3>2. FailedRow(w) \in TaskRow
        BY <1>0, RowTypes DEF FailedRow
      <3>3. task'[worker[w].job] = FailedRow(w)
        BY <3>2, <1>0, <1>10 DEF Fail
      <3> QED
        BY <2>1, <3>1, <3>3, <1>10 DEF Fail, WorkerMove, Retrying, Fails, Owns, Claimed
    <2>2. CASE ~Retried(w)
      BY <2>2, <1>2, <1>10 DEF Fail
    <2> QED
      BY <2>1, <2>2
  <1>11. ASSUME NEW w \in Workers, Retry(w) \/ PublishFault(w)
         PROVE  Moved(w)
    BY <1>1, <1>2, <1>11 DEF Retry, PublishFault
  <1>12. ASSUME NEW w \in Workers, SkipUnclaimable(w) \/ RecordDeadLetter(w) \/ WorkerCrash(w)
         PROVE  Moved(w)
    BY <1>1, <1>12 DEF SkipUnclaimable, RecordDeadLetter, WorkerCrash
  <1>13. ASSUME NEW w \in Workers, NEW committed \in BOOLEAN, StoreFault(w, committed)
         PROVE  Moved(w)
    BY <1>3, <1>13 DEF StoreFault
  <1>14. CASE worker' = worker
    BY <1>0, <1>14
  <1>15. CASE (\E d \in Dispatchers : Dispatch(d) \/ PublishFails(d) \/ DispatcherCrash(d))
              \/ (\E j \in Jobs, marked \in BOOLEAN : ReplayDeadLetter(j, marked))
              \/ (\E j \in Jobs, kind \in Kinds : CreateGeneration(j, kind))
              \/ (\E j \in Jobs : RequestCancel(j)) \/ (\E due \in SUBSET Jobs : StageDueBatch(due))
    BY <1>14, <1>15 DEF Dispatch, BeginBatch, PublishRow, CommitBatch, PublishFails, DispatcherCrash, ReplayDeadLetter,
      CreateGeneration, RequestCancel, StageDueBatch
  <1>16. ASSUME NEW w \in Workers, Work(w)
         PROVE  Moved(w)
    BY <1>4, <1>5, <1>6, <1>7, <1>8, <1>9, <1>10, <1>11, <1>12, <1>16 DEF Work
  <1> QED
    BY <1>11, <1>12, <1>13, <1>15, <1>16 DEF Next

-----------------------------------------------------------------------------
(* The owner of a job. *)

\* What was lost or not heard stays so.
LEMMA HistoryGrows ==
  ASSUME Next
  PROVE  unheard \subseteq unheard' /\ dropped \subseteq dropped'
  BY DEF Next, Work, Dispatch, CreateGeneration, RequestCancel, StageDueBatch, BeginBatch, PublishRow, CommitBatch,
     PublishFails, DispatcherCrash, Receive, CheckBefore, Claim, SkipUnclaimable, Handle, CheckAfter, Reconcile, Store,
     Fail, Retry, RecordDeadLetter, StoreFault, PublishFault, WorkerCrash, ReplayDeadLetter

\* A worker owns a job because it did before, or because it has claimed it.
LEMMA OwnsBefore ==
  ASSUME TypeOK, Next, NEW w \in Workers, Owns(w)'
  PROVE  JobOf(w)' = JobOf(w) /\ (Owns(w) \/ Claims(w))
  <1> USE DEF At, JobOf
  <1>1. CASE worker'[w] = worker[w]
    BY <1>1, HistoryGrows DEF Owns, Holds, Ghost
  <1>2. CASE worker'[w] = Idle
    BY <1>2, IdleType DEF Owns, Holds, Claimed
  <1>3. CASE Receives(w) \/ Checks(w) \/ Retrying(w) \/ GivesUp(w)
    BY <1>3 DEF Receives, Checks, Retrying, GivesUp, Owns, Holds, Claimed
  <1>4. CASE Claims(w)
    BY <1>4 DEF Claims, Kept
  <1>5. CASE GoesOn(w)
    BY <1>5 DEF GoesOn, Kept, Owns, Ghost
  <1> QED
    BY <1>1, <1>2, <1>3, <1>4, <1>5, WorkerMoves DEF WorkerMove

\* Only its owner writes the end of a run, or a ghost that fails the row.
LEMMA WritersOwn ==
  ASSUME Inv, Next, NEW j \in Jobs, NEW w \in Workers, Stores(w, j) \/ Fails(w, j)
  PROVE  /\ JobOf(w) = j /\ Holds(w) /\ task[j].attempts # 0
         /\ \/ Owns(w) /\ ~Owns(w)' /\ (task[j].status = "running" \/ (task[j].status = "failed" /\ j \in unheard))
            \/ j \in unheard /\ Fails(w, j) /\ task'[j] = [task[j] EXCEPT !.status = "failed", !.timer = FALSE]
  <1>1. CASE Owns(w)
    BY <1>1 DEF Inv, OwnerInv, Stores, Fails, Owns
  <1>2. CASE ~Owns(w)
    <2>1. Ghost(w)
      BY <1>2 DEF Owns, Holds, Stores, Fails, At, Claimed
    <2>2. Fails(w, j)
      BY <2>1 DEF Ghost, Stores, At
    <2>3. task'[j] = [task[j] EXCEPT !.status = "failed", !.timer = FALSE]
      BY <2>1, <2>2 DEF Ghost, Fails, FailedRow, Retried
    <2> QED
      BY <2>1, <2>2, <2>3 DEF Inv, OwnerInv, Fails, Ghost, Holds, At, Claimed
  <1> QED
    BY <1>1, <1>2

\* What is not known to change of a row does not.
RowKeeps(j) ==
  /\ task[j].status # "absent" => task'[j].status # "absent" /\ task'[j].kind = task[j].kind
  /\ task[j].status = "absent" => task'[j].attempts = task[j].attempts
  /\ task'[j].attempts >= task[j].attempts /\ task'[j].wakes >= task[j].wakes
  /\ task[j].cancel => task'[j].cancel
  /\ task'[j].wakes # task[j].wakes => Staged(j)

LEMMA RowSteps ==
  ASSUME Inv, Next, NEW j \in Jobs
  PROVE  task'[j] \in TaskRow /\ resumes'[j] \in Nat /\ RowOK(j)' /\ RowKeeps(j)
  <1> USE JobsAssumption
  <1> DEFINE row == task[j]
             Same(new) == /\ new.kind = row.kind /\ new.attempts = row.attempts
                          /\ new.wakes = row.wakes /\ new.cancel = row.cancel
             Goal == task'[j] \in TaskRow /\ resumes'[j] \in Nat /\ RowOK(j)' /\ RowKeeps(j)
  <1>1. row \in TaskRow /\ resumes[j] \in Nat /\ RowOK(j)
    BY DEF Inv, TypeOK, RowInv
  <1>2. row.attempts \in 0 .. MaxAttempts /\ row.wakes \in 0 .. MaxWaits
    BY <1>1 DEF TaskRow
  <1>3. CASE (task'[j] = row \/ Flagged(j)) /\ resumes'[j] = resumes[j]
    <2>1. task'[j] \in TaskRow
      BY <1>1, <1>3, RowTypes DEF Flagged
    <2>2. /\ task'[j].kind = row.kind /\ task'[j].status = row.status /\ task'[j].attempts = row.attempts
          /\ task'[j].wakes = row.wakes /\ task'[j].timer = row.timer /\ (row.cancel => task'[j].cancel)
      BY <1>1, <1>3 DEF Flagged, TaskRow
    <2>3. row.status = "absent" => task'[j] = row
      BY <1>3 DEF Flagged
    <2> QED
      BY <2>1, <2>2, <2>3, <1>1, <1>2, <1>3 DEF RowOK, RowKeeps
  <1>4. CASE Created(j) /\ resumes'[j] = resumes[j]
    <2>1. PICK kind \in Kinds : task'[j] = [row EXCEPT !.kind = kind, !.status = "pending"]
      BY <1>4 DEF Created
    <2>2. task'[j] \in TaskRow
      <3>1. [row EXCEPT !.kind = kind, !.status = "pending"] \in TaskRow
        BY <1>1, RowTypes
      <3> QED
        BY <3>1, <2>1
    <2>3. /\ row.status = "absent" /\ task'[j].status = "pending" /\ task'[j].attempts = 0 /\ ~task'[j].timer
          /\ row.attempts = 0 /\ row.cancel = FALSE /\ task'[j].wakes = row.wakes
      BY <2>1, <1>1, <1>4 DEF Created, RowOK, Absent
    <2> QED
      BY <2>2, <2>3, <1>1, <1>2, <1>4 DEF RowOK, RowKeeps
  <1>5. CASE Staged(j) /\ resumes'[j] = resumes[j]
    <2>1. row.status = "waiting_external" /\ row.timer /\ row.wakes < MaxWaits
      BY <1>5, <1>1 DEF Staged, Due, RowOK
    <2>2. task'[j] = [row EXCEPT !.timer = FALSE, !.wakes = row.wakes + 1] /\ task'[j] \in TaskRow
      BY <2>1, <1>1, <1>5, RowTypes DEF Staged
    <2>3. /\ task'[j].kind = row.kind /\ task'[j].status = row.status /\ task'[j].attempts = row.attempts
          /\ task'[j].wakes = row.wakes + 1 /\ ~task'[j].timer /\ task'[j].cancel = row.cancel
      BY <2>2, <1>1 DEF TaskRow
    <2> QED
      BY <2>1, <2>2, <2>3, <1>1, <1>2, <1>5 DEF RowOK, RowKeeps
  <1>6. CASE ClaimsRow(j) /\ resumes'[j] = IF task[j].status = "waiting_external" THEN resumes[j] + 1 ELSE resumes[j]
    <2>1. Claimable(row) /\ task'[j] = ClaimedRow(row) /\ task'[j] \in TaskRow
      BY <1>6, <1>1, RowTypes DEF ClaimsRow
    <2>2. /\ task'[j].kind = row.kind /\ task'[j].status = "running" /\ task'[j].wakes = row.wakes
          /\ task'[j].cancel = row.cancel
          /\ task'[j].attempts = IF row.status = "waiting_external" THEN row.attempts ELSE row.attempts + 1
      BY <2>1, <1>1 DEF ClaimedRow, TaskRow
    <2>3. row.status # "absent" /\ task'[j].attempts # 0 /\ (row.status = "waiting_external" => ~row.timer)
      BY <2>1, <2>2, <1>1, <1>2 DEF Claimable, RowOK
    <2>4. resumes'[j] \in Nat /\ resumes'[j] <= row.wakes
      BY <2>3, <1>1, <1>2, <1>6 DEF RowOK
    <2> QED
      BY <2>1, <2>2, <2>3, <2>4, <1>1, <1>2 DEF RowOK, RowKeeps
  <1>7. ASSUME NEW w \in Workers, Stores(w, j), resumes'[j] = resumes[j]
        PROVE  Goal
    <2>1. task'[j] = StoredRow(row, worker[w].result) /\ task'[j] \in TaskRow
      BY <1>1, <1>7, RowTypes DEF Stores
    <2>2. JobOf(w) = j /\ row.attempts # 0 /\ (row.status = "running" \/ row.status = "failed")
      BY <1>7, WritersOwn DEF Stores, Fails, At
    <2>3. CASE worker[w].result = "wait"
      <3>1. row.wakes < MaxWaits
        BY <2>2, <2>3, <1>7 DEF Inv, OwnerInv, Stores, At
      <3>2. task'[j] = [row EXCEPT !.status = "waiting_external", !.timer = TRUE]
        BY <2>1, <2>3 DEF StoredRow
      <3>3. Same(task'[j]) /\ task'[j].status = "waiting_external" /\ task'[j].timer
        BY <3>2, <1>1 DEF TaskRow
      <3> QED
        BY <2>1, <2>2, <3>1, <3>3, <1>1, <1>2, <1>7 DEF RowOK, RowKeeps
    <2>4. CASE worker[w].result # "wait"
      <3>1. task'[j] = row \/ \E status \in Terminal : task'[j] = [row EXCEPT !.status = status, !.timer = FALSE]
        BY <2>1, <2>4 DEF StoredRow, Terminal
      <3>2. Same(task'[j]) /\ (task'[j] = row \/ task'[j].status \in Terminal)
        BY <3>1, <1>1 DEF TaskRow
      <3> QED
        BY <2>1, <2>2, <3>2, <1>1, <1>2, <1>7 DEF RowOK, RowKeeps, Terminal
    <2> QED
      BY <2>3, <2>4
  <1>8. ASSUME NEW w \in Workers, Fails(w, j), resumes'[j] = resumes[j]
        PROVE  Goal
    <2>1. JobOf(w) = j /\ row.attempts # 0 /\ row.status # "absent"
      <3>1. JobOf(w) = j /\ row.attempts # 0
        BY <1>8, WritersOwn
      <3> QED
        BY <3>1, <1>1 DEF RowOK, Absent
    <2>2. \E status \in {"retrying", "failed"} :
            task'[j] = [row EXCEPT !.status = status, !.timer = FALSE] /\ (status = "retrying" => row.attempts < MaxAttempts)
      BY <2>1, <1>8 DEF Fails, FailedRow, Retried
    <2>3. task'[j] \in TaskRow
      <3>1. \A status \in {"retrying", "failed"} : [row EXCEPT !.status = status, !.timer = FALSE] \in TaskRow
        BY <1>1, RowTypes
      <3> QED
        BY <3>1, <2>2
    <2>4. /\ Same(task'[j]) /\ task'[j].status \in {"retrying", "failed"} /\ ~task'[j].timer
          /\ task'[j].status = "retrying" => row.attempts < MaxAttempts
      BY <2>2, <1>1 DEF TaskRow
    <2> QED
      BY <2>1, <2>3, <2>4, <1>1, <1>2, <1>8 DEF RowOK, RowKeeps
  <1>9. TypeOK
    BY DEF Inv
  <1> QED
    BY <1>3, <1>4, <1>5, <1>6, <1>7, <1>8, <1>9, RowMoves DEF RowMove

LEMMA OwnerStep ==
  ASSUME Inv, Next
  PROVE  OwnerInv'
  <1> USE DEF At, JobOf
  <1>0. TypeOK /\ OwnerInv
    BY DEF Inv
  <1>1. \A w \in Workers : worker[w].job \in Jobs /\ worker'[w].job \in Jobs
    BY <1>0, WorkerMoves DEF TypeOK, WorkerState
  <1>2. ASSUME NEW w \in Workers, Claims(w)
        PROVE  /\ Claimable(task[worker[w].job])
               /\ task'[worker[w].job].status = "running" /\ task'[worker[w].job].attempts # 0
    <2>1. Claimable(task[worker[w].job]) /\ task'[worker[w].job] = ClaimedRow(task[worker[w].job])
      BY <1>2 DEF Claims, ClaimsRow
    <2>2. PICK j \in Jobs : j = worker[w].job
      BY <1>1
    <2>3. task[j] \in TaskRow /\ RowOK(j)'
      BY <1>0, RowSteps DEF TypeOK
    <2>4. task'[j].status = "running"
      BY <2>1, <2>2, <2>3 DEF ClaimedRow, TaskRow
    <2> QED
      BY <2>1, <2>2, <2>3, <2>4 DEF RowOK
  <1>3. ASSUME NEW w \in Workers, Owns(w)'
        PROVE  \/ task'[worker'[w].job].status = "running"
               \/ task'[worker'[w].job].status = "failed" /\ worker'[w].job \in unheard'
    <2>1. worker'[w].job = worker[w].job
      BY <1>0, <1>3, OwnsBefore
    <2>2. CASE Claims(w)
      BY <2>1, <2>2, <1>2
    <2>3. CASE Owns(w)
      <3> DEFINE j == worker[w].job
      <3>1. task[j].status = "running" \/ (task[j].status = "failed" /\ j \in unheard)
        BY <2>3, <1>0 DEF OwnerInv
      <3>2. task[j] \in TaskRow /\ j \in Jobs
        BY <1>0, <1>1 DEF TypeOK
      <3>3. CASE task'[j] = task[j] \/ Flagged(j)
        <4>1. task'[j].status = task[j].status
          BY <3>2, <3>3 DEF Flagged, TaskRow
        <4> QED
          BY <4>1, <3>1, <2>1, HistoryGrows
      <3>4. ~Created(j) /\ ~Staged(j) /\ ~ClaimsRow(j)
        BY <3>1 DEF Created, Staged, Due, ClaimsRow, Claimable
      <3>5. ASSUME NEW v \in Workers, Stores(v, j) \/ Fails(v, j)
            PROVE  j \in unheard' /\ task'[j].status = "failed"
        <4>1. ~(Owns(v) /\ ~Owns(v)')
          BY <2>3, <3>5, <1>0, <1>3, WritersOwn, <3>2 DEF OwnerInv
        <4>2. j \in unheard /\ task'[j] = [task[j] EXCEPT !.status = "failed", !.timer = FALSE]
          BY <4>1, <3>5, <3>2, WritersOwn
        <4> QED
          BY <4>2, <3>2, HistoryGrows DEF TaskRow
      <3> QED
        BY <3>2, <3>3, <3>4, <3>5, <2>1, <1>0, RowMoves DEF RowMove
    <2> QED
      BY <2>2, <2>3, <1>0, <1>3, OwnsBefore
  <1>4. ASSUME NEW v \in Workers, NEW w \in Workers, Claims(v), Owns(w)', worker[w].job = worker[v].job
        PROVE  v = w
    <2>1. SUFFICES ASSUME v # w PROVE FALSE
      OBVIOUS
    <2>2. worker'[v] # worker[v]
      BY <1>4 DEF Claims
    <2>3. worker'[w] = worker[w]
      BY <2>1, <2>2, <1>0, WorkerMoves
    <2>4. Owns(w)
      BY <2>3, <1>0, <1>4, OwnsBefore DEF Claims
    <2> QED
      BY <2>4, <1>0, <1>2, <1>4 DEF OwnerInv, Claimable
  <1>5. ASSUME NEW v \in Workers, NEW w \in Workers, Owns(v)', Owns(w)', worker'[w].job = worker'[v].job
        PROVE  v = w
    <2>1. worker'[v].job = worker[v].job /\ worker'[w].job = worker[w].job
      BY <1>0, <1>5, OwnsBefore
    <2>2. CASE Claims(v) \/ Claims(w)
      BY <2>1, <2>2, <1>4, <1>5
    <2>3. CASE Owns(v) /\ Owns(w)
      BY <2>1, <2>3, <1>0, <1>5 DEF OwnerInv
    <2> QED
      BY <2>2, <2>3, <1>0, <1>5, OwnsBefore
  <1>6. ASSUME NEW w \in Workers, worker'[w].pc \in {"handled", "storing"}, worker'[w].result = "wait"
        PROVE  task'[worker'[w].job].wakes < MaxWaits
    <2>1. CASE worker'[w] = worker[w]
      <3> DEFINE j == worker[w].job
      <3>1. Owns(w)
        BY <2>1, <1>6 DEF Owns, Holds, Claimed, Ghost
      <3>2. ~Staged(j)
        BY <3>1, <1>0 DEF OwnerInv, Staged, Due
      <3>3. task'[j].wakes = task[j].wakes
        BY <3>2, <1>1, RowSteps DEF RowKeeps
      <3> QED
        BY <2>1, <3>3, <1>0, <1>6 DEF OwnerInv
    <2>2. CASE worker'[w] # worker[w]
      <3>1. WorkerMove(w)
        BY <2>2, <1>0, WorkerMoves
      <3>2. GoesOn(w)
        BY <3>1, <1>6, IdleType DEF WorkerMove, Receives, Checks, Claims, Retrying, GivesUp
      <3> QED
        BY <3>2, <1>0, <1>6 DEF GoesOn, Kept, OwnerInv
    <2> QED
      BY <2>1, <2>2
  <1>7. ASSUME NEW w \in Workers, Holds(w)'
        PROVE  task'[worker'[w].job].attempts # 0
    <2>1. ASSUME Holds(w), worker'[w].job = worker[w].job
          PROVE  task'[worker'[w].job].attempts # 0
      <3> DEFINE j == worker[w].job
      <3>1. task[j].attempts # 0 /\ j \in Jobs /\ task[j].attempts \in Nat /\ task'[j].attempts \in Nat
        <4>1. j \in Jobs /\ task[j].attempts # 0
          BY <2>1, <1>0, <1>1 DEF OwnerInv
        <4>2. task[j] \in TaskRow /\ task'[j] \in TaskRow
          BY <4>1, <1>0, RowSteps DEF TypeOK
        <4> QED
          BY <4>1, <4>2, JobsAssumption DEF TaskRow
      <3>2. task'[j].attempts >= task[j].attempts
        BY <3>1, RowSteps DEF RowKeeps
      <3> QED
        BY <3>1, <3>2, <2>1
    <2>2. CASE worker'[w] = worker[w]
      BY <2>1, <2>2, <1>7 DEF Holds
    <2>3. CASE Claims(w)
      BY <2>3, <1>2 DEF Claims, Kept
    <2>4. CASE GoesOn(w)
      BY <2>1, <2>4 DEF GoesOn, Kept
    <2>5. CASE worker'[w] = Idle \/ Receives(w) \/ Checks(w) \/ Retrying(w) \/ GivesUp(w)
      BY <2>5, <1>7, IdleType DEF Receives, Checks, Retrying, GivesUp, Holds, Claimed
    <2> QED
      BY <2>2, <2>3, <2>4, <2>5, <1>0, WorkerMoves DEF WorkerMove
  <1>8. \A w \in Workers : Owns(w)' =>
          \/ task'[worker'[w].job].status = "running"
          \/ task'[worker'[w].job].status = "failed" /\ worker'[w].job \in unheard'
    BY <1>3
  <1>9. \A v, w \in Workers : Owns(v)' /\ Owns(w)' /\ worker'[v].job = worker'[w].job => v = w
    BY <1>5
  <1>10. \A w \in Workers : worker'[w].pc \in {"handled", "storing"} /\ worker'[w].result = "wait" =>
           task'[worker'[w].job].wakes < MaxWaits
    BY <1>6
  <1>11. \A w \in Workers : Holds(w)' => task'[worker'[w].job].attempts # 0
    BY <1>7
  <1> QED
    BY <1>8, <1>9, <1>10, <1>11 DEF OwnerInv

-----------------------------------------------------------------------------
(* Messages and dispatch rows. *)

\* Where a message comes from: a dispatch row, a dead letter, or a retry.
NewMessage(j, r) ==
  \/ r = 0 /\ (dead[j] > 0 \/ \E record \in Records : record.job = j)
  \/ task' = task /\ \E w \in Workers : At(w, "retrying") /\ JobOf(w) = j /\ r = worker[w].retries + 1

\* The broker after a step.
LEMMA Messages ==
  ASSUME TypeOK, Next
  PROVE  /\ broker' \in [Jobs -> [Retries -> Nat]]
         /\ \A j \in Jobs, r \in Retries : broker'[j][r] > 0 => broker[j][r] > 0 \/ NewMessage(j, r)
         /\ \A j \in Jobs, r \in Retries :
              broker[j][r] > 0 => broker'[j][r] > 0 \/ \E w \in Workers : worker'[w].job = j /\ worker'[w].pc = "received"
  <1> USE DEF At, JobOf
  <1> DEFINE Goal == /\ broker' \in [Jobs -> [Retries -> Nat]]
                     /\ \A j \in Jobs, r \in Retries : broker'[j][r] > 0 => broker[j][r] > 0 \/ NewMessage(j, r)
                     /\ \A j \in Jobs, r \in Retries :
                          broker[j][r] > 0 => broker'[j][r] > 0
                                              \/ \E w \in Workers : worker'[w].job = j /\ worker'[w].pc = "received"
  <1>0. /\ broker \in [Jobs -> [Retries -> Nat]] /\ 0 \in Retries
        /\ \A w \in Workers : worker[w].job \in Jobs /\ worker[w].retries \in Retries
        /\ \A record \in Records : record.job \in Jobs
    BY JobsAssumption DEF TypeOK, WorkerState, Retries, Records, Record
  <1>1. CASE broker' = broker
    BY <1>0, <1>1
  <1>2. ASSUME NEW j \in Jobs, NEW r \in Retries, broker' = Published(broker, j, r), NewMessage(j, r)
        PROVE  Goal
    <2>1. \A i \in Jobs, q \in Retries : broker[i][q] \in Nat /\ broker'[i][q] \in Nat
      BY <1>0, <1>2, PublishedType
    <2> QED
      BY <2>1, <1>2, PublishedType
  <1>3. ASSUME NEW d \in Dispatchers, NEW record \in dispatcher[d].batch
        PROVE  record.job \in Jobs /\ NewMessage(record.job, 0)
    BY <1>0, <1>3 DEF NewMessage, Records
  <1>4. ASSUME NEW d \in Dispatchers, Dispatch(d) \/ PublishFails(d) \/ DispatcherCrash(d)
        PROVE  Goal
    <2>1. CASE PublishRow(d)
      BY <2>1, <1>0, <1>2, <1>3 DEF PublishRow
    <2>2. CASE PublishFails(d)
      BY <2>2, <1>0, <1>1, <1>2, <1>3 DEF PublishFails
    <2> QED
      BY <2>1, <2>2, <1>1, <1>4 DEF Dispatch, BeginBatch, CommitBatch, DispatcherCrash
  <1>5. ASSUME NEW j \in Jobs, NEW marked \in BOOLEAN, ReplayDeadLetter(j, marked)
        PROVE  Goal
    BY <1>0, <1>2, <1>5 DEF ReplayDeadLetter, NewMessage
  <1>6. ASSUME NEW w \in Workers, Retry(w)
        PROVE  Goal
    <2>1. CASE worker[w].retries < MaxRetries
      <3>1. worker[w].retries + 1 \in Retries
        BY <2>1, <1>0, JobsAssumption DEF Retries
      <3> QED
        BY <2>1, <3>1, <1>0, <1>2, <1>6 DEF Retry, NewMessage
    <2> QED
      BY <2>1, <1>1, <1>6 DEF Retry
  <1>7. ASSUME NEW w \in Workers, NEW j \in Jobs, NEW r \in Retries, Receive(w, j, r)
        PROVE  Goal
    <2>1. /\ broker[j][r] > 0 /\ broker' = [broker EXCEPT ![j] = [broker[j] EXCEPT ![r] = broker[j][r] - 1]]
          /\ worker' = [worker EXCEPT ![w].pc = "received", ![w].job = j, ![w].retries = r]
      BY <1>7, <1>0 DEF Receive
    <2>2. worker'[w].pc = "received" /\ worker'[w].job = j
      BY <2>1, ReceiveType
    <2>3. broker[j] \in [Retries -> Nat] /\ broker[j][r] \in Nat
      BY <1>0
    <2> DEFINE q1 == [broker[j] EXCEPT ![r] = broker[j][r] - 1]
    <2>4. q1 \in [Retries -> Nat] /\ \A q \in Retries : q1[q] <= broker[j][q] /\ (q # r => q1[q] = broker[j][q])
      BY <2>1, <2>3
    <2>5. broker' = [broker EXCEPT ![j] = q1]
      BY <2>1
    <2> HIDE DEF q1
    <2>6. broker' \in [Jobs -> [Retries -> Nat]] /\ broker'[j] = q1 /\ \A i \in Jobs \ {j} : broker'[i] = broker[i]
      BY <2>4, <2>5, <1>0
    <2>7. \A i \in Jobs, q \in Retries : broker[i][q] \in Nat /\ broker'[i][q] \in Nat
      BY <2>6, <1>0
    <2> QED
      BY <2>2, <2>4, <2>6, <2>7
  <1>8. ASSUME NEW w \in Workers, Work(w)
        PROVE  Goal
    <2>1. CASE CheckBefore(w) \/ Claim(w) \/ SkipUnclaimable(w) \/ (\E result \in Results : Handle(w, result)) \/ CheckAfter(w)
               \/ (\E result \in Results \cup {"cancelled", "refused"} : Reconcile(w, result))
               \/ Store(w) \/ Fail(w) \/ RecordDeadLetter(w)
      BY <2>1, <1>1 DEF CheckBefore, Claim, SkipUnclaimable, Handle, CheckAfter, Reconcile, Store, Fail, RecordDeadLetter
    <2> QED
      BY <2>1, <1>6, <1>7, <1>8 DEF Work
  <1>9. CASE (\E j \in Jobs, kind \in Kinds : CreateGeneration(j, kind)) \/ (\E j \in Jobs : RequestCancel(j))
             \/ (\E due \in SUBSET Jobs : StageDueBatch(due))
             \/ (\E w \in Workers, committed \in BOOLEAN : StoreFault(w, committed))
             \/ (\E w \in Workers : PublishFault(w) \/ WorkerCrash(w))
    BY <1>9, <1>1 DEF CreateGeneration, RequestCancel, StageDueBatch, StoreFault, PublishFault, WorkerCrash
  <1> QED
    BY <1>4, <1>5, <1>8, <1>9 DEF Next

\* A row to dispatch is an old one, or that of a new job or of a wake.
NewRecord(record) ==
  \E j \in Jobs : \/ record = [job |-> j, wake |-> 0] /\ Created(j)
                  \/ record = [job |-> j, wake |-> task[j].wakes + 1] /\ Staged(j)

LEMMA DispatchRows ==
  ASSUME Inv, Next
  PROVE  /\ outbox' \subseteq Record
         /\ dispatcher' \in [Dispatchers -> [batch : SUBSET Record, sent : SUBSET Record]]
         /\ \A record \in Records' : record \in Records \/ NewRecord(record)
  <1> USE JobsAssumption
  <1> DEFINE Slots == [batch : SUBSET Record, sent : SUBSET Record]
             Goal == /\ outbox' \subseteq Record /\ dispatcher' \in [Dispatchers -> Slots]
                     /\ \A record \in Records' : record \in Records \/ NewRecord(record)
  <1>0. /\ TypeOK /\ outbox \subseteq Record /\ dispatcher \in [Dispatchers -> Slots]
        /\ \A d \in Dispatchers : dispatcher[d].batch \subseteq Record /\ dispatcher[d].sent \subseteq Record
        /\ task \in [Jobs -> TaskRow] /\ RowInv
    BY DEF Inv, TypeOK
  <1>1. CASE outbox' = outbox /\ dispatcher' = dispatcher
    BY <1>0, <1>1 DEF Records
  <1>2. ASSUME NEW new \in SUBSET Record, outbox' = outbox \cup new, dispatcher' = dispatcher,
               \A record \in new : NewRecord(record)
        PROVE  Goal
    BY <1>0, <1>2 DEF Records
  <1>3. ASSUME NEW d \in Dispatchers, NEW slot \in Slots, dispatcher' = [dispatcher EXCEPT ![d] = slot],
               outbox' \subseteq outbox, slot.batch \subseteq Records, slot.sent \subseteq Records
        PROVE  Goal
    <2>1. /\ dispatcher' \in [Dispatchers -> Slots] /\ outbox' \subseteq Record
          /\ dispatcher'[d] = slot /\ \A e \in Dispatchers \ {d} : dispatcher'[e] = dispatcher[e]
      BY <1>0, <1>3
    <2>2. Records' \subseteq Records
      BY <2>1, <1>3 DEF Records
    <2> QED
      BY <2>1, <2>2
  <1>4. ASSUME NEW j \in Jobs, NEW kind \in Kinds, CreateGeneration(j, kind)
        PROVE  Goal
    <2>1. task' = [task EXCEPT ![j] = [task[j] EXCEPT !.kind = kind, !.status = "pending"]] /\ task[j].status = "absent"
      BY <1>4, <1>0 DEF CreateGeneration
    <2>2. task'[j] = [task[j] EXCEPT !.kind = kind, !.status = "pending"]
      BY <2>1, <1>0
    <2>3. /\ outbox' = outbox \cup {[job |-> j, wake |-> 0]} /\ dispatcher' = dispatcher
          /\ {[job |-> j, wake |-> 0]} \in SUBSET Record
      BY <1>4 DEF CreateGeneration, Record
    <2>4. Created(j)
      BY <2>1, <2>2, <2>3 DEF Created
    <2> QED
      BY <2>3, <2>4, <1>2 DEF NewRecord
  <1>5. ASSUME NEW due \in SUBSET Jobs, StageDueBatch(due)
        PROVE  Goal
    <2> DEFINE new == {[job |-> j, wake |-> task[j].wakes + 1] : j \in due}
    <2>1. /\ outbox' = outbox \cup new /\ dispatcher' = dispatcher /\ due \subseteq Due
          /\ \A j \in due : task'[j] = [task[j] EXCEPT !.timer = FALSE, !.wakes = task[j].wakes + 1]
      BY <1>5 DEF StageDueBatch
    <2>2. \A j \in due : Staged(j)
      BY <2>1 DEF Staged
    <2>3. ASSUME NEW j \in due
          PROVE  task[j].wakes + 1 \in 0 .. MaxWaits
      <3>1. task[j].wakes < MaxWaits /\ task[j] \in TaskRow
        BY <2>1, <1>0 DEF Due, RowInv, RowOK
      <3> QED
        BY <3>1 DEF TaskRow
    <2>4. new \in SUBSET Record
      BY <2>3 DEF Record
    <2> QED
      BY <2>1, <2>2, <2>4, <1>2 DEF NewRecord
  <1>6. Closed \in Slots /\ Closed.batch = {} /\ Closed.sent = {}
    BY DEF Closed
  <1>7. ASSUME NEW d \in Dispatchers, dispatcher' = [dispatcher EXCEPT ![d] = Closed], outbox' \subseteq outbox
        PROVE  Goal
    BY <1>3, <1>6, <1>7
  <1>8. ASSUME NEW d \in Dispatchers, Dispatch(d) \/ PublishFails(d) \/ DispatcherCrash(d)
        PROVE  Goal
    <2>1. CASE BeginBatch(d)
      <3>1. PICK rows \in SUBSET outbox : dispatcher' = [dispatcher EXCEPT ![d].batch = rows]
        BY <2>1 DEF BeginBatch
      <3> DEFINE slot == [dispatcher[d] EXCEPT !.batch = rows]
      <3>2. slot \in Slots /\ slot.batch = rows /\ slot.sent = dispatcher[d].sent
        BY <3>1, <1>0
      <3>3. dispatcher' = [dispatcher EXCEPT ![d] = slot]
        BY <3>1, <1>0
      <3>4. outbox' = outbox /\ rows \subseteq Records /\ dispatcher[d].sent \subseteq Records
        BY <2>1 DEF BeginBatch, Records
      <3> HIDE DEF slot, Slots, Goal
      <3>5. outbox' \subseteq outbox /\ slot.batch \subseteq Records /\ slot.sent \subseteq Records
        BY <3>2, <3>4
      <3> QED
        BY <3>2, <3>3, <3>5, <1>3
    <2>2. CASE PublishRow(d)
      <3>1. PICK row \in dispatcher[d].batch :
              dispatcher' = [dispatcher EXCEPT ![d] = [batch |-> dispatcher[d].batch \ {row},
                                                       sent |-> dispatcher[d].sent \cup {row}]]
        BY <2>2 DEF PublishRow
      <3> DEFINE slot == [batch |-> dispatcher[d].batch \ {row}, sent |-> dispatcher[d].sent \cup {row}]
      <3>2. slot \in Slots
        BY <3>1, <1>0
      <3>3. outbox' \subseteq outbox /\ slot.batch \subseteq Records /\ slot.sent \subseteq Records
        BY <2>2 DEF PublishRow, Records
      <3>4. dispatcher' = [dispatcher EXCEPT ![d] = slot]
        BY <3>1
      <3> HIDE DEF slot, Slots, Goal
      <3> QED
        BY <3>2, <3>3, <3>4, <1>3
    <2> QED
      BY <2>1, <2>2, <1>7, <1>8 DEF Dispatch, PublishFails, CommitBatch, DispatcherCrash
  <1>9. CASE (\E j \in Jobs : RequestCancel(j)) \/ (\E w \in Workers : Work(w))
             \/ (\E w \in Workers, committed \in BOOLEAN : StoreFault(w, committed))
             \/ (\E w \in Workers : PublishFault(w) \/ WorkerCrash(w))
             \/ (\E j \in Jobs, marked \in BOOLEAN : ReplayDeadLetter(j, marked))
    <2>1. outbox' = outbox /\ dispatcher' = dispatcher
      BY <1>9 DEF RequestCancel, Work, StoreFault, PublishFault, WorkerCrash, ReplayDeadLetter, Receive, CheckBefore, Claim,
        SkipUnclaimable, Handle, CheckAfter, Reconcile, Store, Fail, Retry, RecordDeadLetter
    <2> QED
      BY <2>1, <1>1
  <1> QED
    BY <1>4, <1>5, <1>8, <1>9 DEF Next

\* Dead letters are of jobs that a worker had.
LEMMA DeadLetters ==
  ASSUME TypeOK, Next
  PROVE  /\ dead' \in [Jobs -> Nat]
         /\ \A j \in Jobs : dead'[j] > 0 => dead[j] > 0 \/ \E w \in Workers : ~At(w, "idle") /\ JobOf(w) = j
  <1> USE DEF At, JobOf
  <1>0. dead \in [Jobs -> Nat] /\ (\A w \in Workers : worker[w].job \in Jobs) /\ \A j \in Jobs : dead[j] \in Nat
    BY DEF TypeOK, WorkerState
  <1>1. CASE dead' = dead
    BY <1>0, <1>1
  <1>2. ASSUME NEW w \in Workers, RecordDeadLetter(w)
        PROVE  /\ dead' \in [Jobs -> Nat]
               /\ \A j \in Jobs : dead'[j] > 0 => dead[j] > 0 \/ \E v \in Workers : ~At(v, "idle") /\ JobOf(v) = j
    BY <1>0, <1>2 DEF RecordDeadLetter
  <1>3. ASSUME NEW j \in Jobs, NEW marked \in BOOLEAN, ReplayDeadLetter(j, marked)
        PROVE  dead' \in [Jobs -> Nat] /\ \A i \in Jobs : dead'[i] > 0 => dead[i] > 0
    BY <1>0, <1>3 DEF ReplayDeadLetter
  <1>4. ASSUME NEW w \in Workers, Work(w), ~RecordDeadLetter(w)
        PROVE  dead' = dead
    BY <1>4 DEF Work, Receive, CheckBefore, Claim, SkipUnclaimable, Handle, CheckAfter, Reconcile, Store, Fail, Retry
  <1>5. CASE (\E j \in Jobs, kind \in Kinds : CreateGeneration(j, kind)) \/ (\E j \in Jobs : RequestCancel(j))
             \/ (\E due \in SUBSET Jobs : StageDueBatch(due))
             \/ (\E d \in Dispatchers : Dispatch(d) \/ PublishFails(d) \/ DispatcherCrash(d))
             \/ (\E w \in Workers, committed \in BOOLEAN : StoreFault(w, committed))
             \/ (\E w \in Workers : PublishFault(w) \/ WorkerCrash(w))
    BY <1>5, <1>1 DEF CreateGeneration, RequestCancel, StageDueBatch, Dispatch, BeginBatch, PublishRow, CommitBatch,
      PublishFails, DispatcherCrash, StoreFault, PublishFault, WorkerCrash
  <1> QED
    BY <1>1, <1>2, <1>3, <1>4, <1>5 DEF Next

LEMMA BoundsStep ==
  ASSUME TypeOK, Next
  PROVE  /\ bounds' \in [replays : 0 .. MaxReplays, crashes : 0 .. MaxCrashes, faults : 0 .. MaxFaults]
         /\ dropped' \subseteq Jobs /\ unheard' \subseteq Jobs
  <1> USE JobsAssumption
  <1> DEFINE Counters == [replays : 0 .. MaxReplays, crashes : 0 .. MaxCrashes, faults : 0 .. MaxFaults]
  <1>0. /\ bounds \in Counters /\ dropped \subseteq Jobs /\ unheard \subseteq Jobs
        /\ \A w \in Workers : JobOf(w) \in Jobs
    BY DEF TypeOK, WorkerState, JobOf
  <1>1. (Fault => bounds' \in Counters) /\ (Crash => bounds' \in Counters)
    BY <1>0 DEF Fault, Crash
  <1>2. ASSUME NEW j \in Jobs, NEW marked \in BOOLEAN, ReplayDeadLetter(j, marked)
        PROVE  bounds' \in Counters
    BY <1>0, <1>2 DEF ReplayDeadLetter
  <1>3. bounds' \in Counters
    <2>1. CASE bounds' = bounds
      BY <2>1, <1>0
    <2>2. CASE (\E d \in Dispatchers : PublishFails(d) \/ DispatcherCrash(d))
               \/ (\E w \in Workers, committed \in BOOLEAN : StoreFault(w, committed))
               \/ (\E w \in Workers : PublishFault(w) \/ WorkerCrash(w))
      BY <2>2, <1>1 DEF PublishFails, DispatcherCrash, StoreFault, PublishFault, WorkerCrash
    <2>3. CASE (\E j \in Jobs, kind \in Kinds : CreateGeneration(j, kind)) \/ (\E j \in Jobs : RequestCancel(j))
               \/ (\E due \in SUBSET Jobs : StageDueBatch(due)) \/ (\E d \in Dispatchers : Dispatch(d))
               \/ (\E w \in Workers : Work(w))
      BY <2>1, <2>3 DEF CreateGeneration, RequestCancel, StageDueBatch, Dispatch, BeginBatch, PublishRow, CommitBatch,
        Work, Receive, CheckBefore, Claim, SkipUnclaimable, Handle, CheckAfter, Reconcile, Store, Fail, Retry, RecordDeadLetter
    <2> QED
      BY <1>2, <2>2, <2>3 DEF Next
  <1>4. dropped' \subseteq Jobs /\ unheard' \subseteq Jobs
    BY <1>0 DEF Next, Work, Dispatch, CreateGeneration, RequestCancel, StageDueBatch, BeginBatch, PublishRow, CommitBatch,
      PublishFails, DispatcherCrash, Receive, CheckBefore, Claim, SkipUnclaimable, Handle, CheckAfter, Reconcile, Store,
      Fail, Retry, RecordDeadLetter, StoreFault, PublishFault, WorkerCrash, ReplayDeadLetter
  <1> QED
    BY <1>3, <1>4

\* The tables are functions of the jobs after a step, too.
LEMMA TableStep ==
  ASSUME TypeOK, Next
  PROVE  DOMAIN task' = Jobs /\ task' = [j \in Jobs |-> task'[j]] /\ resumes' = [j \in Jobs |-> resumes'[j]]
  <1>0. task \in [Jobs -> TaskRow] /\ resumes \in [Jobs -> Nat]
    BY DEF TypeOK
  <1>1. task' = task \/ (\E j \in Jobs : \E r : task' = [task EXCEPT ![j] = r]) \/ (\E due \in SUBSET Jobs : StageDueBatch(due))
    <2> DEFINE Goal == task' = task \/ (\E j \in Jobs : \E r : task' = [task EXCEPT ![j] = r])
                       \/ (\E due \in SUBSET Jobs : StageDueBatch(due))
    <2>1. ASSUME NEW j \in Jobs, NEW r, task' = [task EXCEPT ![j] = r]
          PROVE  Goal
      BY <2>1
    <2>7. \A w \in Workers : JobOf(w) \in Jobs
      BY DEF TypeOK, WorkerState, JobOf
    <2>8. task' = task => Goal
      OBVIOUS
    <2>9. (\E due \in SUBSET Jobs : StageDueBatch(due)) => Goal
      OBVIOUS
    <2> HIDE DEF Goal
    <2>2. ASSUME NEW j \in Jobs, NEW kind \in Kinds, CreateGeneration(j, kind)
          PROVE  Goal
      <3>1. task' = [task EXCEPT ![j] = [task[j] EXCEPT !.kind = kind, !.status = "pending"]]
        BY <2>2, <1>0 DEF CreateGeneration
      <3> QED
        BY <3>1, <2>1
    <2>3. ASSUME NEW j \in Jobs, RequestCancel(j)
          PROVE  Goal
      <3>1. task' = [task EXCEPT ![j] = [task[j] EXCEPT !.cancel = TRUE]]
        BY <2>3, <1>0 DEF RequestCancel
      <3> QED
        BY <3>1, <2>1
    <2>4. ASSUME NEW w \in Workers, Work(w)
          PROVE  Goal
      <3>1. CASE Claim(w)
        BY <3>1, <2>1, <2>7 DEF Claim
      <3>2. CASE Store(w)
        BY <3>2, <2>1, <2>7, <2>8 DEF Store
      <3>3. CASE Fail(w)
        BY <3>3, <2>1, <2>7 DEF Fail
      <3> QED
        BY <3>1, <3>2, <3>3, <2>4, <2>8 DEF Work, Receive, CheckBefore, SkipUnclaimable, Handle, CheckAfter, Reconcile, Retry, RecordDeadLetter
    <2>5. ASSUME NEW w \in Workers, NEW committed \in BOOLEAN, StoreFault(w, committed)
          PROVE  Goal
      <3>1. task' = task \/ task' = [task EXCEPT ![JobOf(w)] = Written(w)]
        BY <2>5 DEF StoreFault
      <3> QED
        BY <3>1, <2>1, <2>7, <2>8
    <2>6. ASSUME (\E d \in Dispatchers : Dispatch(d) \/ PublishFails(d) \/ DispatcherCrash(d))
                 \/ (\E w \in Workers : PublishFault(w) \/ WorkerCrash(w))
                 \/ (\E j \in Jobs, marked \in BOOLEAN : ReplayDeadLetter(j, marked))
          PROVE  Goal
      BY <2>6, <2>8 DEF Dispatch, BeginBatch, PublishRow, CommitBatch, PublishFails, DispatcherCrash, PublishFault,
        WorkerCrash, ReplayDeadLetter
    <2>10. Goal
      BY <2>2, <2>3, <2>4, <2>5, <2>6, <2>9 DEF Next
    <2> QED
      BY <2>10 DEF Goal
  <1>2. DOMAIN task' = Jobs /\ task' = [j \in Jobs |-> task'[j]]
    <2>1. ASSUME NEW due \in SUBSET Jobs, StageDueBatch(due)
          PROVE  DOMAIN task' = Jobs /\ task' = [j \in Jobs |-> task'[j]]
      BY <2>1 DEF StageDueBatch
    <2> QED
      BY <2>1, <1>0, <1>1
  <1>3. resumes' = [j \in Jobs |-> resumes'[j]]
    <2>1. ASSUME NEW w \in Workers, resumes' = Resumed(JobOf(w))
          PROVE  resumes' = [j \in Jobs |-> resumes'[j]]
      BY <2>1, <1>0 DEF Resumed
    <2>2. CASE resumes' = resumes
      BY <2>2, <1>0
    <2>3. ASSUME NEW w \in Workers, Claim(w)
          PROVE  resumes' = Resumed(JobOf(w))
      BY <2>3 DEF Claim
    <2>4. ASSUME NEW w \in Workers, NEW committed \in BOOLEAN, StoreFault(w, committed)
          PROVE  resumes' = resumes \/ resumes' = Resumed(JobOf(w))
      BY <2>4 DEF StoreFault
    <2>5. ASSUME NEW w \in Workers, Work(w), ~Claim(w)
          PROVE  resumes' = resumes
      BY <2>5 DEF Work, Receive, CheckBefore, SkipUnclaimable, Handle, CheckAfter, Reconcile, Store, Fail, Retry, RecordDeadLetter
    <2>6. CASE (\E j \in Jobs, kind \in Kinds : CreateGeneration(j, kind)) \/ (\E j \in Jobs : RequestCancel(j))
               \/ (\E due \in SUBSET Jobs : StageDueBatch(due))
               \/ (\E d \in Dispatchers : Dispatch(d) \/ PublishFails(d) \/ DispatcherCrash(d))
               \/ (\E w \in Workers : PublishFault(w) \/ WorkerCrash(w))
               \/ (\E j \in Jobs, marked \in BOOLEAN : ReplayDeadLetter(j, marked))
      BY <2>2, <2>6 DEF CreateGeneration, RequestCancel, StageDueBatch, Dispatch, BeginBatch, PublishRow, CommitBatch,
        PublishFails, DispatcherCrash, PublishFault, WorkerCrash, ReplayDeadLetter
    <2> QED
      BY <2>1, <2>2, <2>3, <2>4, <2>5, <2>6 DEF Next
  <1> QED
    BY <1>0, <1>2, <1>3

LEMMA TypeStep ==
  ASSUME Inv, Next
  PROVE  TypeOK'
  <1>1. TypeOK
    BY DEF Inv
  <1>2. /\ \A j \in Jobs : task'[j] \in TaskRow /\ resumes'[j] \in Nat
        /\ task' = [j \in Jobs |-> task'[j]] /\ resumes' = [j \in Jobs |-> resumes'[j]]
    BY <1>1, RowSteps, TableStep
  <1>3. task' \in [Jobs -> TaskRow]
    BY <1>2
  <1>4. resumes' \in [Jobs -> Nat]
    BY <1>2
  <1>5. worker' \in [Workers -> WorkerState]
    BY <1>1, WorkerMoves
  <1>6. broker' \in [Jobs -> [Retries -> Nat]]
    BY <1>1, Messages
  <1> QED
    BY <1>1, <1>3, <1>4, <1>5, <1>6, DispatchRows, DeadLetters, BoundsStep DEF TypeOK

LEMMA KnownStep ==
  ASSUME Inv, Next
  PROVE  KnownInv'
  <1> USE DEF At, JobOf
  <1>0. TypeOK /\ KnownInv
    BY DEF Inv
  <1>1. ASSUME NEW j \in Jobs, task[j].status # "absent"
        PROVE  task'[j].status # "absent" /\ task[j].wakes \in Nat /\ task'[j].wakes \in Nat /\ task'[j].wakes >= task[j].wakes
    <2>1. task[j] \in TaskRow /\ task'[j] \in TaskRow /\ RowKeeps(j)
      BY <1>0, RowSteps DEF TypeOK
    <2> QED
      BY <2>1, <1>1, JobsAssumption DEF RowKeeps, TaskRow
  <1>2. \A record \in Records : record.job \in Jobs /\ record.wake \in Nat
    BY <1>0, JobsAssumption DEF TypeOK, Records, Record
  <1>3. \A w \in Workers : worker[w].job \in Jobs /\ worker'[w].job \in Jobs
    BY <1>0, WorkerMoves DEF TypeOK, WorkerState
  <1>4. ASSUME NEW record \in Records'
        PROVE  task'[record.job].status # "absent" /\ record.wake <= task'[record.job].wakes
    <2>1. CASE record \in Records
      <3>1. task[record.job].status # "absent" /\ record.wake <= task[record.job].wakes
        BY <2>1, <1>0 DEF KnownInv
      <3> QED
        BY <2>1, <3>1, <1>1, <1>2
    <2>2. ASSUME NEW j \in Jobs, record = [job |-> j, wake |-> 0], Created(j)
          PROVE  task'[record.job].status # "absent" /\ record.wake <= task'[record.job].wakes
      <3>1. task'[j].status = "pending" /\ task'[j] \in TaskRow
        BY <2>2, <1>0, RowSteps DEF Created, TypeOK, TaskRow
      <3> QED
        BY <2>2, <3>1, JobsAssumption DEF TaskRow
    <2>3. ASSUME NEW j \in Jobs, record = [job |-> j, wake |-> task[j].wakes + 1], Staged(j)
          PROVE  task'[record.job].status # "absent" /\ record.wake <= task'[record.job].wakes
      <3>1. task'[j].status = "waiting_external" /\ task'[j].wakes = task[j].wakes + 1 /\ task[j].wakes \in Nat
        BY <2>3, <1>0, JobsAssumption DEF Staged, Due, TypeOK, TaskRow
      <3> QED
        BY <2>3, <3>1
    <2> QED
      BY <2>1, <2>2, <2>3, DispatchRows DEF NewRecord
  <1>5. ASSUME NEW j \in Jobs, NEW r \in Retries, broker'[j][r] > 0
        PROVE  task'[j].status # "absent"
    <2>1. broker[j][r] > 0 \/ NewMessage(j, r)
      BY <1>0, <1>5, Messages
    <2>2. task[j].status # "absent"
      BY <2>1, <1>0 DEF NewMessage, KnownInv
    <2> QED
      BY <2>2, <1>1
  <1>6. ASSUME NEW w \in Workers, worker'[w].pc # "idle"
        PROVE  task'[worker'[w].job].status # "absent"
    <2>1. CASE Receives(w)
      BY <2>1, <1>0, <1>1 DEF Receives, KnownInv
    <2>2. CASE worker[w].pc # "idle" /\ worker'[w].job = worker[w].job
      BY <2>2, <1>0, <1>1, <1>3 DEF KnownInv
    <2>3. CASE worker'[w] = worker[w]
      BY <2>2, <2>3, <1>6
    <2>4. CASE Checks(w) \/ Claims(w) \/ GoesOn(w) \/ Retrying(w) \/ GivesUp(w)
      BY <2>2, <2>4 DEF Checks, Claims, GoesOn, Retrying, GivesUp, Kept, Holds, Claimed
    <2> QED
      BY <2>1, <2>3, <2>4, <1>0, <1>6, IdleType, WorkerMoves DEF WorkerMove
  <1>7. ASSUME NEW j \in Jobs, dead'[j] > 0
        PROVE  task'[j].status # "absent"
    <2>1. task[j].status # "absent"
      BY <1>0, <1>7, DeadLetters DEF KnownInv
    <2> QED
      BY <2>1, <1>1
  <1> QED
    BY <1>4, <1>5, <1>6, <1>7 DEF KnownInv

-----------------------------------------------------------------------------
(* Retries and attempts. *)

LEMMA CountedStays ==
  ASSUME Inv, Next, NEW j \in Jobs, NEW r \in Nat, Counted(j, r)
  PROVE  Counted(j, r)'
  <1>1. TypeOK /\ task[j] \in TaskRow /\ task'[j] \in TaskRow /\ RowKeeps(j)
    BY RowSteps DEF Inv, TypeOK
  <1>2. task[j].attempts \in Nat /\ task'[j].attempts \in Nat /\ task'[j].attempts >= task[j].attempts
    BY <1>1, JobsAssumption DEF TaskRow, RowKeeps
  <1>3. CASE j \in unheard
    BY <1>3, HistoryGrows DEF Counted
  <1>4. CASE r < task[j].attempts
    BY <1>2, <1>4 DEF Counted
  <1>5. CASE r = task[j].attempts /\ task[j].status \in {"pending", "retrying"} /\ j \notin unheard
    <2>1. CASE task'[j] = task[j] \/ Flagged(j)
      <3>1. task'[j].status = task[j].status /\ task'[j].attempts = task[j].attempts
        BY <2>1, <1>1 DEF Flagged, TaskRow
      <3> QED
        BY <3>1, <1>5 DEF Counted
    <2>2. CASE ClaimsRow(j)
      <3>1. task'[j].attempts = task[j].attempts + 1
        BY <2>2, <1>1, <1>5 DEF ClaimsRow, ClaimedRow, TaskRow
      <3> QED
        BY <3>1, <1>2, <1>5 DEF Counted
    <2>3. ~Created(j) /\ ~Staged(j)
      BY <1>5 DEF Created, Staged, Due
    <2>4. ASSUME NEW w \in Workers
          PROVE  ~Stores(w, j) /\ ~Fails(w, j)
      BY <1>5, WritersOwn
    <2> QED
      BY <2>1, <2>2, <2>3, <2>4, <1>1, RowMoves DEF RowMove
  <1> QED
    BY <1>3, <1>4, <1>5 DEF Counted

LEMMA CountStep ==
  ASSUME Inv, Next
  PROVE  CountInv'
  <1> USE DEF At, JobOf
  <1>0. TypeOK /\ KnownInv /\ CountInv
    BY DEF Inv
  <1>1. /\ \A w \in Workers : worker[w].job \in Jobs /\ worker[w].retries \in Retries
        /\ \A w \in Workers : worker'[w].job \in Jobs /\ worker'[w].retries \in Retries
        /\ Retries \subseteq Nat /\ MaxRetries \in Nat /\ MaxAttempts \in Nat
    <2>1. worker \in [Workers -> WorkerState] /\ worker' \in [Workers -> WorkerState]
      BY <1>0, WorkerMoves DEF TypeOK
    <2>2. Retries \subseteq Nat /\ MaxRetries \in Nat /\ MaxAttempts \in Nat
      BY JobsAssumption DEF Retries
    <2> QED
      BY <2>1, <2>2 DEF WorkerState
  <1>2. ASSUME NEW j \in Jobs
        PROVE  /\ task[j] \in TaskRow /\ task'[j] \in TaskRow /\ RowOK(j)'
               /\ task[j].attempts \in Nat /\ task'[j].attempts \in Nat /\ task'[j].attempts >= task[j].attempts
    <2>1. task[j] \in TaskRow /\ task'[j] \in TaskRow /\ RowOK(j)' /\ RowKeeps(j)
      BY <1>0, RowSteps DEF TypeOK
    <2> QED
      BY <2>1, <1>1 DEF TaskRow, RowKeeps
  <1>3. ASSUME NEW j \in Jobs, NEW r \in Retries, broker'[j][r] > 0
        PROVE  Counted(j, r)'
    <2>1. CASE broker[j][r] > 0
      BY <2>1, <1>0, <1>1, CountedStays DEF CountInv
    <2>2. CASE r = 0
      <3>1. task'[j].status # "absent"
        BY <1>3, KnownStep DEF KnownInv
      <3> QED
        BY <2>2, <3>1, <1>2 DEF Counted, RowOK
    <2>3. ASSUME NEW w \in Workers, worker[w].pc = "retrying", worker[w].job = j, r = worker[w].retries + 1
          PROVE  Counted(j, r)'
      <3>1. Counted(j, r)
        BY <2>3, <1>0 DEF CountInv, CountOK, Counted
      <3> QED
        BY <3>1, <1>1, CountedStays
    <2> QED
      BY <2>1, <2>2, <2>3, <1>0, <1>3, Messages DEF NewMessage
  <1>4. ASSUME NEW w \in Workers, worker'[w].pc \in {"received", "checked"}
        PROVE  Counted(JobOf(w), worker[w].retries)'
    <2>1. ASSUME Counted(worker'[w].job, worker'[w].retries)
          PROVE  Counted(JobOf(w), worker[w].retries)'
      <3>1. PICK j \in Jobs, r \in Nat : j = worker'[w].job /\ r = worker'[w].retries
        BY <1>1
      <3>2. Counted(j, r)'
        BY <2>1, <3>1, CountedStays
      <3> QED
        BY <3>1, <3>2 DEF Counted
    <2>2. CASE Receives(w)
      BY <2>1, <2>2, <1>0 DEF Receives, CountInv
    <2>3. CASE worker'[w] = worker[w] \/ Checks(w)
      BY <2>1, <2>3, <1>0, <1>4 DEF Checks, Kept, CountInv, CountOK
    <2> QED
      BY <2>2, <2>3, <1>0, <1>4, IdleType, WorkerMoves DEF WorkerMove, Claims, GoesOn, Retrying, GivesUp, Claimed
  <1>5. ASSUME NEW w \in Workers, Holds(w)', worker'[w].job \notin unheard'
        PROVE  worker'[w].retries < task'[worker'[w].job].attempts
    <2>1. ASSUME Holds(w), worker'[w].job = worker[w].job, worker'[w].retries = worker[w].retries
          PROVE  worker'[w].retries < task'[worker'[w].job].attempts
      <3>1. worker[w].retries < task[worker[w].job].attempts
        BY <2>1, <1>0, <1>5, HistoryGrows DEF CountInv, CountOK
      <3> QED
        BY <2>1, <3>1, <1>1, <1>2
    <2>2. CASE Claims(w)
      <3>1. PICK j \in Jobs, r \in Nat : /\ j = worker[w].job /\ r = worker[w].retries
                                         /\ j = worker'[w].job /\ r = worker'[w].retries
        BY <2>2, <1>1 DEF Claims, Kept
      <3>2. r < task[j].attempts \/ (r = task[j].attempts /\ task[j].status \in {"pending", "retrying"})
        BY <2>2, <3>1, <1>0, <1>5, HistoryGrows DEF Claims, CountInv, CountOK, Counted
      <3>3. task[j].status \in {"pending", "retrying"} => task'[j].attempts = task[j].attempts + 1
        <4>1. task'[j] = ClaimedRow(task[j])
          BY <2>2, <3>1 DEF Claims, ClaimsRow
        <4> QED
          BY <4>1, <1>2 DEF ClaimedRow, TaskRow
      <3> QED
        BY <3>1, <3>2, <3>3, <1>2
    <2>3. CASE worker'[w] = worker[w] \/ GoesOn(w)
      BY <2>1, <2>3, <1>5 DEF GoesOn, Kept, Holds
    <2> QED
      BY <2>2, <2>3, <1>0, <1>5, IdleType, WorkerMoves DEF WorkerMove, Receives, Checks, Retrying, GivesUp, Holds, Claimed
  <1>6. ASSUME NEW w \in Workers, worker'[w].pc = "retrying", worker'[w].job \notin unheard'
        PROVE  worker'[w].retries < MaxRetries /\ Counted(JobOf(w), worker[w].retries + 1)'
    <2>1. PICK j \in Jobs, r \in Nat : j = worker'[w].job /\ r = worker'[w].retries
      BY <1>1
    <2>2. CASE worker'[w] = worker[w]
      <3>1. r < MaxRetries /\ Counted(j, r + 1)
        BY <2>1, <2>2, <1>0, <1>6, HistoryGrows DEF CountInv, CountOK
      <3>2. Counted(j, r + 1)'
        BY <3>1, <2>1, CountedStays
      <3> QED
        BY <3>1, <3>2, <2>1 DEF Counted
    <2>3. CASE Retrying(w)
      <3>1. /\ j = worker[w].job /\ r = worker[w].retries /\ Holds(w) /\ j \notin unheard
            /\ task[j].attempts < MaxAttempts /\ task'[j] = [task[j] EXCEPT !.status = "retrying", !.timer = FALSE]
        BY <2>1, <2>3, <1>6, HistoryGrows DEF Retrying, Kept, Holds, Claimed, Retried, FailedRow
      <3>2. r < task[j].attempts
        BY <3>1, <1>0 DEF CountInv, CountOK
      <3>3. task'[j].attempts = task[j].attempts /\ task'[j].status = "retrying"
        BY <3>1, <1>2 DEF TaskRow
      <3>4. r < MaxRetries
        BY <3>1, <3>2, <1>1, <1>2, RetriesCoverAttempts
      <3> QED
        BY <3>2, <3>3, <3>4, <2>1, <1>2 DEF Counted
    <2> QED
      BY <2>2, <2>3, <1>0, <1>6, IdleType, WorkerMoves DEF WorkerMove, Receives, Checks, Claims, GoesOn, GivesUp, Claimed
  <1>7. \A w \in Workers : CountOK(w)'
    BY <1>4, <1>5, <1>6 DEF CountOK
  <1> QED
    BY <1>3, <1>7 DEF CountInv

-----------------------------------------------------------------------------
(* What carries a job. *)

\* A worker moves by its own steps.
LEMMA OwnSteps ==
  ASSUME TypeOK, Next, NEW w \in Workers, worker'[w] # worker[w]
  PROVE  Work(w) \/ (\E committed \in BOOLEAN : StoreFault(w, committed)) \/ PublishFault(w) \/ WorkerCrash(w)
  <1>0. worker \in [Workers -> WorkerState]
    BY DEF TypeOK
  <1>1. ASSUME NEW v \in Workers, v # w
        PROVE  /\ \A pc : ~Goto(v, pc)
               /\ \A pc, result : ~GotoWith(v, pc, result)
               /\ ~Done(v) /\ ~RaiseTo(v)
               /\ \A j, r : worker' # [worker EXCEPT ![v].pc = "received", ![v].job = j, ![v].retries = r]
               /\ \A seen : worker' # [worker EXCEPT ![v].pc = "checked", ![v].cancelSeen = seen]
    BY <1>0, <1>1 DEF Goto, GotoWith, Done, RaiseTo
  <1>2. worker' # worker
    OBVIOUS
  <1>3. ASSUME NEW v \in Workers, Work(v)
        PROVE  v = w
    BY <1>1, <1>2, <1>3 DEF Work, Receive, CheckBefore, Claim, SkipUnclaimable, Handle, CheckAfter, Reconcile, Store, Fail,
      Retry, RecordDeadLetter
  <1>4. ASSUME NEW v \in Workers, NEW committed \in BOOLEAN, StoreFault(v, committed)
        PROVE  v = w
    BY <1>1, <1>4 DEF StoreFault
  <1>5. ASSUME NEW v \in Workers, PublishFault(v) \/ WorkerCrash(v)
        PROVE  v = w
    BY <1>1, <1>5 DEF PublishFault, WorkerCrash
  <1>6. ~((\E j \in Jobs, kind \in Kinds : CreateGeneration(j, kind)) \/ (\E j \in Jobs : RequestCancel(j))
          \/ (\E due \in SUBSET Jobs : StageDueBatch(due))
          \/ (\E d \in Dispatchers : Dispatch(d) \/ PublishFails(d) \/ DispatcherCrash(d))
          \/ (\E j \in Jobs, marked \in BOOLEAN : ReplayDeadLetter(j, marked)))
    BY <1>2 DEF CreateGeneration, RequestCancel, StageDueBatch, Dispatch, BeginBatch, PublishRow, CommitBatch,
      PublishFails, DispatcherCrash, ReplayDeadLetter
  <1> QED
    BY <1>3, <1>4, <1>5, <1>6 DEF Next

WorkerResults == {"none", "ok", "wait", "cancelled", "refused", "transient", "permanent"}

\* A run does not end without the row being told, unless it is lost.
LEMMA HolderStays ==
  ASSUME Inv, Next, NEW j \in Jobs, NEW w \in Workers, Holds(w), JobOf(w) = j, task[j].status = "running",
         j \notin dropped', j \notin unheard'
  PROVE  (Holds(w)' /\ JobOf(w)' = j) \/ task'[j].status # "running"
  <1> USE DEF At, JobOf
  <1>0. TypeOK /\ task[j] \in TaskRow /\ task \in [Jobs -> TaskRow]
    BY DEF Inv, TypeOK
  <1>1. CASE worker'[w] = worker[w]
    BY <1>1 DEF Holds
  <1>2. ASSUME NEW pc \in Claimed, Goto(w, pc) \/ \E r \in WorkerResults : GotoWith(w, pc, r)
        PROVE  Holds(w)' /\ JobOf(w)' = j
    BY <1>0, <1>2, GotoType, GotoWithType DEF Holds, WorkerResults
  <1>3. ASSUME Work(w)
        PROVE  (Holds(w)' /\ JobOf(w)' = j) \/ task'[j].status # "running"
    <2>1. CASE \E result \in Results : Handle(w, result)
      BY <2>1, <1>2 DEF Handle, Results, WorkerResults, Claimed
    <2>2. CASE CheckAfter(w)
      BY <2>2, <1>2 DEF CheckAfter, WorkerResults, Claimed
    <2>3. CASE \E result \in Results \cup {"cancelled", "refused"} : Reconcile(w, result)
      BY <2>3, <1>2 DEF Reconcile, Results, WorkerResults, Claimed
    <2>4. CASE Store(w)
      <3>1. task' = [task EXCEPT ![j] = StoredRow(task[j], worker[w].result)]
        BY <2>4 DEF Store, Refused
      <3>2. task'[j] = StoredRow(task[j], worker[w].result)
        BY <3>1, <1>0
      <3> QED
        BY <3>2, <1>0 DEF StoredRow, TaskRow
    <2>5. CASE Fail(w)
      <3>1. task'[j] = FailedRow(w)
        BY <2>5, <1>0 DEF Fail
      <3> QED
        BY <3>1, <1>0 DEF FailedRow, TaskRow
    <2>6. ~((\E i \in Jobs, r \in Retries : Receive(w, i, r)) \/ CheckBefore(w) \/ Claim(w) \/ SkipUnclaimable(w)
            \/ Retry(w) \/ RecordDeadLetter(w))
      BY DEF Receive, CheckBefore, Claim, SkipUnclaimable, Retry, RecordDeadLetter, Holds, Claimed
    <2> QED
      BY <2>1, <2>2, <2>3, <2>4, <2>5, <2>6, <1>3 DEF Work
  <1>4. ASSUME NEW committed \in BOOLEAN, StoreFault(w, committed)
        PROVE  Holds(w)' /\ JobOf(w)' = j
    <2>1. Guarded(w)
      BY <1>4 DEF StoreFault
    <2>2. GotoWith(w, "failing", "permanent")
      BY <2>1, <1>4 DEF StoreFault, RaiseTo
    <2> QED
      BY <2>2, <1>2 DEF Claimed, WorkerResults
  <1>5. ~PublishFault(w) /\ ~WorkerCrash(w)
    BY DEF PublishFault, WorkerCrash, Holds, Claimed
  <1> QED
    BY <1>0, <1>1, <1>3, <1>4, <1>5, OwnSteps

\* A worker before its claim or its retry hands the job on.
LEMMA CarrierStays ==
  ASSUME Inv, Next, NEW j \in Jobs, NEW w \in Workers, JobOf(w) = j, worker[w].pc \in {"received", "checked", "retrying"},
         Claimable(task[j]), Claimable(task'[j]), ~Forgiven(j)'
  PROVE  OnTheWay(j)'
  <1> USE DEF At, JobOf
  <1>0. TypeOK /\ task[j] \in TaskRow /\ task \in [Jobs -> TaskRow]
    BY DEF Inv, TypeOK
  <1>1. ASSUME worker'[w].job = j, worker'[w].pc \in {"received", "checked", "retrying"}
        PROVE  OnTheWay(j)'
    BY <1>1 DEF OnTheWay
  <1>2. CASE worker'[w] = worker[w]
    BY <1>1, <1>2
  <1>3. j \notin dropped' /\ j \notin unheard' /\ j \notin unheard /\ j \notin dropped
    BY HistoryGrows DEF Forgiven
  <1>4. CASE CheckBefore(w)
    <2>1. ~(~IsVideo(w) /\ CancelRequested(j))
      <3>1. SUFFICES ASSUME ~IsVideo(w), CancelRequested(j) PROVE FALSE
        OBVIOUS
      <3>2. task' = task /\ task[j].kind = "image.transform" /\ task[j].cancel
        BY <3>1, <1>0, <1>4 DEF CheckBefore, IsVideo, CancelRequested, TaskRow, Kinds, Claimable
      <3> QED
        BY <3>2 DEF Forgiven
    <2>2. CancelRequested(j) \in BOOLEAN
      BY <1>0 DEF CancelRequested, TaskRow
    <2>3. worker'[w].job = j /\ worker'[w].pc = "checked"
      <3>1. CASE IsVideo(w)
        BY <3>1, <2>2, <1>0, <1>4, SeenType DEF CheckBefore
      <3>2. CASE ~IsVideo(w)
        BY <3>2, <2>1, <1>0, <1>4, GotoType DEF CheckBefore
      <3> QED
        BY <3>1, <3>2
    <2> QED
      BY <2>3, <1>1
  <1>5. ~Claim(w)
    <2>1. SUFFICES ASSUME Claim(w) PROVE FALSE
      OBVIOUS
    <2>2. task'[j] = ClaimedRow(task[j])
      BY <2>1, <1>0 DEF Claim
    <2> QED
      BY <2>2, <1>0 DEF ClaimedRow, Claimable, TaskRow
  <1>6. ~SkipUnclaimable(w)
    BY DEF SkipUnclaimable
  <1>7. CASE Retry(w)
    <2>1. worker[w].retries < MaxRetries
      BY <1>3, <1>7 DEF Retry, Inv, CountInv, CountOK
    <2>2. worker[w].retries + 1 \in Retries
      BY <2>1, <1>0, JobsAssumption DEF TypeOK, WorkerState, Retries
    <2>3. broker' = Published(broker, j, worker[w].retries + 1)
      BY <2>1, <1>7 DEF Retry
    <2>4. broker'[j][worker[w].retries + 1] > 0
      BY <2>2, <2>3, <1>0, PublishedType
    <2> QED
      BY <2>2, <2>4 DEF OnTheWay
  <1>8. ~((\E i \in Jobs, r \in Retries : Receive(w, i, r)) \/ (\E result \in Results : Handle(w, result)) \/ CheckAfter(w)
          \/ (\E result \in Results \cup {"cancelled", "refused"} : Reconcile(w, result))
          \/ Store(w) \/ Fail(w) \/ RecordDeadLetter(w))
    BY DEF Receive, Handle, CheckAfter, Reconcile, Store, Fail, RecordDeadLetter
  <1>9. ASSUME NEW committed \in BOOLEAN
        PROVE  ~StoreFault(w, committed)
    BY <1>3 DEF StoreFault, Guarded
  <1>10. ~PublishFault(w)
    BY <1>1, <1>3 DEF PublishFault
  <1>11. ~WorkerCrash(w)
    BY <1>3 DEF WorkerCrash
  <1> QED
    BY <1>0, <1>2, <1>4, <1>5, <1>6, <1>7, <1>8, <1>9, <1>10, <1>11, OwnSteps DEF Work

\* A row stays to be dispatched until its message is out.
Waits(record) == record \in outbox /\ \A d \in Dispatchers : record \notin dispatcher[d].sent

LEMMA RecordStays ==
  ASSUME Inv, Next, NEW record, Waits(record)
  PROVE  Waits(record)' \/ \E r \in Retries : broker'[record.job][r] > 0
  <1>0. /\ TypeOK /\ record.job \in Jobs /\ 0 \in Retries
        /\ dispatcher \in [Dispatchers -> [batch : SUBSET Record, sent : SUBSET Record]]
    <2>1. TypeOK /\ 0 \in Retries
      BY JobsAssumption DEF Inv, Retries
    <2>2. outbox \subseteq Record /\ dispatcher \in [Dispatchers -> [batch : SUBSET Record, sent : SUBSET Record]]
      BY <2>1 DEF TypeOK
    <2>3. record.job \in Jobs
      BY <2>2 DEF Waits, Record
    <2> QED
      BY <2>1, <2>2, <2>3
  <1>1. CASE outbox \subseteq outbox' /\ dispatcher' = dispatcher
    BY <1>1 DEF Waits
  <1>2. ASSUME NEW d \in Dispatchers, dispatcher' = [dispatcher EXCEPT ![d] = Closed], outbox \ dispatcher[d].sent \subseteq outbox'
        PROVE  Waits(record)'
    <2>1. dispatcher'[d].sent = {} /\ \A e \in Dispatchers \ {d} : dispatcher'[e] = dispatcher[e]
      BY <1>0, <1>2 DEF Closed
    <2> QED
      BY <2>1, <1>2 DEF Waits
  <1>3. ASSUME NEW d \in Dispatchers, BeginBatch(d)
        PROVE  Waits(record)'
    <2>1. outbox' = outbox /\ \E rows : dispatcher' = [dispatcher EXCEPT ![d] = [dispatcher[d] EXCEPT !.batch = rows]]
      BY <1>0, <1>3 DEF BeginBatch
    <2>2. \A e \in Dispatchers : dispatcher'[e].sent = dispatcher[e].sent
      BY <2>1, <1>0
    <2> QED
      BY <2>1, <2>2 DEF Waits
  <1>4. ASSUME NEW d \in Dispatchers, PublishRow(d)
        PROVE  Waits(record)' \/ \E r \in Retries : broker'[record.job][r] > 0
    <2>1. PICK row \in dispatcher[d].batch :
            /\ broker' = Published(broker, row.job, 0)
            /\ dispatcher' = [dispatcher EXCEPT ![d] = [batch |-> dispatcher[d].batch \ {row},
                                                        sent |-> dispatcher[d].sent \cup {row}]]
      BY <1>4 DEF PublishRow
    <2>2. CASE row = record
      BY <2>1, <2>2, <1>0, PublishedType
    <2>3. CASE row # record
      <3>1. dispatcher'[d].sent = dispatcher[d].sent \cup {row} /\ \A e \in Dispatchers \ {d} : dispatcher'[e] = dispatcher[e]
        BY <2>1, <1>0
      <3> QED
        BY <2>3, <3>1, <1>4 DEF Waits, PublishRow
    <2> QED
      BY <2>2, <2>3
  <1>5. ASSUME NEW d \in Dispatchers, CommitBatch(d) \/ PublishFails(d) \/ DispatcherCrash(d)
        PROVE  Waits(record)'
    BY <1>2, <1>5 DEF CommitBatch, PublishFails, DispatcherCrash
  <1>6. CASE (\E j \in Jobs, kind \in Kinds : CreateGeneration(j, kind)) \/ (\E j \in Jobs : RequestCancel(j))
             \/ (\E due \in SUBSET Jobs : StageDueBatch(due)) \/ (\E w \in Workers : Work(w))
             \/ (\E w \in Workers, committed \in BOOLEAN : StoreFault(w, committed))
             \/ (\E w \in Workers : PublishFault(w) \/ WorkerCrash(w))
             \/ (\E j \in Jobs, marked \in BOOLEAN : ReplayDeadLetter(j, marked))
    <2>1. outbox \subseteq outbox' /\ dispatcher' = dispatcher
      BY <1>6 DEF CreateGeneration, RequestCancel, StageDueBatch, Work, StoreFault, PublishFault, WorkerCrash,
        ReplayDeadLetter, Receive, CheckBefore, Claim, SkipUnclaimable, Handle, CheckAfter, Reconcile, Store, Fail, Retry,
        RecordDeadLetter
    <2> QED
      BY <2>1, <1>1
  <1> QED
    BY <1>3, <1>4, <1>5, <1>6 DEF Next, Dispatch

\* A dispatch row that has just been written is in no batch.
LEMMA NewRecordWaits ==
  ASSUME Inv, Next, NEW j \in Jobs, Created(j) \/ Staged(j)
  PROVE  OnTheWay(j)'
  <1> DEFINE record == [job |-> j, wake |-> IF Created(j) THEN 0 ELSE task[j].wakes + 1]
  <1>1. record \in outbox' /\ record.job = j /\ dispatcher' = dispatcher
    BY DEF Created, Staged, Due
  <1>2. record \notin Records
    <2>1. task[j].wakes \in Nat
      BY JobsAssumption DEF Inv, TypeOK, TaskRow
    <2>2. \A old \in Records : task[old.job].status # "absent" /\ old.wake <= task[old.job].wakes
      BY DEF Inv, KnownInv
    <2>3. CASE Created(j)
      BY <2>2, <2>3 DEF Created
    <2>4. CASE ~Created(j)
      <3>1. record.wake = task[j].wakes + 1 /\ record.job = j
        BY <2>4
      <3> HIDE DEF record
      <3> QED
        BY <2>1, <2>2, <3>1
    <2> QED
      BY <2>3, <2>4
  <1>3. \A d \in Dispatchers : record \notin dispatcher'[d].sent
    BY <1>1, <1>2 DEF Records
  <1> HIDE DEF record
  <1> QED
    BY <1>1, <1>3 DEF OnTheWay

LEMMA CarriedStep ==
  ASSUME Inv, Next
  PROVE  Carried'
  <1> USE DEF At, JobOf
  <1>0. TypeOK /\ Carried
    BY DEF Inv
  <1> SUFFICES ASSUME NEW j \in Jobs, ~Forgiven(j)'
               PROVE  /\ Claimable(task'[j]) => OnTheWay(j)'
                      /\ task'[j].status = "running" => \E w \in Workers : worker'[w].job = j /\ Holds(w)'
                      /\ task'[j].status \in {"pending", "retrying"} => Claimable(task'[j])
    BY DEF Carried
  <1>1. task[j] \in TaskRow /\ task'[j] \in TaskRow /\ RowOK(j) /\ RowOK(j)' /\ RowKeeps(j)
    BY <1>0, RowSteps DEF Inv, TypeOK, RowInv
  <1>2. j \notin dropped' /\ j \notin unheard' /\ j \notin dropped /\ j \notin unheard
    BY HistoryGrows DEF Forgiven
  <1>3. ~Forgiven(j)
    BY <1>1, <1>2 DEF Forgiven, RowOK, RowKeeps, Absent
  <1>4. ASSUME NEW w \in Workers, Stores(w, j)
        PROVE  task'[j].status # "running" /\ (~Claimable(task[j]) => ~Claimable(task'[j]))
    <2>1. task[j].status = "running"
      BY <1>2, <1>4, WritersOwn
    <2>2. task'[j] = StoredRow(task[j], worker[w].result)
      BY <1>4 DEF Stores
    <2> QED
      BY <2>1, <2>2, <1>1 DEF StoredRow, TaskRow, Claimable
  <1>5. ASSUME NEW w \in Workers, Fails(w, j)
        PROVE  task'[j].status # "running" /\ (Claimable(task'[j]) => OnTheWay(j)')
    <2>1. task'[j] = FailedRow(w) /\ worker[w].job = j
      BY <1>5 DEF Fails
    <2>2. task'[j].status = IF Retried(w) THEN "retrying" ELSE "failed"
      BY <2>1, <1>1 DEF FailedRow, TaskRow
    <2>3. CASE Retried(w)
      <3>1. worker'[w].pc = "retrying" /\ worker'[w].job = j
        BY <2>3, <1>2, <1>5 DEF Fails
      <3> QED
        BY <3>1, <2>2, <2>3 DEF OnTheWay
    <2> QED
      BY <2>2, <2>3 DEF Claimable
  <1>6. ASSUME Claimable(task[j]), Claimable(task'[j])
        PROVE  OnTheWay(j)'
    <2>1. OnTheWay(j)
      BY <1>0, <1>3, <1>6 DEF Carried
    <2>2. ASSUME NEW record \in outbox, record.job = j, \A d \in Dispatchers : record \notin dispatcher[d].sent
          PROVE  OnTheWay(j)'
      BY <2>2, RecordStays DEF Waits, OnTheWay
    <2>3. ASSUME NEW r \in Retries, broker[j][r] > 0
          PROVE  OnTheWay(j)'
      <3>1. broker'[j][r] > 0 \/ \E w \in Workers : worker'[w].job = j /\ worker'[w].pc = "received"
        BY <2>3, <1>0, Messages
      <3> QED
        BY <3>1 DEF OnTheWay
    <2>4. ASSUME NEW w \in Workers, worker[w].job = j, worker[w].pc \in {"received", "checked", "retrying"}
          PROVE  OnTheWay(j)'
      BY <2>4, <1>6, CarrierStays
    <2> QED
      BY <2>1, <2>2, <2>3, <2>4 DEF OnTheWay
  <1>7. ASSUME task[j].status = "running"
        PROVE  task'[j].status = "running" => \E w \in Workers : worker'[w].job = j /\ Holds(w)'
    <2>1. PICK w \in Workers : worker[w].job = j /\ Holds(w)
      BY <1>0, <1>3, <1>7 DEF Carried
    <2> QED
      BY <2>1, <1>2, <1>7, HolderStays
  <1>8. CASE task'[j] = task[j] \/ Flagged(j)
    <2>1. task'[j].status = task[j].status /\ (Claimable(task'[j]) <=> Claimable(task[j]))
      <3>1. /\ task'[j].status = task[j].status /\ task'[j].attempts = task[j].attempts
            /\ task'[j].timer = task[j].timer
        BY <1>1, <1>8 DEF Flagged, TaskRow
      <3> QED
        BY <3>1 DEF Claimable
    <2> QED
      BY <2>1, <1>1, <1>6, <1>7 DEF RowOK, Claimable
  <1>9. CASE Created(j) \/ Staged(j)
    <2>1. task'[j].status # "running"
      BY <1>1, <1>9 DEF Created, Staged, Due, TaskRow
    <2> QED
      BY <2>1, <1>1, <1>9, NewRecordWaits DEF RowOK, Claimable
  <1>10. CASE ClaimsRow(j) /\ Runs(j)
    <2>1. task'[j].status = "running"
      BY <1>1, <1>10 DEF ClaimsRow, ClaimedRow, TaskRow
    <2>2. PICK w \in Workers : worker'[w].job = j /\ worker'[w].pc \in {"handling", "reconciling"}
      BY <1>2, <1>10 DEF Runs
    <2>3. Holds(w)'
      BY <2>2 DEF Holds, Claimed
    <2> QED
      BY <2>1, <2>2, <2>3 DEF Claimable
  <1>11. ASSUME NEW w \in Workers, Stores(w, j) \/ Fails(w, j)
         PROVE  /\ Claimable(task'[j]) => OnTheWay(j)'
                /\ task'[j].status = "running" => \E v \in Workers : worker'[v].job = j /\ Holds(v)'
                /\ task'[j].status \in {"pending", "retrying"} => Claimable(task'[j])
    BY <1>1, <1>4, <1>5, <1>6, <1>11 DEF RowOK, Claimable
  <1> QED
    BY <1>0, <1>8, <1>9, <1>10, <1>11, RowMoves DEF RowMove

-----------------------------------------------------------------------------
(* Theorems. *)

LEMMA InvInit == Init => Inv
  <1> SUFFICES ASSUME Init PROVE Inv
    OBVIOUS
  <1> USE JobsAssumption
  <1>1. Absent \in TaskRow
    BY DEF Absent, TaskRow, Kinds
  <1>2. TypeOK
    <2>1. task \in [Jobs -> TaskRow] /\ worker \in [Workers -> WorkerState]
      BY <1>1, IdleType DEF Init
    <2> QED
      BY <2>1 DEF Init, TypeOK
  <1>3. \A w \in Workers : worker[w].pc = "idle"
    BY IdleType DEF Init
  <1>4. \A j \in Jobs : task[j] = Absent /\ resumes[j] = 0 /\ dead[j] = 0 /\ \A r \in Retries : broker[j][r] = 0
    BY DEF Init
  <1>5. OwnerInv
    BY <1>3 DEF OwnerInv, Owns, Holds, Claimed
  <1>6. RowInv
    BY <1>4 DEF RowInv, RowOK, Absent
  <1>7. Records = {}
    BY DEF Init, Records
  <1>8. KnownInv
    BY <1>3, <1>4, <1>7 DEF KnownInv, At
  <1>9. CountInv
    BY <1>3, <1>4 DEF CountInv, CountOK, Holds, Claimed, At
  <1>10. Carried
    BY <1>4 DEF Carried, Claimable, Absent
  <1> QED
    BY <1>2, <1>5, <1>6, <1>8, <1>9, <1>10 DEF Inv

LEMMA InvStep == Inv /\ [Next]_vars => Inv'
  <1> SUFFICES ASSUME Inv, [Next]_vars PROVE Inv'
    OBVIOUS
  <1>1. CASE Next
    <2>1. RowInv'
      BY <1>1, RowSteps DEF RowInv
    <2> QED
      BY <2>1, <1>1, TypeStep, OwnerStep, KnownStep, CountStep, CarriedStep DEF Inv
  <1>2. CASE UNCHANGED vars
    BY <1>2 DEF vars, Inv, TypeOK, OwnerInv, Owns, Ghost, Holds, At, JobOf, RowInv, RowOK, KnownInv, Records, CountInv, CountOK,
      Counted, Carried, Forgiven, Claimable, OnTheWay
  <1> QED
    BY <1>1, <1>2

THEOREM Invariance == Spec => []Inv
  BY InvInit, InvStep, PTL DEF Spec

(* Every variable stays in its type: among them the attempts of a row      *)
(* within tasks.max_attempts.                                              *)
THEOREM TypeCorrect == Spec => []TypeOK
  <1>1. Inv => TypeOK
    BY DEF Inv
  <1> QED
    BY <1>1, Invariance, PTL

(* claim and the ends of a run, whatever is delivered twice, retried,      *)
(* woken or replayed: a job has one worker at a time, and its row says so. *)
THEOREM OneWorker == Spec => []OneHolder
  <1>1. Inv => OneHolder
    <2> SUFFICES ASSUME Inv, NEW w \in Workers, Holds(w), JobOf(w) \notin unheard
                 PROVE  /\ task[JobOf(w)].status = "running"
                        /\ \A v \in Workers \ {w} : Holds(v) => JobOf(v) # JobOf(w)
      BY DEF OneHolder
    <2>1. OwnerInv
      BY DEF Inv
    <2> QED
      BY <2>1 DEF OwnerInv, Owns, Ghost
  <1> QED
    BY <1>1, Invariance, PTL

(* The outbox, the broker and the retries lose no job: one that waits for  *)
(* a worker has a row, a message or a worker on the way to it, unless a    *)
(* fault took it that the code does not recover from.                      *)
THEOREM NothingIsLost == Spec => []Carried
  <1>1. Inv => Carried
    BY DEF Inv
  <1> QED
    BY <1>1, Invariance, PTL

(* The wake scheduler: no wait is resumed more often than it was staged.   *)
THEOREM WakesAreUsedOnce == Spec => []RunsAreEarned
  <1>1. Inv => RunsAreEarned
    BY DEF Inv, RowInv, RowOK, RunsAreEarned
  <1> QED
    BY <1>1, Invariance, PTL

(* succeed, cancel and fail: a settled row is taken back by a worker only  *)
(* that took a commit for a failure.                                       *)
THEOREM SettledStays == Spec => TerminalIsFinal
  <1>1. Inv /\ Next => \A j \in Jobs : task[j].status \in Terminal => task'[j].status = task[j].status \/ j \in unheard
    <2> SUFFICES ASSUME Inv, Next, NEW j \in Jobs, task[j].status \in Terminal, j \notin unheard
                 PROVE  task'[j].status = task[j].status
      OBVIOUS
    <2>1. TypeOK /\ task[j] \in TaskRow
      BY DEF Inv, TypeOK
    <2>2. ~Created(j) /\ ~Staged(j) /\ ~ClaimsRow(j)
      BY DEF Created, Staged, Due, ClaimsRow, Claimable, Terminal
    <2>3. \A w \in Workers : ~Stores(w, j) /\ ~Fails(w, j)
      BY WritersOwn DEF Terminal
    <2>4. task'[j] = task[j] \/ Flagged(j)
      BY <2>1, <2>2, <2>3, RowMoves DEF RowMove
    <2> QED
      BY <2>1, <2>4 DEF Flagged, TaskRow
  <1>2. Inv /\ [Next]_vars =>
          [\A j \in Jobs : task[j].status \in Terminal => task'[j].status = task[j].status \/ j \in unheard]_vars
    BY <1>1
  <1> QED
    BY <1>2, Invariance, PTL DEF Spec, TerminalIsFinal

=============================================================================
