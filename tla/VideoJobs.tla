------------------------------ MODULE VideoJobs ------------------------------
(***************************************************************************)
(* One video.render job from its first claim to the end of its task: the   *)
(* hosted runtime (HostedVideoGenerationRuntime) around the state machine  *)
(* of VideoGenerationPipeline, for the specs the hosted runtime accepts:   *)
(* one required shot, text to video.                                       *)
(*                                                                         *)
(* An invocation loads the recovery row into a repository of its own,      *)
(* talks to the Model Gateway, the object store and the artifact tables,   *)
(* and writes everything back in one transaction at its end (flush).  What *)
(* the world outside learned before that transaction stays learned when    *)
(* the transaction fails, and a worker may crash between any two steps.    *)
(*                                                                         *)
(* MediaJobs shows that a job has one worker at a time (OneHolder); here   *)
(* there is one.  A paid operation is named by the attempt it belongs to.  *)
(***************************************************************************)
EXTENDS Naturals

CONSTANTS RetryLimit,  \* spec.quality_retry_limit
          Prices,      \* estimates the gateway may give for an attempt
          Budget,      \* spec.budget_limit_usd
          MaxFaults    \* bound: failed calls, lost answers and crashes

ASSUME VideoAssumption ==
  /\ RetryLimit \in Nat /\ Budget \in Nat /\ MaxFaults \in Nat
  /\ Prices \subseteq Nat

Attempts == 0 .. RetryLimit

VARIABLES task,       \* the tasks row: status, and whether a cancellation was requested
          row,        \* what video_generation_jobs and video_provider_jobs hold
          work,       \* the invocation of the worker, with its repository
          provider,   \* [Attempts -> state of the provider's job]
          outputs,    \* provider outputs staged under provider-output/v1/async
          deleted,    \* history: provider outputs deleted from there
          artifacts,  \* attempts with a committed clip version
          final,      \* the final artifact version is committed
          quoted,     \* history: sum of the estimates of the submitted attempts
          faults,     \* counter behind MaxFaults
          stranded,   \* history: the worker crashed
          reconciled  \* history: an invocation has reconciled a cancellation

vars == <<task, row, work, provider, outputs, deleted, artifacts, final, quoted,
          faults, stranded, reconciled>>
Media == <<outputs, deleted, artifacts, final>>
History == <<quoted, stranded, reconciled>>

Ended == {"succeeded", "failed", "cancelled"}
JobEnded == {"COMPLETED", "FAILED", "CANCELLED"}
Results == {"SUCCEEDED", "FAILED", "CANCELLED"}

(* VideoJob with its one ShotRuntime.                                      *)
VideoJob == [status : {"SUBMITTING", "WAITING_EXTERNAL", "COMPOSING"} \cup JobEnded,
             shot : {"QUEUED", "WAITING_EXTERNAL", "READY", "FAILED", "CANCELLED"},
             attempt : Attempts, estimated : Nat]
NewJob == [status |-> "SUBMITTING", shot |-> "QUEUED", attempt |-> 0, estimated |-> 0]

(* Provider records: the active ones are PENDING, the archived ones ended. *)
Snapshot == [exists : BOOLEAN, job : VideoJob, active : SUBSET Attempts,
             archive : SUBSET (Attempts \X Results)]
NoRow == [exists |-> FALSE, job |-> NewJob, active |-> {}, archive |-> {}]

Pipeline == {"advance", "submit", "poll", "cancel", "revoked", "settle", "collect",
             "clip", "compose", "final", "flush"}
Invocation == [pc : {"idle", "received", "load", "cleanup", "check", "store", "raised"} \cup Pipeline,
               seen : BOOLEAN, mode : {"execute", "reconcile"}, repo : Snapshot, price : Nat,
               result : {"none"} \cup Results, pass : BOOLEAN, deletes : SUBSET Attempts]
Idle == [pc |-> "idle", seen |-> FALSE, mode |-> "execute", repo |-> NoRow, price |-> 0,
         result |-> "none", pass |-> FALSE, deletes |-> {}]

TypeOK ==
  /\ task \in [status : {"pending", "running", "waiting_external"} \cup Ended, cancel : BOOLEAN]
  /\ row \in Snapshot
  /\ work \in Invocation
  /\ provider \in [Attempts -> {"none", "RUNNING"} \cup Results]
  /\ outputs \subseteq Attempts /\ deleted \subseteq Attempts /\ artifacts \subseteq Attempts
  /\ final \in BOOLEAN /\ quoted \in Nat /\ faults \in 0 .. MaxFaults
  /\ stranded \in BOOLEAN /\ reconciled \in BOOLEAN

Init ==
  /\ task = [status |-> "pending", cancel |-> FALSE]
  /\ row = NoRow
  /\ work = Idle
  /\ provider = [n \in Attempts |-> "none"]
  /\ outputs = {} /\ deleted = {} /\ artifacts = {} /\ final = FALSE
  /\ quoted = 0 /\ faults = 0 /\ stranded = FALSE /\ reconciled = FALSE

At(pc) == work.pc = pc
job == work.repo.job
Fault == faults < MaxFaults /\ faults' = faults + 1

-----------------------------------------------------------------------------
(* Outside the worker.                                                     *)

(* cancellation_requested_at is written by request_cancel of the task      *)
(* graph store alone, there for the statuses of a graph's tasks; here it   *)
(* comes while the job is open, at any moment of it.                       *)
RequestCancel ==
  /\ task.status \notin Ended /\ ~task.cancel
  /\ task' = [task EXCEPT !.cancel = TRUE]
  /\ UNCHANGED <<row, work, provider, faults, Media, History>>

(* The provider works on its own.                                          *)
ProviderEnds(n, result) ==
  /\ provider[n] = "RUNNING"
  /\ provider' = [provider EXCEPT ![n] = result]
  /\ UNCHANGED <<task, row, work, faults, Media, History>>

-----------------------------------------------------------------------------
(* execute_video_job up to the handler.  A wake is a claim of the waiting  *)
(* row; what brings it about is modelled by MediaJobs.                     *)

(* The cancellation is read before the claim and acted on after it.        *)
ReadCancellation ==
  /\ At("idle") /\ task.status \in {"pending", "waiting_external"}
  /\ work' = [Idle EXCEPT !.pc = "received", !.seen = task.cancel]
  /\ UNCHANGED <<task, row, provider, faults, Media, History>>

Claim ==
  /\ At("received")
  /\ task' = [task EXCEPT !.status = "running"]
  /\ work' = [work EXCEPT !.pc = "load", !.mode = IF work.seen THEN "reconcile" ELSE "execute"]
  /\ UNCHANGED <<row, provider, faults, Media, History>>

(* No recovery row: execute starts the pipeline with a new job, a          *)
(* reconciliation answers CANCELLED and has nothing to flush.              *)
LoadNothing ==
  /\ At("load") /\ ~row.exists
  /\ work' = IF work.mode = "execute"
             THEN [work EXCEPT !.pc = "advance", !.repo = [NoRow EXCEPT !.exists = TRUE]]
             ELSE [work EXCEPT !.pc = "store", !.repo.job.status = "CANCELLED"]
  /\ reconciled' = (reconciled \/ work.mode = "reconcile")
  /\ UNCHANGED <<task, row, provider, faults, Media, quoted, stranded>>

(* resume and cancel return an ended job as it is.                         *)
LoadRow ==
  /\ At("load") /\ row.exists
  /\ work' = [work EXCEPT !.repo = row,
                          !.pc = IF row.job.status \in JobEnded THEN "flush"
                                 ELSE IF work.mode = "execute" THEN "poll" ELSE "cancel"]
  /\ reconciled' = (reconciled \/ work.mode = "reconcile")
  /\ UNCHANGED <<task, row, provider, faults, Media, quoted, stranded>>

-----------------------------------------------------------------------------
(* The pipeline.                                                           *)

FailJob(w) ==
  [w EXCEPT !.pc = "flush", !.repo.job = [w.repo.job EXCEPT !.status = "FAILED", !.shot = "FAILED"]]

NextAttempt(j) ==
  [j EXCEPT !.status = "SUBMITTING", !.shot = "QUEUED", !.attempt = j.attempt + 1]

\* Slip: a reconciliation retries like an execution.
RetryOrFailAlways(w) ==
  IF w.repo.job.attempt < RetryLimit
  THEN [w EXCEPT !.pc = "advance", !.repo.job = NextAttempt(w.repo.job)]
  ELSE FailJob(w)

(* _quality_retry: the next attempt is a paid operation of its own; a      *)
(* reconciliation is not allowed one.                                      *)
RetryOrFail(w) ==
  IF w.mode = "execute" /\ w.repo.job.attempt < RetryLimit
  THEN [w EXCEPT !.pc = "advance", !.repo.job = NextAttempt(w.repo.job)]
  ELSE FailJob(w)

(* The budget bounds the estimates of all attempts together.               *)
Affordable(price) == job.estimated + price <= Budget

(* _advance up to the submit.                                              *)
Estimate(price) ==
  /\ At("advance")
  /\ work' = IF Affordable(price)
             THEN [work EXCEPT !.pc = "submit", !.repo.job.estimated = @ + price, !.price = price]
             ELSE FailJob(work)
  /\ UNCHANGED <<task, row, provider, faults, Media, History>>

EstimateRaises ==
  /\ At("advance") /\ Fault
  /\ work' = FailJob(work)
  /\ UNCHANGED <<task, row, provider, Media, History>>

Accepted == provider' = [provider EXCEPT ![job.attempt] = "RUNNING"]

Submit ==
  /\ At("submit") /\ Accepted
  /\ quoted' = quoted + work.price
  /\ work' = [work EXCEPT !.pc = "flush", !.repo.active = @ \cup {job.attempt},
       !.repo.job = [job EXCEPT !.status = "WAITING_EXTERNAL", !.shot = "WAITING_EXTERNAL"]]
  /\ UNCHANGED <<task, row, faults, Media, stranded, reconciled>>

(* An exception of submit ends the job, whatever the provider did.         *)
SubmitRaises(accepted) ==
  /\ At("submit") /\ Fault
  /\ IF accepted THEN Accepted ELSE provider' = provider
  /\ quoted' = IF accepted THEN quoted + work.price ELSE quoted
  /\ work' = FailJob(work)
  /\ UNCHANGED <<task, row, Media, stranded, reconciled>>

(* The gateway stages the video before it answers SUCCEEDED.               *)
Staged == outputs \cup {n \in {job.attempt} : provider[n] = "SUCCEEDED"}

\* Slip: the active record is dropped, and nothing is archived.
ArchivedNowhere(w, result) ==
  [w EXCEPT !.repo.active = @ \ {w.repo.job.attempt}, !.result = result]

(* A terminal result is archived under its attempt.                        *)
Archived(w, result) ==
  [w EXCEPT !.repo.active = @ \ {w.repo.job.attempt},
            !.repo.archive = @ \cup {<<w.repo.job.attempt, result>>}, !.result = result]


Poll ==
  /\ At("poll")
  /\ work' = IF provider[job.attempt] = "RUNNING"
             THEN [work EXCEPT !.pc = "flush"]
             ELSE [Archived(work, provider[job.attempt]) EXCEPT !.pc = "settle"]
  /\ outputs' = Staged
  /\ UNCHANGED <<task, row, provider, faults, deleted, artifacts, final, History>>

\* Slip: a poll that raises counts as a failed attempt.
PollRaisesRetries ==
  /\ At("poll") /\ Fault
  /\ work' = RetryOrFail(work)
  /\ UNCHANGED <<task, row, provider, Media, History>>

(* The job stays as it was and waits for the next wake.                    *)
PollRaises ==
  /\ At("poll") /\ Fault
  /\ work' = [work EXCEPT !.pc = "flush"]
  /\ UNCHANGED <<task, row, provider, Media, History>>

\* Slip: an answer that proves nothing is believed.
CancelBelieved(stopped) ==
  /\ At("cancel")
  /\ stopped => provider[job.attempt] = "RUNNING"
  /\ provider' = IF stopped THEN [provider EXCEPT ![job.attempt] = "CANCELLED"] ELSE provider
  /\ work' = [work EXCEPT !.pc = "revoked"]
  /\ UNCHANGED <<task, row, faults, Media, History>>

(* Cancellation of the provider's job: no proof, then the job is polled    *)
(* once; the provider may have stopped it all the same.                    *)
CancelUnproven(stopped) ==
  /\ At("cancel")
  /\ stopped => provider[job.attempt] = "RUNNING"
  /\ provider' = IF stopped THEN [provider EXCEPT ![job.attempt] = "CANCELLED"] ELSE provider
  /\ work' = [work EXCEPT !.pc = "poll"]
  /\ UNCHANGED <<task, row, faults, Media, History>>

CancelProven ==
  /\ At("cancel") /\ provider[job.attempt] \in {"RUNNING", "CANCELLED"}
  /\ provider' = [provider EXCEPT ![job.attempt] = "CANCELLED"]
  /\ work' = [work EXCEPT !.pc = "revoked"]
  /\ UNCHANGED <<task, row, faults, Media, History>>

(* Its answer is another terminal state: cancel returns the waiting job,   *)
(* and resume takes that result without a poll.                            *)
CancelTooLate ==
  /\ At("cancel") /\ provider[job.attempt] \in {"SUCCEEDED", "FAILED"}
  /\ work' = [Archived(work, provider[job.attempt]) EXCEPT !.pc = "settle"]
  /\ outputs' = Staged
  /\ UNCHANGED <<task, row, provider, faults, deleted, artifacts, final, History>>

(* The cost of the cancelled attempt is reconciled before the job ends.    *)
Revoke ==
  /\ At("revoked")
  /\ work' = [Archived(work, "CANCELLED") EXCEPT
       !.pc = "flush", !.repo.job = [job EXCEPT !.status = "CANCELLED", !.shot = "CANCELLED"]]
  /\ UNCHANGED <<task, row, provider, faults, Media, History>>

(* _finish_terminal: the cost, then the result.                            *)
Settle ==
  /\ At("settle")
  /\ work' = IF work.result = "SUCCEEDED" THEN [work EXCEPT !.pc = "collect"]
             ELSE IF work.result = "FAILED" THEN RetryOrFail(work)
             ELSE FailJob(work)
  /\ UNCHANGED <<task, row, provider, faults, Media, History>>

(* Once materialization has read the head of the provider's output it asks *)
(* for the output's deletion, however it ends; DeferredProviderOutputStore *)
(* only notes it.                                                          *)
Noted(w) == [w EXCEPT !.deletes = @ \cup {w.repo.job.attempt}]

\* Slip: the output is deleted at once.
CollectDeleting(pass) ==
  /\ At("collect")
  /\ work' = [work EXCEPT !.pc = "clip", !.pass = pass]
  /\ outputs' = outputs \ {job.attempt} /\ deleted' = deleted \cup {job.attempt}
  /\ UNCHANGED <<task, row, provider, faults, artifacts, final, History>>

Collect(pass) ==
  /\ At("collect")
  /\ work' = [Noted(work) EXCEPT !.pc = "clip", !.pass = pass]
  /\ UNCHANGED <<task, row, provider, faults, Media, History>>

CollectRaises ==
  /\ At("collect") /\ Fault
  /\ \E w \in {work, Noted(work)} : work' = RetryOrFail(w)
  /\ UNCHANGED <<task, row, provider, Media, History>>

(* The clip is committed in a transaction of the artifact tables, accepted *)
(* or not.                                                                 *)
CreateClip ==
  /\ At("clip")
  /\ artifacts' = artifacts \cup {job.attempt}
  /\ work' = IF work.pass THEN [work EXCEPT !.pc = "compose", !.repo.job.shot = "READY"]
             ELSE RetryOrFail(work)
  /\ UNCHANGED <<task, row, provider, faults, outputs, deleted, final, History>>

Compose(pass) ==
  /\ At("compose")
  /\ work' = [work EXCEPT !.pc = "final", !.pass = pass, !.repo.job.status = "COMPOSING"]
  /\ UNCHANGED <<task, row, provider, faults, Media, History>>

ComposeRaises ==
  /\ At("compose") /\ Fault
  /\ work' = [work EXCEPT !.pc = "flush", !.repo.job.status = "FAILED"]
  /\ UNCHANGED <<task, row, provider, Media, History>>

CreateFinal ==
  /\ At("final")
  /\ final' = TRUE
  /\ work' = [work EXCEPT !.pc = "flush",
                          !.repo.job.status = IF work.pass THEN "COMPLETED" ELSE "FAILED"]
  /\ UNCHANGED <<task, row, provider, faults, outputs, deleted, artifacts, History>>

-----------------------------------------------------------------------------
(* The end of an invocation.                                               *)

(* flush: job, provider records, public generation and events are one      *)
(* transaction.                                                            *)
Flush ==
  /\ At("flush")
  /\ row' = work.repo
  /\ work' = [work EXCEPT !.pc = "cleanup"]
  /\ UNCHANGED <<task, provider, faults, Media, History>>

(* cleanup_committed_provider_outputs is best effort.  execute raises for  *)
(* a job that did not complete, before it looks at the cancellation.       *)
Cleanup(gone) ==
  /\ At("cleanup") /\ gone \subseteq work.deletes
  /\ outputs' = outputs \ gone /\ deleted' = deleted \cup gone
  /\ work' = [work EXCEPT !.deletes = {},
       !.pc = IF work.mode = "reconcile" THEN "store"
              ELSE IF job.status \in {"FAILED", "CANCELLED"} THEN "raised" ELSE "check"]
  /\ UNCHANGED <<task, row, provider, faults, artifacts, final, History>>

CheckCancellation ==
  /\ At("check")
  /\ work' = IF task.cancel THEN [Idle EXCEPT !.pc = "load", !.mode = "reconcile"]
             ELSE [work EXCEPT !.pc = "store"]
  /\ UNCHANGED <<task, row, provider, faults, Media, History>>

TaskStatus ==
  CASE job.status = "WAITING_EXTERNAL" -> "waiting_external"
    [] job.status = "COMPLETED" -> "succeeded"
    [] job.status = "CANCELLED" -> "cancelled"
    [] OTHER -> "failed"

StoreResult ==
  /\ At("store")
  /\ task' = [task EXCEPT !.status = TaskStatus]
  /\ work' = Idle
  /\ UNCHANGED <<row, provider, faults, Media, History>>

(* Every exception of this path is classified permanent.                   *)
FailTask ==
  /\ At("raised")
  /\ task' = [task EXCEPT !.status = "failed"]
  /\ work' = Idle
  /\ UNCHANGED <<row, provider, faults, Media, History>>

-----------------------------------------------------------------------------
(* Faults.                                                                 *)

(* A statement of the database raises, after it was committed or not: the  *)
(* load, the comparison with the cost ledger (which also raises when the   *)
(* price card has changed since the submit), the artifacts, the flush, the *)
(* task store.                                                             *)
DatabaseRaises(committed) ==
  /\ work.pc \in {"load", "revoked", "settle", "clip", "final", "flush", "check", "store"}
  /\ Fault
  /\ work' = [work EXCEPT !.pc = "raised"]
  /\ artifacts' = IF committed /\ At("clip") THEN artifacts \cup {job.attempt} ELSE artifacts
  /\ final' = (final \/ (committed /\ At("final")))
  /\ row' = IF committed /\ At("flush") THEN work.repo ELSE row
  /\ task' = IF committed /\ At("store") THEN [task EXCEPT !.status = TaskStatus] ELSE task
  /\ UNCHANGED <<provider, outputs, deleted, History>>

(* The message is gone and the claim stands.                               *)
Crash ==
  /\ work.pc \notin {"idle", "received"}
  /\ Fault
  /\ work' = Idle
  /\ stranded' = TRUE
  /\ UNCHANGED <<task, row, provider, Media, quoted, reconciled>>

-----------------------------------------------------------------------------
Invoke ==
  \/ ReadCancellation \/ Claim \/ LoadNothing \/ LoadRow
  \/ \E price \in Prices : Estimate(price)
  \/ Submit \/ Poll
  \/ CancelUnproven(FALSE) \/ CancelUnproven(TRUE) \/ CancelProven \/ CancelTooLate \/ Revoke
  \/ Settle \/ CreateClip \/ CreateFinal
  \/ \E pass \in BOOLEAN : Collect(pass) \/ Compose(pass)
  \/ Flush \/ CheckCancellation \/ StoreResult \/ FailTask
  \/ \E gone \in SUBSET work.deletes : Cleanup(gone)

Faulty ==
  \/ EstimateRaises \/ PollRaises \/ CollectRaises \/ ComposeRaises \/ Crash
  \/ \E flag \in BOOLEAN : SubmitRaises(flag) \/ DatabaseRaises(flag)

Next ==
  \/ RequestCancel
  \/ \E n \in Attempts, result \in Results : ProviderEnds(n, result)
  \/ Invoke \/ Faulty

Spec == Init /\ [][Next]_vars

(* MediaJobs brings a worker to every job that waits (EveryJobSettles),    *)
(* and a provider ends every job it took.                                  *)
Fairness ==
  /\ WF_vars(Invoke)
  /\ \A n \in Attempts : WF_vars(\E result \in Results : ProviderEnds(n, result))
FairSpec == Spec /\ Fairness

-----------------------------------------------------------------------------
(* Properties.                                                             *)

(* From the moment a cancellation is being reconciled, no provider is      *)
(* given a paid attempt any more: not by a quality retry, and not by the   *)
(* next wake of a job the provider would not cancel.                       *)
NoPaidWorkAfterCancel ==
  [][reconciled => \A n \in Attempts : provider[n] = "none" => provider'[n] = "none"]_vars

(* A replacement is paid for only when the provider's job before it is     *)
(* over: failed polls and lost answers do not start a second one.          *)
OneProviderJob ==
  \A m, n \in Attempts : provider[m] = "RUNNING" /\ provider[n] = "RUNNING" => m = n

(* The estimates of everything submitted, retries of later invocations     *)
(* included, stay within the budget of the spec.                           *)
WithinBudget == quoted <= Budget

(* What the task says is what happened at the provider: cancelled only     *)
(* when nothing runs there and the last attempt was stopped or never       *)
(* existed, succeeded only with a video, its clip and its composition.     *)
TaskTellsTheTruth ==
  /\ task.status = "cancelled" =>
       \A n \in Attempts : provider[n] # "RUNNING"
                           /\ (provider[n] = "SUCCEEDED" => row.exists /\ n < row.job.attempt)
  /\ task.status = "succeeded" =>
       row.job.status = "COMPLETED" /\ provider[row.job.attempt] = "SUCCEEDED"
       /\ row.job.attempt \in artifacts /\ final

(* The staged output of an attempt is not deleted while the recovery row   *)
(* still waits for that attempt: a retry would have nothing to collect.    *)
SourceSurvives ==
  \A n \in deleted : row.exists /\ ~(row.job.shot = "WAITING_EXTERNAL" /\ row.job.attempt = n)

(* The recovery row alone is enough to go on: it names the provider's job  *)
(* it waits for, and every earlier attempt with the result it had.         *)
RecoveryIsComplete ==
  row.exists =>
    /\ row.job.status = "WAITING_EXTERNAL" =>
         row.active = {row.job.attempt} /\ provider[row.job.attempt] # "none"
    /\ \A n \in 0 .. row.job.attempt - 1 : \E r \in Results : <<n, r>> \in row.archive
    /\ \A entry \in row.archive : provider[entry[1]] = entry[2]


(* What VIDEO-GENERATION-V1 section 12 says of a recovery transaction that *)
(* fails after the artifact transaction: the row still waits for the       *)
(* provider's job, and a retry can poll and materialize it again.          *)
MaterializedIsRetried ==
  row.exists /\ row.job.status = "WAITING_EXTERNAL" /\ row.job.attempt \in artifacts
    => task.status \notin Ended

=============================================================================
