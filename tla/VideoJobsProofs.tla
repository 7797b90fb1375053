-------------------------- MODULE VideoJobsProofs --------------------------
(***************************************************************************)
(* Inductive invariants of VideoJobs, for any retry limit, prices and      *)
(* budget, and a bound on the steps of an invocation (StepsLeft).          *)
(***************************************************************************)
EXTENDS VideoJobs, TLAPS

Working == {"load", "cleanup", "check", "store"} \cup Pipeline
\* The pipeline before its last steps.
Open == Pipeline \ {"flush"}
Ending == {"WAITING_EXTERNAL"} \cup JobEnded

(* What a repository or a row says of the provider is so, and stays so.    *)
Told(s) ==
  /\ \A entry \in s.archive : provider[entry[1]] = entry[2]
  /\ \A n \in Attempts : n < s.job.attempt => provider[n] \in Results /\ <<n, provider[n]>> \in s.archive

\* Nothing was submitted that s does not know of.
Current(s) ==
  /\ \A n \in Attempts : n > s.job.attempt => provider[n] = "none"
  /\ s.job.estimated = quoted

Waiting(s) ==
  s.job.status = "WAITING_EXTERNAL" =>
    /\ s.job.shot = "WAITING_EXTERNAL" /\ s.active = {s.job.attempt}
    /\ provider[s.job.attempt] # "none"

\* A job at the end of an invocation.
Flushed(s) ==
  /\ Told(s) /\ Waiting(s) /\ s.job.status \in Ending
  /\ s.job.status = "WAITING_EXTERNAL" => Current(s)
  /\ s.job.status = "CANCELLED" => provider[s.job.attempt] = "CANCELLED" /\ Current(s)
  /\ s.job.status = "COMPLETED" =>
       provider[s.job.attempt] = "SUCCEEDED" /\ s.job.attempt \in artifacts /\ final
  /\ \A n \in deleted : n < s.job.attempt \/ s.job.shot # "WAITING_EXTERNAL"

Untouched == (\A n \in Attempts : provider[n] = "none") /\ quoted = 0 /\ deleted = {} /\ ~row.exists

(* The row outlives the invocations that could not write it: then it is    *)
(* behind, but what it says is still so.                                   *)
RowInv ==
  row.exists =>
    /\ Told(row) /\ Waiting(row) /\ row.job.status \in Ending
    /\ \A n \in deleted : n < row.job.attempt \/ row.job.shot # "WAITING_EXTERNAL"

(* A row that an invocation starts from is up to date.                     *)
StartInv ==
  /\ task.status = "pending" => Untouched /\ work.pc \in {"idle", "received"}
  /\ task.status = "waiting_external" =>
       row.exists /\ Flushed(row) /\ row.job.status = "WAITING_EXTERNAL"
       /\ work.pc \in {"idle", "received", "raised"}
  /\ At("load") => IF row.exists THEN Flushed(row) ELSE Untouched
  /\ work.pc \in Working => task.status = "running"
  /\ At("received") => task.status \in {"pending", "waiting_external"}

(* An invocation, by the place it has reached.                             *)
PipelineInv ==
  work.pc \in Open =>
    /\ work.repo.exists /\ Told(work.repo)
    /\ \A n \in Attempts : n > job.attempt => provider[n] = "none"
    /\ \A n \in deleted : n < job.attempt
    /\ IF work.pc \in {"advance", "submit"}
       THEN provider[job.attempt] = "none" /\ work.mode = "execute"
            /\ \A n \in work.deletes : n < job.attempt
       ELSE provider[job.attempt] # "none" /\ job.estimated = quoted
    /\ At("advance") => job.estimated = quoted
    /\ At("submit") => job.estimated = quoted + work.price /\ job.estimated <= Budget
    /\ work.repo.active = IF work.pc \in {"poll", "cancel", "revoked"} THEN {job.attempt} ELSE {}
    /\ work.pc \in {"poll", "cancel", "revoked"} =>
         work.deletes = {} /\ job.status = "WAITING_EXTERNAL" /\ job.shot = "WAITING_EXTERNAL"
    /\ At("revoked") => provider[job.attempt] = "CANCELLED"
    /\ work.pc \in {"settle", "collect", "clip", "compose", "final"} =>
         /\ provider[job.attempt] = work.result /\ work.result \in Results
         /\ <<job.attempt, work.result>> \in work.repo.archive
         /\ \A n \in work.deletes : n <= job.attempt
    /\ work.pc \in {"collect", "clip", "compose", "final"} => work.result = "SUCCEEDED"
    /\ work.pc \in {"compose", "final"} => job.attempt \in artifacts /\ job.shot = "READY"

EndInv ==
  /\ At("flush") => work.repo.exists /\ Flushed(work.repo)
  /\ work.pc \in {"cleanup", "check"} => row = work.repo /\ row.exists /\ Flushed(row)
  /\ At("store") =>
       \/ row = work.repo /\ row.exists /\ Flushed(row)
       \/ Untouched /\ job.status = "CANCELLED"
  /\ work.pc \in {"flush", "cleanup"} =>
       \A n \in work.deletes : n < job.attempt \/ job.shot # "WAITING_EXTERNAL"
  /\ row.exists \/ deleted = {}

CancelInv ==
  /\ reconciled => task.cancel
  /\ work.seen => task.cancel
  /\ At("received") /\ reconciled => work.seen
  /\ work.pc \in {"load"} \cup Pipeline =>
       /\ work.mode = "reconcile" => task.cancel
       /\ reconciled => work.mode = "reconcile"

\* An invocation starts with no deletions to make.
FreshInv == work.pc \in {"received", "load"} => work.deletes = {}

Inv ==
  /\ TypeOK /\ FreshInv /\ RowInv /\ StartInv /\ PipelineInv /\ EndInv /\ CancelInv
  /\ OneProviderJob /\ WithinBudget /\ TaskTellsTheTruth

-----------------------------------------------------------------------------
(* Types. *)

\* What the steps make of a job and of a repository.
LEMMA JobTypes ==
  ASSUME NEW j \in VideoJob
  PROVE  /\ \A status \in Ending, shot \in {"FAILED", "CANCELLED", "WAITING_EXTERNAL"} :
              [j EXCEPT !.status = status, !.shot = shot] \in VideoJob
         /\ \A status \in {"SUBMITTING", "COMPOSING"} \cup Ending : [j EXCEPT !.status = status] \in VideoJob
         /\ [j EXCEPT !.shot = "READY"] \in VideoJob
         /\ \A price \in Nat : [j EXCEPT !.estimated = j.estimated + price] \in VideoJob
         /\ j.attempt < RetryLimit =>
              [j EXCEPT !.status = "SUBMITTING", !.shot = "QUEUED", !.attempt = j.attempt + 1] \in VideoJob
  <1> USE DEF VideoJob, Ending, JobEnded, Attempts
  <1>1. j.attempt \in 0 .. RetryLimit /\ j.estimated \in Nat
    OBVIOUS
  <1>2. j.attempt < RetryLimit => j.attempt + 1 \in 0 .. RetryLimit
    BY <1>1, VideoAssumption
  <1>3. \A price \in Nat : j.estimated + price \in Nat
    BY <1>1
  <1>4. \A price \in Nat : [j EXCEPT !.estimated = j.estimated + price] \in VideoJob
    BY <1>3
  <1>5. j.attempt < RetryLimit =>
          [j EXCEPT !.status = "SUBMITTING", !.shot = "QUEUED", !.attempt = j.attempt + 1] \in VideoJob
    BY <1>2
  <1>6. /\ \A status \in Ending, shot \in {"FAILED", "CANCELLED", "WAITING_EXTERNAL"} :
             [j EXCEPT !.status = status, !.shot = shot] \in VideoJob
        /\ \A status \in {"SUBMITTING", "COMPOSING"} \cup Ending : [j EXCEPT !.status = status] \in VideoJob
        /\ [j EXCEPT !.shot = "READY"] \in VideoJob
    OBVIOUS
  <1> QED
    BY <1>4, <1>5, <1>6

LEMMA RepoTypes ==
  ASSUME NEW s \in Snapshot
  PROVE  /\ \A j \in VideoJob : [s EXCEPT !.job = j] \in Snapshot
         /\ \A active \in SUBSET Attempts, j \in VideoJob : [s EXCEPT !.active = active, !.job = j] \in Snapshot
         /\ \A active \in SUBSET Attempts, archive \in SUBSET (Attempts \X Results) :
              [s EXCEPT !.active = active, !.archive = archive] \in Snapshot
  BY DEF Snapshot

PCs == {"idle", "received", "load", "cleanup", "check", "store", "raised"} \cup Pipeline

LEMMA WorkTypes ==
  ASSUME NEW w \in Invocation, NEW pc \in PCs
  PROVE  /\ [w EXCEPT !.pc = pc] \in Invocation
         /\ \A s \in Snapshot : [w EXCEPT !.pc = pc, !.repo = s] \in Invocation
         /\ \A s \in Snapshot, price \in Nat : [w EXCEPT !.pc = pc, !.repo = s, !.price = price] \in Invocation
         /\ \A s \in Snapshot, r \in Results : [w EXCEPT !.pc = pc, !.repo = s, !.result = r] \in Invocation
         /\ \A pass \in BOOLEAN : [w EXCEPT !.pc = pc, !.pass = pass] \in Invocation
         /\ \A d \in SUBSET Attempts : [w EXCEPT !.pc = pc, !.deletes = d] \in Invocation
         /\ \A mode \in {"execute", "reconcile"} : [w EXCEPT !.pc = pc, !.mode = mode] \in Invocation
         /\ \A seen \in BOOLEAN : [w EXCEPT !.pc = pc, !.seen = seen] \in Invocation
  BY DEF Invocation, PCs

LEMMA FailTypes ==
  ASSUME NEW w \in Invocation
  PROVE  FailJob(w) \in Invocation
  <1> DEFINE j == [w.repo.job EXCEPT !.status = "FAILED", !.shot = "FAILED"]
             s == [w.repo EXCEPT !.job = j]
  <1>1. w.repo \in Snapshot /\ w.repo.job \in VideoJob
    BY DEF Invocation, Snapshot
  <1>2. j \in VideoJob
    BY <1>1, JobTypes DEF Ending, JobEnded
  <1>3. s \in Snapshot
    BY <1>1, <1>2, RepoTypes
  <1>4. FailJob(w) = [w EXCEPT !.pc = "flush", !.repo = s]
    BY DEF FailJob, Invocation, Snapshot, VideoJob
  <1>5. "flush" \in PCs
    BY DEF PCs, Pipeline
  <1> HIDE DEF s
  <1>6. [w EXCEPT !.pc = "flush", !.repo = s] \in Invocation
    BY <1>3, <1>5, WorkTypes
  <1> QED
    BY <1>4, <1>6

LEMMA RetryTypes ==
  ASSUME NEW w \in Invocation
  PROVE  RetryOrFail(w) \in Invocation
  <1> DEFINE j == NextAttempt(w.repo.job)
             s == [w.repo EXCEPT !.job = j]
  <1>1. CASE w.mode = "execute" /\ w.repo.job.attempt < RetryLimit
    <2>1. w.repo \in Snapshot /\ w.repo.job \in VideoJob
      BY DEF Invocation, Snapshot
    <2>2. j \in VideoJob
      BY <1>1, <2>1, JobTypes DEF NextAttempt
    <2>3. s \in Snapshot
      BY <2>1, <2>2, RepoTypes
    <2>4. RetryOrFail(w) = [w EXCEPT !.pc = "advance", !.repo = s]
      BY <1>1 DEF RetryOrFail, Invocation, Snapshot
    <2>5. "advance" \in PCs
      BY DEF PCs, Pipeline
    <2> HIDE DEF s
    <2>6. [w EXCEPT !.pc = "advance", !.repo = s] \in Invocation
      BY <2>3, <2>5, WorkTypes
    <2> QED
      BY <2>4, <2>6
  <1> QED
    BY <1>1, FailTypes DEF RetryOrFail

LEMMA ArchivedTypes ==
  ASSUME NEW w \in Invocation, NEW r \in Results, NEW pc \in PCs
  PROVE  [Archived(w, r) EXCEPT !.pc = pc] \in Invocation
  <1> DEFINE n == w.repo.job.attempt
             s == [w.repo EXCEPT !.active = w.repo.active \ {n}, !.archive = w.repo.archive \cup {<<n, r>>}]
  <1>1. w.repo \in Snapshot /\ w.repo.job \in VideoJob /\ n \in Attempts
    BY DEF Invocation, Snapshot, VideoJob
  <1>2. s \in Snapshot
    <2>1. w.repo.active \in SUBSET Attempts /\ w.repo.archive \in SUBSET (Attempts \X Results)
      BY <1>1 DEF Snapshot
    <2>2. w.repo.active \ {n} \in SUBSET Attempts /\ w.repo.archive \cup {<<n, r>>} \in SUBSET (Attempts \X Results)
      BY <1>1, <2>1
    <2> QED
      BY <1>1, <2>2, RepoTypes
  <1>3. [Archived(w, r) EXCEPT !.pc = pc] = [w EXCEPT !.pc = pc, !.repo = s, !.result = r]
    BY DEF Archived, Invocation, Snapshot
  <1> HIDE DEF s
  <1> QED
    BY <1>2, <1>3, WorkTypes

LEMMA IdleTypes == Idle \in Invocation /\ NoRow \in Snapshot
  <1>1. NewJob \in VideoJob
    BY VideoAssumption DEF NewJob, VideoJob, Attempts
  <1>2. NoRow \in Snapshot
    BY <1>1 DEF NoRow, Snapshot
  <1> QED
    BY <1>2 DEF Idle, Invocation

LEMMA TypeInit == Init => TypeOK
  <1> SUFFICES ASSUME Init PROVE TypeOK
    OBVIOUS
  <1>1. row \in Snapshot /\ work \in Invocation
    BY IdleTypes DEF Init
  <1>2. /\ task \in [status : {"pending", "running", "waiting_external"} \cup Ended, cancel : BOOLEAN]
        /\ provider \in [Attempts -> {"none", "RUNNING"} \cup Results]
    BY DEF Init
  <1>3. /\ outputs \subseteq Attempts /\ deleted \subseteq Attempts /\ artifacts \subseteq Attempts
        /\ quoted \in Nat /\ faults \in 0 .. MaxFaults
    BY VideoAssumption DEF Init
  <1>4. final \in BOOLEAN /\ stranded \in BOOLEAN /\ reconciled \in BOOLEAN
    BY DEF Init
  <1> QED
    BY <1>1, <1>2, <1>3, <1>4 DEF TypeOK

\* The worker's own steps keep the type of its invocation.
LEMMA WorkStep ==
  ASSUME Inv, Next
  PROVE  work' \in Invocation
  <1> USE DEF At, job
  <1>0. /\ work \in Invocation /\ work.repo \in Snapshot /\ row \in Snapshot /\ job \in VideoJob
        /\ task.cancel \in BOOLEAN /\ job.attempt \in Attempts /\ Attempts \subseteq Nat
        /\ provider \in [Attempts -> {"none", "RUNNING"} \cup Results]
    BY VideoAssumption DEF Inv, TypeOK, Invocation, Snapshot, VideoJob, Attempts
  <1>1. \A pc \in PCs : [work EXCEPT !.pc = pc] \in Invocation
    BY <1>0, WorkTypes
  <1>2. {"idle", "received", "load", "cleanup", "check", "store", "raised"} \subseteq PCs /\ Pipeline \subseteq PCs
    BY DEF PCs
  <1>3. ASSUME NEW pc \in PCs, NEW s \in Snapshot, work' = [work EXCEPT !.pc = pc, !.repo = s]
        PROVE  work' \in Invocation
    BY <1>0, <1>3, WorkTypes
  <1>4. ASSUME NEW pc \in PCs, NEW j \in VideoJob, work' = [work EXCEPT !.pc = pc, !.repo.job = j]
        PROVE  work' \in Invocation
    <2>1. [work.repo EXCEPT !.job = j] \in Snapshot
      BY <1>0, RepoTypes
    <2>2. work' = [work EXCEPT !.pc = pc, !.repo = [work.repo EXCEPT !.job = j]]
      BY <1>0, <1>4 DEF Invocation, Snapshot
    <2> QED
      BY <2>1, <2>2, <1>3
  <1>5. CASE ReadCancellation
    <2>1. [Idle EXCEPT !.pc = "received", !.seen = task.cancel] \in Invocation
      BY <1>0, <1>2, IdleTypes, WorkTypes
    <2> QED
      BY <2>1, <1>5 DEF ReadCancellation
  <1>6. CASE Claim
    <2>1. \A mode \in {"execute", "reconcile"} : [work EXCEPT !.pc = "load", !.mode = mode] \in Invocation
      BY <1>0, <1>2, WorkTypes
    <2> QED
      BY <2>1, <1>6 DEF Claim
  <1>7. CASE LoadNothing
    <2>1. CASE work.mode = "execute"
      <3>1. [NoRow EXCEPT !.exists = TRUE] \in Snapshot
        BY IdleTypes DEF Snapshot
      <3> QED
        BY <3>1, <2>1, <1>7, <1>2, <1>3 DEF LoadNothing, Pipeline
    <2>2. CASE work.mode # "execute"
      <3>1. [work.repo.job EXCEPT !.status = "CANCELLED"] \in VideoJob
        BY <1>0, JobTypes DEF Ending, JobEnded
      <3>2. work' = [work EXCEPT !.pc = "store", !.repo.job = [work.repo.job EXCEPT !.status = "CANCELLED"]]
        BY <2>2, <1>7, <1>0 DEF LoadNothing, Invocation, Snapshot, VideoJob
      <3> HIDE DEF job
      <3> QED
        BY <3>1, <3>2, <1>2, <1>4
    <2> QED
      BY <2>1, <2>2
  <1>8. CASE LoadRow
    <2>1. PICK pc \in {"flush", "poll", "cancel"} : work' = [work EXCEPT !.pc = pc, !.repo = row]
      BY <1>8, <1>0 DEF LoadRow, Invocation
    <2> QED
      BY <2>1, <1>0, <1>2, <1>3 DEF Pipeline
  <1>9. ASSUME NEW price \in Prices, Estimate(price)
        PROVE  work' \in Invocation
    <2>1. price \in Nat
      BY VideoAssumption
    <2>2. CASE Affordable(price)
      <3> DEFINE j == [work.repo.job EXCEPT !.estimated = work.repo.job.estimated + price]
                 s == [work.repo EXCEPT !.job = j]
      <3>1. j \in VideoJob
        BY <2>1, <1>0, JobTypes
      <3> HIDE DEF j
      <3>2. s \in Snapshot
        BY <3>1, <1>0, RepoTypes
      <3>3. work' = [work EXCEPT !.pc = "submit", !.repo = s, !.price = price]
        BY <2>2, <1>9, <1>0 DEF Estimate, Invocation, Snapshot, VideoJob, j
      <3> HIDE DEF s
      <3>4. "submit" \in PCs
        BY <1>2 DEF Pipeline
      <3> QED
        BY <3>2, <3>3, <3>4, <2>1, <1>0, WorkTypes
    <2> QED
      BY <2>2, <1>9, <1>0, FailTypes DEF Estimate
  <1>10. CASE EstimateRaises \/ (\E accepted \in BOOLEAN : SubmitRaises(accepted))
    BY <1>10, <1>0, FailTypes DEF EstimateRaises, SubmitRaises
  <1>11. CASE Submit
    <2> DEFINE j == [work.repo.job EXCEPT !.status = "WAITING_EXTERNAL", !.shot = "WAITING_EXTERNAL"]
               active == work.repo.active \cup {work.repo.job.attempt}
               s == [work.repo EXCEPT !.active = active, !.job = j]
    <2>1. j \in VideoJob
      BY <1>0, JobTypes DEF Ending
    <2>2. active \in SUBSET Attempts
      BY <1>0 DEF Snapshot
    <2> HIDE DEF j, active
    <2>3. s \in Snapshot
      BY <2>1, <2>2, <1>0, RepoTypes
    <2>4. work' = [work EXCEPT !.pc = "flush", !.repo = s]
      BY <1>11, <1>0 DEF Submit, Invocation, Snapshot, VideoJob, j, active
    <2> HIDE DEF s
    <2>5. "flush" \in PCs
      BY <1>2 DEF Pipeline
    <2> QED
      BY <2>3, <2>4, <2>5, <1>3
  <1>12. ASSUME NEW r \in Results, NEW pc \in PCs, work' = [Archived(work, r) EXCEPT !.pc = pc]
         PROVE  work' \in Invocation
    BY <1>12, <1>0, ArchivedTypes
  <1>13. ASSUME NEW pc \in Pipeline, work' = [work EXCEPT !.pc = pc]
         PROVE  work' \in Invocation
    BY <1>13, <1>1, <1>2
  <1>14. CASE Poll
    <2>1. CASE provider[job.attempt] = "RUNNING"
      BY <2>1, <1>14, <1>13 DEF Poll, Pipeline
    <2>2. CASE provider[job.attempt] \in Results
      <3>1. "settle" \in PCs /\ work' = [Archived(work, provider[job.attempt]) EXCEPT !.pc = "settle"]
        BY <2>2, <1>14, <1>2 DEF Poll, Pipeline, Results
      <3> QED
        BY <2>2, <3>1, <1>12
    <2>3. provider[job.attempt] # "none"
      BY <1>14 DEF Poll, Inv, PipelineInv, Open, Pipeline
    <2> QED
      BY <2>1, <2>2, <2>3, <1>0
  <1>15. CASE PollRaises
    BY <1>15, <1>13 DEF PollRaises, Pipeline
  <1>16. CASE (\E stopped \in BOOLEAN : CancelUnproven(stopped)) \/ CancelProven
    BY <1>16, <1>13 DEF CancelUnproven, CancelProven, Pipeline
  <1>17. CASE CancelTooLate
    <2>1. provider[job.attempt] \in Results /\ "settle" \in PCs
      BY <1>17, <1>2 DEF CancelTooLate, Results, Pipeline
    <2> QED
      BY <2>1, <1>17, <1>12 DEF CancelTooLate
  <1>18. CASE Revoke
    <2> DEFINE w == [Archived(work, "CANCELLED") EXCEPT !.pc = "flush"]
               j == [work.repo.job EXCEPT !.status = "CANCELLED", !.shot = "CANCELLED"]
    <2>1. w \in Invocation /\ "flush" \in PCs
      BY <1>0, <1>2, ArchivedTypes DEF Results, Pipeline
    <2>2. w.repo \in Snapshot
      BY <2>1 DEF Invocation
    <2>3. j \in VideoJob
      BY <1>0, JobTypes DEF Ending, JobEnded
    <2>4. Archived(work, "CANCELLED") \in Invocation
      BY <2>1, <1>0, ArchivedTypes DEF Archived, Invocation, Snapshot
    <2> HIDE DEF j
    <2>5. [w.repo EXCEPT !.job = j] \in Snapshot
      BY <2>2, <2>3, RepoTypes
    <2>6. work' = [w EXCEPT !.pc = "flush", !.repo = [w.repo EXCEPT !.job = j]]
      BY <2>4, <1>18, <1>0 DEF Revoke, Invocation, Snapshot, j
    <2> HIDE DEF w
    <2>7. [w EXCEPT !.pc = "flush", !.repo = [w.repo EXCEPT !.job = j]] \in Invocation
      BY <2>1, <2>5, WorkTypes
    <2> QED
      BY <2>6, <2>7
  <1>19. CASE Settle
    BY <1>19, <1>0, <1>13, FailTypes, RetryTypes DEF Settle, Pipeline
  <1>20. Noted(work) \in Invocation
    <2>2. work.pc \in PCs /\ work.deletes \cup {work.repo.job.attempt} \in SUBSET Attempts
      BY <1>0 DEF Invocation, PCs
    <2>1. [work EXCEPT !.pc = work.pc, !.deletes = work.deletes \cup {work.repo.job.attempt}] \in Invocation
      BY <1>0, <2>2, WorkTypes
    <2> QED
      BY <2>1, <1>0 DEF Noted, Invocation
  <1>21. ASSUME NEW pass \in BOOLEAN, Collect(pass)
         PROVE  work' \in Invocation
    BY <1>21, <1>20, <1>2, WorkTypes DEF Collect, Pipeline
  <1>22. CASE CollectRaises
    <2>1. PICK w \in {work, Noted(work)} : work' = RetryOrFail(w)
      BY <1>22 DEF CollectRaises
    <2> QED
      BY <2>1, <1>0, <1>20, RetryTypes
  <1>23. CASE CreateClip
    <2>1. CASE work.pass
      <3>1. [work.repo.job EXCEPT !.shot = "READY"] \in VideoJob
        BY <1>0, JobTypes
      <3>2. work' = [work EXCEPT !.pc = "compose", !.repo.job = [work.repo.job EXCEPT !.shot = "READY"]]
        BY <2>1, <1>23, <1>0 DEF CreateClip, Invocation, Snapshot, VideoJob
      <3>3. "compose" \in PCs
        BY <1>2 DEF Pipeline
      <3> QED
        BY <3>1, <3>2, <3>3, <1>4
    <2> QED
      BY <2>1, <1>23, <1>0, RetryTypes DEF CreateClip
  <1>24. ASSUME NEW pass \in BOOLEAN, Compose(pass)
         PROVE  work' \in Invocation
    <2> DEFINE j == [work.repo.job EXCEPT !.status = "COMPOSING"]
               w == [work EXCEPT !.pc = "final", !.pass = pass]
    <2>1. j \in VideoJob
      BY <1>0, JobTypes
    <2>2. "final" \in PCs
      BY <1>2 DEF Pipeline
    <2>3. w \in Invocation
      BY <2>2, <1>0, WorkTypes
    <2>4. w.repo = work.repo
      BY <1>0 DEF Invocation
    <2>5. [work.repo EXCEPT !.job = j] \in Snapshot
      BY <2>1, <1>0, RepoTypes
    <2>6. work' = [w EXCEPT !.pc = "final", !.repo = [work.repo EXCEPT !.job = j]]
      BY <1>24, <1>0 DEF Compose, Invocation, Snapshot, VideoJob
    <2> HIDE DEF j, w
    <2>7. [w EXCEPT !.pc = "final", !.repo = [work.repo EXCEPT !.job = j]] \in Invocation
      BY <2>2, <2>3, <2>5, WorkTypes
    <2> QED
      BY <2>6, <2>7
  <1>25. ASSUME NEW pc \in PCs, NEW status \in {"SUBMITTING", "COMPOSING"} \cup Ending,
                work' = [work EXCEPT !.pc = pc, !.repo.job.status = status]
         PROVE  work' \in Invocation
    <2> DEFINE j == [work.repo.job EXCEPT !.status = status]
    <2>1. j \in VideoJob
      BY <1>0, JobTypes
    <2>2. work' = [work EXCEPT !.pc = pc, !.repo.job = j]
      BY <1>25, <1>0 DEF Invocation, Snapshot, VideoJob
    <2> HIDE DEF j
    <2> QED
      BY <2>1, <2>2, <1>4
  <1>26. CASE ComposeRaises \/ CreateFinal
    <2>1. "flush" \in PCs
      BY <1>2 DEF Pipeline
    <2>2. \E status \in {"COMPLETED", "FAILED"} : work' = [work EXCEPT !.pc = "flush", !.repo.job.status = status]
      BY <1>26 DEF ComposeRaises, CreateFinal
    <2> QED
      BY <2>1, <2>2, <1>25 DEF Ending, JobEnded
  <1>27. CASE Flush
    BY <1>27, <1>1, <1>2 DEF Flush
  <1>28. ASSUME NEW gone \in SUBSET work.deletes, Cleanup(gone)
         PROVE  work' \in Invocation
    <2>1. \A pc \in {"store", "raised", "check"} : [work EXCEPT !.pc = pc, !.deletes = {}] \in Invocation
      BY <1>0, <1>2, WorkTypes
    <2>2. \E pc \in {"store", "raised", "check"} : work' = [work EXCEPT !.pc = pc, !.deletes = {}]
      BY <1>28, <1>0 DEF Cleanup, Invocation
    <2> QED
      BY <2>1, <2>2
  <1>29. CASE CheckCancellation
    <2>1. [Idle EXCEPT !.pc = "load", !.mode = "reconcile"] \in Invocation
      BY <1>2, IdleTypes, WorkTypes
    <2> QED
      BY <2>1, <1>29, <1>1, <1>2 DEF CheckCancellation
  <1>30. CASE StoreResult \/ FailTask \/ Crash
    BY <1>30, IdleTypes DEF StoreResult, FailTask, Crash
  <1>31. CASE \E committed \in BOOLEAN : DatabaseRaises(committed)
    BY <1>31, <1>1, <1>2 DEF DatabaseRaises
  <1>32. CASE RequestCancel \/ (\E n \in Attempts, result \in Results : ProviderEnds(n, result))
    BY <1>32, <1>0 DEF RequestCancel, ProviderEnds
  <1>33. CASE Invoke
    BY <1>33, <1>5, <1>6, <1>7, <1>8, <1>9, <1>11, <1>14, <1>16, <1>17, <1>18, <1>19, <1>21, <1>23,
      <1>24, <1>26, <1>27, <1>28, <1>29, <1>30 DEF Invoke
  <1>34. CASE Faulty
    BY <1>34, <1>10, <1>15, <1>22, <1>26, <1>30, <1>31 DEF Faulty
  <1> QED
    BY <1>32, <1>33, <1>34 DEF Next

\* What a step may do to what lies outside the invocation.
LEMMA Effects ==
  ASSUME TypeOK, Next
  PROVE  /\ task' \in {task} \cup {[task EXCEPT !.cancel = TRUE]} \cup
              {[task EXCEPT !.status = s] : s \in {"running", "failed", TaskStatus}}
         /\ row' = row \/ (At("flush") /\ row' = work.repo)
         /\ \/ provider' = provider
            \/ \E n \in Attempts, r \in Results : provider[n] = "RUNNING" /\ provider' = [provider EXCEPT ![n] = r]
            \/ At("submit") /\ provider' = [provider EXCEPT ![job.attempt] = "RUNNING"]
         /\ outputs' \subseteq Attempts
         /\ deleted' = deleted \/ (At("cleanup") /\ \E gone \in SUBSET work.deletes : deleted' = deleted \cup gone)
         /\ artifacts' = artifacts \/ artifacts' = artifacts \cup {job.attempt}
         /\ final' \in BOOLEAN /\ (final => final')
         /\ quoted' = quoted \/ (At("submit") /\ quoted' = quoted + work.price)
         /\ faults' = faults \/ (faults < MaxFaults /\ faults' = faults + 1)
         /\ stranded' = stranded \/ stranded' = TRUE
         /\ reconciled' \in BOOLEAN /\ (reconciled => reconciled')
         /\ reconciled' => reconciled \/ (At("load") /\ work.mode = "reconcile")
  <1> USE DEF Next, RequestCancel, ProviderEnds, Invoke, ReadCancellation, Claim, LoadNothing, LoadRow, Estimate,
        Submit, Poll, CancelUnproven, CancelProven, CancelTooLate, Revoke, Settle, Collect, CreateClip, Compose,
        CreateFinal, Flush, Cleanup, CheckCancellation, StoreResult, FailTask, Faulty, EstimateRaises,
        PollRaises, CollectRaises, ComposeRaises, Crash, SubmitRaises, DatabaseRaises, Media, History
  <1>0. /\ job.attempt \in Attempts /\ work.deletes \subseteq Attempts /\ outputs \subseteq Attempts
        /\ provider \in [Attempts -> {"none", "RUNNING"} \cup Results]
    BY DEF TypeOK, Invocation, Snapshot, VideoJob, job
  <1>1. task' \in {task} \cup {[task EXCEPT !.cancel = TRUE]} \cup
              {[task EXCEPT !.status = s] : s \in {"running", "failed", TaskStatus}}
    OBVIOUS
  <1>2. row' = row \/ (At("flush") /\ row' = work.repo)
    OBVIOUS
  <1>3. \/ provider' = provider
        \/ \E n \in Attempts, r \in Results : provider[n] = "RUNNING" /\ provider' = [provider EXCEPT ![n] = r]
        \/ At("submit") /\ provider' = [provider EXCEPT ![job.attempt] = "RUNNING"]
    <2>1. CASE CancelProven
      <3>1. provider' = [provider EXCEPT ![job.attempt] = "CANCELLED"]
        BY <2>1
      <3>2. provider[job.attempt] = "CANCELLED" => provider' = provider
        BY <3>1, <1>0
      <3>3. provider[job.attempt] \in {"RUNNING", "CANCELLED"} /\ "CANCELLED" \in Results
        BY <2>1 DEF Results
      <3> QED
        BY <3>1, <3>2, <3>3, <1>0
    <2>2. ASSUME NEW stopped \in BOOLEAN, CancelUnproven(stopped)
          PROVE  provider' = provider
                 \/ (provider[job.attempt] = "RUNNING" /\ provider' = [provider EXCEPT ![job.attempt] = "CANCELLED"])
      BY <2>2
    <2>3. CASE \E stopped \in BOOLEAN : CancelUnproven(stopped)
      BY <2>2, <2>3, <1>0 DEF Results
    <2>4. CASE Submit \/ (\E accepted \in BOOLEAN : SubmitRaises(accepted))
      BY <2>4 DEF Accepted
    <2>5. CASE \E n \in Attempts, r \in Results : ProviderEnds(n, r)
      BY <2>5
    <2> QED
      BY <2>1, <2>3, <2>4, <2>5
  <1>4. outputs' \subseteq Attempts
    BY <1>0 DEF Staged
  <1>5. deleted' = deleted \/ (At("cleanup") /\ \E gone \in SUBSET work.deletes : deleted' = deleted \cup gone)
    OBVIOUS
  <1>6. artifacts' = artifacts \/ artifacts' = artifacts \cup {job.attempt}
    OBVIOUS
  <1>7. final' \in BOOLEAN /\ (final => final')
    <2>1. final \in BOOLEAN
      BY DEF TypeOK
    <2>2. final' = final \/ final' = TRUE \/ (\E committed \in BOOLEAN : final' = (final \/ (committed /\ At("final"))))
      OBVIOUS
    <2> QED
      BY <2>1, <2>2
  <1>8. quoted' = quoted \/ (At("submit") /\ quoted' = quoted + work.price)
    OBVIOUS
  <1>9. faults' = faults \/ (faults < MaxFaults /\ faults' = faults + 1)
    BY DEF Fault
  <1>10. stranded' = stranded \/ stranded' = TRUE
    OBVIOUS
  <1>11. /\ reconciled' \in BOOLEAN /\ (reconciled => reconciled')
         /\ reconciled' => reconciled \/ (At("load") /\ work.mode = "reconcile")
    <2>1. reconciled \in BOOLEAN
      BY DEF TypeOK
    <2>2. ASSUME LoadNothing \/ LoadRow
          PROVE  At("load") /\ reconciled' = (reconciled \/ work.mode = "reconcile")
      BY <2>2
    <2>3. CASE LoadNothing \/ LoadRow
      BY <2>1, <2>2, <2>3
    <2>4. CASE reconciled' = reconciled
      BY <2>1, <2>4
    <2> QED
      BY <2>3, <2>4
  <1> QED
    BY <1>1, <1>2, <1>3, <1>4, <1>5, <1>6, <1>7, <1>8, <1>9, <1>10, <1>11

LEMMA TypeStep == Inv /\ Next => TypeOK'
  <1> SUFFICES ASSUME Inv, Next PROVE TypeOK'
    OBVIOUS
  <1>0. /\ TypeOK /\ work \in Invocation /\ job \in VideoJob /\ job.attempt \in Attempts
        /\ work.repo \in Snapshot /\ work.price \in Nat /\ work.deletes \subseteq Attempts
    BY DEF Inv, TypeOK, Invocation, Snapshot, VideoJob, job
  <1>1. work' \in Invocation
    BY WorkStep
  <1>2. task' \in [status : {"pending", "running", "waiting_external"} \cup Ended, cancel : BOOLEAN]
    <2>1. /\ task \in [status : {"pending", "running", "waiting_external"} \cup Ended, cancel : BOOLEAN]
          /\ TaskStatus \in {"pending", "running", "waiting_external"} \cup Ended
      BY <1>0 DEF TypeOK, TaskStatus, Ended
    <2>2. task' \in {task} \cup {[task EXCEPT !.cancel = TRUE]} \cup
            {[task EXCEPT !.status = s] : s \in {"running", "failed", TaskStatus}}
      BY <1>0, Effects
    <2> QED
      BY <2>1, <2>2 DEF Ended
  <1>3. row' \in Snapshot /\ outputs' \subseteq Attempts
    BY <1>0, Effects DEF TypeOK
  <1>4. provider' \in [Attempts -> {"none", "RUNNING"} \cup Results]
    BY <1>0, Effects DEF TypeOK
  <1>5. deleted' \subseteq Attempts /\ artifacts' \subseteq Attempts
    BY <1>0, Effects DEF TypeOK
  <1>6. quoted' \in Nat /\ faults' \in 0 .. MaxFaults
    <2>1. quoted \in Nat /\ faults \in 0 .. MaxFaults /\ MaxFaults \in Nat
      BY <1>0, VideoAssumption DEF TypeOK
    <2>2. quoted' = quoted \/ quoted' = quoted + work.price
      BY <1>0, Effects
    <2>3. faults' = faults \/ (faults < MaxFaults /\ faults' = faults + 1)
      BY <1>0, Effects
    <2> QED
      BY <2>1, <2>2, <2>3, <1>0
  <1>7. final' \in BOOLEAN
    BY <1>0, Effects DEF TypeOK
  <1>8. stranded' \in BOOLEAN
    BY <1>0, Effects DEF TypeOK
  <1>9. reconciled' \in BOOLEAN
    BY <1>0, Effects DEF TypeOK
  <1> QED
    BY <1>1, <1>2, <1>3, <1>4, <1>5, <1>6, <1>7, <1>8, <1>9 DEF TypeOK

\* What a snapshot says stays so.
LEMMA ToldStays ==
  ASSUME TypeOK, Next, NEW s \in Snapshot, Told(s),
         At("submit") => provider[job.attempt] = "none"
  PROVE  /\ Told(s)'
         /\ \A n \in Attempts : provider[n] # "none" => provider'[n] # "none"
         /\ \A n \in Attempts : provider[n] \in Results => provider'[n] = provider[n]
         /\ \A n \in Attempts : ~At("submit") /\ provider[n] = "none" => provider'[n] = "none"
  <1>0. /\ job.attempt \in Attempts /\ provider \in [Attempts -> {"none", "RUNNING"} \cup Results]
        /\ s.archive \subseteq Attempts \X Results
    BY DEF TypeOK, Invocation, Snapshot, VideoJob, job
  <1>1. \A n \in Attempts : provider[n] # "none" => provider'[n] # "none"
    BY <1>0, Effects DEF Results
  <1>2. \A n \in Attempts : provider[n] \in Results => provider'[n] = provider[n]
    BY <1>0, Effects DEF Results
  <1>3. \A n \in Attempts : ~At("submit") /\ provider[n] = "none" => provider'[n] = "none"
    BY <1>0, Effects DEF Results
  <1>4. Told(s)'
    <2>1. \A entry \in s.archive : entry[1] \in Attempts /\ entry[2] \in Results
      BY <1>0
    <2> QED
      BY <1>2, <2>1 DEF Told
  <1> QED
    BY <1>1, <1>2, <1>3, <1>4

-----------------------------------------------------------------------------
(* What the steps of the pipeline leave in the fields of an invocation. *)

\* Everything but the job and the place is as in w.
Same(v, w) ==
  /\ v.seen = w.seen /\ v.mode = w.mode /\ v.price = w.price /\ v.result = w.result
  /\ v.pass = w.pass /\ v.deletes = w.deletes /\ v.repo.exists = w.repo.exists

SameRepo(v, w) == v.repo.active = w.repo.active /\ v.repo.archive = w.repo.archive

LEMMA FailFields ==
  ASSUME NEW w \in Invocation
  PROVE  LET v == FailJob(w)
         IN  /\ Same(v, w) /\ SameRepo(v, w) /\ v.pc = "flush"
             /\ v.repo.job.status = "FAILED" /\ v.repo.job.shot = "FAILED"
             /\ v.repo.job.attempt = w.repo.job.attempt
  <1>1. w.repo.job \in VideoJob
    BY DEF Invocation, Snapshot
  <1> DEFINE j == [w.repo.job EXCEPT !.status = "FAILED", !.shot = "FAILED"]
  <1>2. j.status = "FAILED" /\ j.shot = "FAILED" /\ j.attempt = w.repo.job.attempt
    BY <1>1 DEF VideoJob
  <1>3. FailJob(w) = [w EXCEPT !.pc = "flush", !.repo.job = j]
    BY DEF FailJob
  <1> DEFINE v == [w EXCEPT !.pc = "flush", !.repo.job = j]
  <1> HIDE DEF j
  <1>4. Same(v, w) /\ SameRepo(v, w) /\ v.pc = "flush" /\ v.repo.job = j
    BY DEF Invocation, Snapshot, Same, SameRepo
  <1>5. FailJob(w) = v
    BY <1>3
  <1> HIDE DEF v
  <1> QED
    BY <1>2, <1>4, <1>5

LEMMA RetryFields ==
  ASSUME NEW w \in Invocation
  PROVE  LET v == RetryOrFail(w)
         IN  \/ v = FailJob(w)
             \/ /\ Same(v, w) /\ SameRepo(v, w) /\ v.pc = "advance" /\ w.mode = "execute"
                /\ w.repo.job.attempt < RetryLimit /\ v.repo.job.attempt = w.repo.job.attempt + 1
                /\ v.repo.job.estimated = w.repo.job.estimated
  <1> DEFINE j == NextAttempt(w.repo.job)
  <1>1. CASE w.mode = "execute" /\ w.repo.job.attempt < RetryLimit
    <2>1. w.repo.job \in VideoJob
      BY DEF Invocation, Snapshot
    <2>2. j.attempt = w.repo.job.attempt + 1 /\ j.estimated = w.repo.job.estimated
      BY <2>1 DEF VideoJob, NextAttempt
    <2>3. RetryOrFail(w) = [w EXCEPT !.pc = "advance", !.repo.job = j]
      BY <1>1 DEF RetryOrFail
    <2> DEFINE v == [w EXCEPT !.pc = "advance", !.repo.job = j]
    <2> HIDE DEF j
    <2>4. Same(v, w) /\ SameRepo(v, w) /\ v.pc = "advance" /\ v.repo.job = j
      BY DEF Invocation, Snapshot, Same, SameRepo
    <2>5. RetryOrFail(w) = v
      BY <2>3
    <2> HIDE DEF v
    <2> QED
      BY <1>1, <2>2, <2>4, <2>5
  <1> QED
    BY <1>1 DEF RetryOrFail

LEMMA ArchivedFields ==
  ASSUME NEW w \in Invocation, NEW r, NEW pc
  PROVE  LET v == [Archived(w, r) EXCEPT !.pc = pc]
         IN  /\ v.pc = pc /\ v.result = r /\ v.repo.job = w.repo.job /\ v.repo.exists = w.repo.exists
             /\ v.seen = w.seen /\ v.mode = w.mode /\ v.deletes = w.deletes
             /\ v.repo.archive = w.repo.archive \cup {<<w.repo.job.attempt, r>>}
             /\ v.repo.active = w.repo.active \ {w.repo.job.attempt}
  BY DEF Archived, Invocation, Snapshot

-----------------------------------------------------------------------------
(* Steps. *)

\* How an invocation goes on.
Outside == RequestCancel \/ (\E n \in Attempts, r \in Results : ProviderEnds(n, r))

GoesOn ==
  /\ work'.mode = work.mode /\ work'.seen = work.seen /\ (At("received") <=> work'.pc = "received")
  /\ work'.pc \in {"load"} \cup Pipeline => work.pc \in {"load"} \cup Pipeline
  /\ \/ Outside /\ work' = work
     \/ \E committed \in BOOLEAN : DatabaseRaises(committed) /\ work'.pc = "raised"
     \/ /\ task' = task /\ work.pc \in Working \ {"check", "store"}
        /\ work'.pc \in (Working \ {"load"}) \cup {"raised"}

LEMMA Moves ==
  ASSUME Inv, Next
  PROVE  \/ ReadCancellation \/ Claim \/ CheckCancellation
         \/ ((StoreResult \/ FailTask \/ Crash) /\ work' = Idle)
         \/ GoesOn
  <1> USE DEF At, job
  <1>0. work \in Invocation /\ Noted(work) \in Invocation /\ work.repo \in Snapshot /\ work.repo.job \in VideoJob
    <2>1. work \in Invocation /\ work.repo.job.attempt \in Attempts
      BY DEF Inv, TypeOK, Invocation, Snapshot, VideoJob
    <2>2. Noted(work) \in Invocation
      BY <2>1 DEF Noted, Invocation
    <2> QED
      BY <2>1, <2>2 DEF Invocation, Snapshot
  <1> DEFINE Kept(w) == w.mode = work.mode /\ w.seen = work.seen /\ w.pc \in Pipeline
  <1>1. Kept(FailJob(work)) /\ Kept(RetryOrFail(work)) /\ Kept(RetryOrFail(Noted(work)))
    <2>1. Noted(work).mode = work.mode /\ Noted(work).seen = work.seen
      BY <1>0 DEF Noted, Invocation
    <2> QED
      BY <2>1, <1>0, FailFields, RetryFields DEF Same, Pipeline
  <1>2. \A r \in Results, pc \in Pipeline : Kept([Archived(work, r) EXCEPT !.pc = pc])
    BY <1>0, ArchivedFields
  <1>3. ASSUME work.pc \in Pipeline, task' = task, Kept(work')
        PROVE  GoesOn
    BY <1>3 DEF GoesOn, Working, Pipeline
  <1> HIDE DEF Kept
  <1>4. CASE EstimateRaises \/ (\E accepted \in BOOLEAN : SubmitRaises(accepted)) \/ Settle \/ CollectRaises \/ CreateClip
             \/ (\E price \in Prices : Estimate(price))
    <2>1. work.pc \in Pipeline /\ task' = task
      BY <1>4 DEF EstimateRaises, SubmitRaises, Settle, CollectRaises, CreateClip, Estimate, Pipeline
    <2>2. ASSUME NEW price \in Prices, Estimate(price) PROVE Kept(work')
      <3>1. CASE Affordable(price)
        BY <3>1, <2>2, <1>0 DEF Estimate, Kept, Invocation, Snapshot, VideoJob, Pipeline
      <3> QED
        BY <3>1, <2>2, <1>1 DEF Estimate
    <2>3. ASSUME Settle PROVE Kept(work')
      <3>1. Kept([work EXCEPT !.pc = "collect"])
        BY <1>0 DEF Kept, Invocation, Pipeline
      <3> QED
        BY <2>3, <3>1, <1>1 DEF Settle
    <2>4. ASSUME CreateClip PROVE Kept(work')
      <3>1. Kept([work EXCEPT !.pc = "compose", !.repo.job.shot = "READY"])
        BY <1>0 DEF Kept, Invocation, Pipeline
      <3> QED
        BY <2>4, <3>1, <1>1 DEF CreateClip
    <2> QED
      BY <2>1, <2>2, <2>3, <2>4, <1>1, <1>3, <1>4 DEF EstimateRaises, SubmitRaises, CollectRaises
  <1>5. CASE Poll \/ CancelTooLate \/ Revoke
    <2>1. work.pc \in Pipeline /\ task' = task
      BY <1>5 DEF Poll, CancelTooLate, Revoke, Pipeline
    <2>2. ASSUME Poll \/ CancelTooLate PROVE Kept(work')
      <3>1. Kept([work EXCEPT !.pc = "flush"])
        BY <1>0 DEF Kept, Invocation, Pipeline
      <3>2. provider[job.attempt] \in {"RUNNING"} \cup Results
        BY <2>2, <1>0 DEF Inv, TypeOK, VideoJob, PipelineInv, Open, Pipeline, Poll, CancelTooLate, Results
      <3>3. work' = [work EXCEPT !.pc = "flush"] \/ (provider[job.attempt] \in Results
                      /\ work' = [Archived(work, provider[job.attempt]) EXCEPT !.pc = "settle"])
        BY <2>2, <3>2 DEF Poll, CancelTooLate, Results
      <3> QED
        BY <3>1, <3>3, <1>2 DEF Pipeline
    <2>3. ASSUME Revoke PROVE Kept(work')
      <3>1. Archived(work, "CANCELLED") \in Invocation
        <4>1. [Archived(work, "CANCELLED") EXCEPT !.pc = work.pc] \in Invocation
          BY <1>0, ArchivedTypes DEF Results, Invocation, PCs
        <4> QED
          BY <4>1, <1>0 DEF Archived, Invocation, Snapshot
      <3>2. Archived(work, "CANCELLED").mode = work.mode /\ Archived(work, "CANCELLED").seen = work.seen
        BY <1>0 DEF Archived, Invocation
      <3> QED
        BY <2>3, <3>1, <3>2 DEF Revoke, Kept, Invocation, Pipeline
    <2> QED
      BY <2>1, <2>2, <2>3, <1>3, <1>5
  <1>6. CASE Submit \/ PollRaises \/ (\E stopped \in BOOLEAN : CancelUnproven(stopped)) \/ CancelProven
             \/ (\E pass \in BOOLEAN : Collect(pass) \/ Compose(pass)) \/ ComposeRaises \/ CreateFinal
    <2>1. work.pc \in Pipeline /\ task' = task
      BY <1>6 DEF Submit, PollRaises, CancelUnproven, CancelProven, Collect, Compose, ComposeRaises, CreateFinal, Pipeline
    <2>2. Kept(work')
      BY <1>6, <1>0 DEF Submit, PollRaises, CancelUnproven, CancelProven, Collect, Noted, Compose, ComposeRaises,
        CreateFinal, Pipeline, Kept, Invocation
    <2> QED
      BY <2>1, <2>2, <1>3
  <1>7. CASE LoadNothing \/ LoadRow \/ Flush \/ (\E gone \in SUBSET work.deletes : Cleanup(gone))
             \/ (\E committed \in BOOLEAN : DatabaseRaises(committed))
    <2>1. CASE LoadNothing
      BY <2>1, <1>0 DEF LoadNothing, Invocation, GoesOn, Working, Pipeline
    <2>2. CASE LoadRow
      BY <2>2, <1>0 DEF LoadRow, Invocation, GoesOn, Working, Pipeline
    <2>3. CASE Flush
      BY <2>3, <1>0 DEF Flush, Invocation, GoesOn, Working, Pipeline
    <2>4. CASE \E gone \in SUBSET work.deletes : Cleanup(gone)
      BY <2>4, <1>0 DEF Cleanup, Invocation, GoesOn, Working, Pipeline
    <2>5. ASSUME NEW committed \in BOOLEAN, DatabaseRaises(committed)
          PROVE  GoesOn
      <3>1. /\ work'.pc = "raised" /\ work'.mode = work.mode /\ work'.seen = work.seen /\ work.pc # "received"
        BY <2>5, <1>0 DEF DatabaseRaises, Invocation
      <3> QED
        BY <2>5, <3>1 DEF GoesOn, Pipeline
    <2> QED
      BY <2>1, <2>2, <2>3, <2>4, <2>5, <1>7
  <1>8. CASE Outside
    BY <1>8 DEF Outside, RequestCancel, ProviderEnds, GoesOn
  <1>9. CASE StoreResult \/ FailTask \/ Crash
    BY <1>9 DEF StoreResult, FailTask, Crash
  <1> QED
    BY <1>4, <1>5, <1>6, <1>7, <1>8, <1>9 DEF Next, Invoke, Faulty, Outside

LEMMA CancelStep == Inv /\ Next => CancelInv'
  <1> SUFFICES ASSUME Inv, Next PROVE CancelInv'
    OBVIOUS
  <1> USE DEF At
  <1>0. TypeOK /\ CancelInv /\ work \in Invocation
    BY DEF Inv, TypeOK
  <1>1. (task.cancel => task'.cancel)
    BY <1>0, Effects DEF TypeOK
  <1>2. /\ reconciled => reconciled'
        /\ reconciled' => reconciled \/ (At("load") /\ work.mode = "reconcile")
    BY <1>0, Effects
  <1>3. reconciled' => task'.cancel
    BY <1>0, <1>1, <1>2 DEF CancelInv
  <1>4. CASE ReadCancellation
    <2>1. work'.pc = "received" /\ work'.seen = task.cancel /\ task' = task
      BY <1>4, IdleTypes DEF ReadCancellation, Invocation
    <2> QED
      BY <2>1, <1>3 DEF CancelInv, Pipeline
  <1>5. CASE Claim
    <2>1. /\ work'.pc = "load" /\ work'.mode = (IF work.seen THEN "reconcile" ELSE "execute") /\ work'.seen = work.seen
          /\ At("received") /\ reconciled' = reconciled
      BY <1>5, <1>0 DEF Claim, History, Invocation
    <2> QED
      BY <2>1, <1>0, <1>1, <1>3 DEF CancelInv, Pipeline
  <1>6. CASE CheckCancellation
    <2>1. \/ work'.pc = "load" /\ work'.mode = "reconcile" /\ task.cancel
          \/ work'.pc = "store"
      BY <1>6, <1>0, IdleTypes DEF CheckCancellation, Invocation
    <2>2. work'.seen => task.cancel
      BY <1>6, <1>0 DEF CheckCancellation, Idle, Invocation, CancelInv
    <2> QED
      BY <2>1, <2>2, <1>1, <1>3 DEF CancelInv, Pipeline
  <1>7. CASE work' = Idle
    BY <1>7, <1>3 DEF CancelInv, Idle, Pipeline
  <1>8. CASE GoesOn
    <2>1. work'.seen => task'.cancel
      BY <1>8, <1>0, <1>1 DEF CancelInv, GoesOn
    <2>2. work'.pc = "received" /\ reconciled' => work'.seen
      BY <1>8, <1>0, <1>2 DEF CancelInv, GoesOn
    <2>3. work'.pc \in {"load"} \cup Pipeline =>
            (work'.mode = "reconcile" => task'.cancel) /\ (reconciled' => work'.mode = "reconcile")
      BY <1>8, <1>0, <1>1, <1>2 DEF CancelInv, GoesOn
    <2> QED
      BY <2>1, <2>2, <2>3, <1>3 DEF CancelInv
  <1> QED
    BY <1>4, <1>5, <1>6, <1>7, <1>8, Moves

\* What a step leaves of what snapshots say.
LEMMA Stays ==
  ASSUME Inv, Next
  PROVE  /\ \A s \in Snapshot : Told(s) => Told(s)'
         /\ \A s \in Snapshot : Waiting(s) => Waiting(s)'
         /\ \A n \in Attempts : provider[n] # "none" => provider'[n] # "none"
         /\ \A n \in Attempts : provider[n] \in Results => provider'[n] = provider[n]
         /\ ~At("submit") =>
              quoted' = quoted /\ \A n \in Attempts : provider[n] = "none" => provider'[n] = "none"
         /\ ~At("cleanup") => deleted' = deleted
         /\ artifacts \subseteq artifacts' /\ (final => final')
         /\ ~At("submit") /\ ~At("cleanup") => \A s \in Snapshot : Flushed(s) => Flushed(s)'
  <1> USE DEF At
  <1>0. /\ TypeOK /\ (At("submit") => provider[job.attempt] = "none")
    BY DEF Inv, PipelineInv, Open, Pipeline
  <1>1. \A s \in Snapshot : Told(s) => Told(s)'
    BY <1>0, ToldStays
  <1>2. /\ NoRow \in Snapshot /\ Told(NoRow)
    BY IdleTypes DEF Told, NoRow, NewJob, Attempts
  <1>3. /\ \A n \in Attempts : provider[n] # "none" => provider'[n] # "none"
        /\ \A n \in Attempts : provider[n] \in Results => provider'[n] = provider[n]
        /\ ~At("submit") => \A n \in Attempts : provider[n] = "none" => provider'[n] = "none"
    BY <1>0, <1>2, ToldStays
  <1>4. (~At("submit") => quoted' = quoted) /\ (~At("cleanup") => deleted' = deleted)
    BY <1>0, Effects
  <1>5. artifacts \subseteq artifacts' /\ (final => final')
    BY <1>0, Effects
  <1>6. \A s \in Snapshot : s.job.attempt \in Attempts
    BY DEF Snapshot, VideoJob
  <1>7. \A s \in Snapshot : Waiting(s) => Waiting(s)'
    BY <1>3, <1>6 DEF Waiting
  <1>8. ASSUME NEW s \in Snapshot, Flushed(s), ~At("submit"), ~At("cleanup")
        PROVE  Flushed(s)'
    <2>1. Told(s)' /\ Waiting(s)' /\ (Current(s) => Current(s)')
      BY <1>1, <1>3, <1>4, <1>7, <1>8 DEF Flushed, Current
    <2>2. \A r \in Results : provider[s.job.attempt] = r => provider'[s.job.attempt] = r
      BY <1>3, <1>6, <1>8
    <2>3. "SUCCEEDED" \in Results /\ "CANCELLED" \in Results
      BY DEF Results
    <2> QED
      BY <2>1, <2>2, <2>3, <1>4, <1>5, <1>8 DEF Flushed
  <1> QED
    BY <1>1, <1>3, <1>4, <1>5, <1>7, <1>8

LEMMA RowStep == Inv /\ Next => RowInv'
  <1> SUFFICES ASSUME Inv, Next PROVE RowInv'
    OBVIOUS
  <1> USE DEF At
  <1>0. TypeOK /\ RowInv /\ EndInv /\ row \in Snapshot /\ work.repo \in Snapshot
    BY DEF Inv, TypeOK, Invocation
  <1>1. row' = row \/ (At("flush") /\ row' = work.repo)
    BY <1>0, Effects
  <1>2. CASE At("flush") /\ row' = work.repo
    <2>1. Flushed(work.repo) /\ deleted' = deleted
      BY <1>0, <1>2, Stays DEF EndInv
    <2>2. Told(row)' /\ Waiting(row)'
      BY <2>1, <1>0, <1>2, Stays DEF Flushed, Told, Waiting
    <2> QED
      BY <2>1, <2>2, <1>2 DEF RowInv, Flushed
  <1>3. CASE row' = row
    <2>1. row.exists => Told(row)' /\ Waiting(row)'
      BY <1>0, <1>3, Stays DEF RowInv, Told, Waiting
    <2>2. CASE ~At("cleanup")
      BY <2>1, <2>2, <1>0, <1>3, Stays DEF RowInv
    <2>3. CASE At("cleanup")
      <3>1. row = work.repo /\ \A n \in work.deletes : n < row.job.attempt \/ row.job.shot # "WAITING_EXTERNAL"
        BY <2>3, <1>0 DEF EndInv, job
      <3>2. \A n \in deleted' : n \in deleted \/ n \in work.deletes
        BY <1>0, Effects
      <3> QED
        BY <2>1, <3>1, <3>2, <1>0, <1>3 DEF RowInv
    <2> QED
      BY <2>2, <2>3
  <1> QED
    BY <1>1, <1>2, <1>3

\* An untouched job stays so until its first invocation is on its way.
LEMMA UntouchedStays ==
  ASSUME Inv, Next, Untouched, ~At("submit"), ~At("cleanup"), ~At("flush")
  PROVE  Untouched'
  <1>1. /\ quoted' = quoted /\ deleted' = deleted /\ row' = row
        /\ \A n \in Attempts : provider[n] = "none" => provider'[n] = "none"
    BY Stays, Effects DEF Inv
  <1> QED
    BY <1>1 DEF Untouched

LEMMA StartStep == Inv /\ Next => StartInv'
  <1> SUFFICES ASSUME Inv, Next PROVE StartInv'
    OBVIOUS
  <1> USE DEF At
  <1>0. /\ TypeOK /\ StartInv /\ EndInv /\ work \in Invocation /\ row \in Snapshot
        /\ task \in [status : {"pending", "running", "waiting_external"} \cup Ended, cancel : BOOLEAN]
    BY DEF Inv, TypeOK
  <1>1. ASSUME row.exists, Flushed(row), row' = row, ~At("submit"), ~At("cleanup")
        PROVE  Flushed(row)'
    BY <1>0, <1>1, Stays DEF Flushed, Told, Waiting, Current
  <1>2. row' = row \/ At("flush")
    BY <1>0, Effects
  <1>3. CASE ReadCancellation
    <2>1. /\ task' = task /\ row' = row /\ task.status \in {"pending", "waiting_external"} /\ work'.pc = "received"
          /\ ~At("submit") /\ ~At("cleanup") /\ ~At("flush")
      BY <1>3, IdleTypes DEF ReadCancellation, Invocation
    <2>2. task.status = "pending" => Untouched'
      BY <2>1, <1>0, UntouchedStays DEF StartInv
    <2>3. task.status = "waiting_external" => Flushed(row)' /\ row'.exists
      BY <2>1, <1>0, <1>1 DEF StartInv
    <2> QED
      BY <2>1, <2>2, <2>3, <1>0 DEF StartInv, Working, Pipeline
  <1>4. CASE Claim
    <2>1. /\ task'.status = "running" /\ row' = row /\ work'.pc = "load" /\ At("received")
      BY <1>4, <1>0 DEF Claim, Invocation
    <2>2. IF row.exists THEN Flushed(row)' ELSE Untouched'
      <3>1. CASE task.status = "pending"
        BY <2>1, <3>1, <1>0, UntouchedStays DEF StartInv, Untouched
      <3>2. CASE task.status = "waiting_external"
        BY <2>1, <3>2, <1>0, <1>1 DEF StartInv
      <3> QED
        BY <2>1, <3>1, <3>2, <1>0 DEF StartInv
    <2> QED
      BY <2>1, <2>2 DEF StartInv, Working
  <1>5. CASE CheckCancellation
    <2>1. task' = task /\ row' = row /\ work'.pc \in {"load", "store"} /\ At("check")
      BY <1>5, <1>0, IdleTypes DEF CheckCancellation, Invocation
    <2>2. row.exists /\ Flushed(row)' /\ task.status = "running"
      BY <2>1, <1>0, <1>1 DEF EndInv, StartInv, Working
    <2> QED
      BY <2>1, <2>2 DEF StartInv
  <1>6. ASSUME At("store"), task'.status = TaskStatus, row' = row
        PROVE  /\ task'.status # "pending"
               /\ task'.status = "waiting_external" =>
                    row'.exists /\ Flushed(row)' /\ row'.job.status = "WAITING_EXTERNAL"
    <2>1. task'.status # "pending"
      BY <1>6 DEF TaskStatus
    <2>2. ASSUME task'.status = "waiting_external"
          PROVE  row'.exists /\ Flushed(row)' /\ row'.job.status = "WAITING_EXTERNAL"
      <3>1. job.status = "WAITING_EXTERNAL"
        BY <2>2, <1>6 DEF TaskStatus
      <3>2. row = work.repo /\ row.exists /\ Flushed(row)
        BY <3>1, <1>0, <1>6 DEF EndInv
      <3> QED
        BY <3>1, <3>2, <1>1, <1>6 DEF job
    <2> QED
      BY <2>1, <2>2
  <1>7. CASE (StoreResult \/ FailTask \/ Crash) /\ work' = Idle
    <2>1. work'.pc = "idle" /\ row' = row
      BY <1>7 DEF StoreResult, FailTask, Crash, Idle
    <2>2. CASE StoreResult
      <3>1. At("store") /\ task'.status = TaskStatus
        BY <2>2, <1>0 DEF StoreResult
      <3> QED
        BY <2>1, <3>1, <1>6 DEF StartInv, Working, Pipeline
    <2>3. CASE FailTask
      <3>1. task'.status = "failed"
        BY <2>3, <1>0 DEF FailTask
      <3> QED
        BY <2>1, <3>1 DEF StartInv, Working, Pipeline
    <2>4. CASE Crash
      <3>1. task' = task /\ work.pc \notin {"idle", "received"}
        BY <2>4 DEF Crash
      <3>2. task.status # "pending"
        BY <3>1, <1>0 DEF StartInv
      <3>3. task.status = "waiting_external" => At("raised") /\ row'.exists /\ Flushed(row)' /\ row'.job.status = "WAITING_EXTERNAL"
        BY <2>1, <3>1, <1>0, <1>1 DEF StartInv
      <3> QED
        BY <2>1, <3>1, <3>2, <3>3 DEF StartInv, Working, Pipeline
    <2> QED
      BY <2>2, <2>3, <2>4, <1>7
  <1>8. CASE Outside /\ work' = work
    <2>1. task'.status = task.status /\ row' = row
      BY <1>8, <1>0 DEF Outside, RequestCancel, ProviderEnds
    <2>2. task.status = "pending" => Untouched'
      BY <2>1, <1>0, UntouchedStays DEF StartInv
    <2>3. task.status = "waiting_external" => Flushed(row)'
      BY <2>1, <1>0, <1>1 DEF StartInv
    <2>4. At("load") => IF row'.exists THEN Flushed(row)' ELSE Untouched'
      BY <2>1, <1>0, <1>1, UntouchedStays DEF StartInv
    <2> QED
      BY <2>1, <2>2, <2>3, <2>4, <1>8, <1>0 DEF StartInv
  <1>9. ASSUME NEW committed \in BOOLEAN, DatabaseRaises(committed), work'.pc = "raised"
        PROVE  StartInv'
    <2>1. work.pc \in Working
      BY <1>9 DEF DatabaseRaises, Working, Pipeline
    <2>2. task.status = "running"
      BY <2>1, <1>0 DEF StartInv
    <2>3. CASE task' = task
      BY <2>2, <2>3, <1>9 DEF StartInv, Working, Pipeline
    <2>4. CASE task' # task
      <3>1. At("store") /\ task'.status = TaskStatus /\ row' = row
        BY <2>4, <1>9, <1>0 DEF DatabaseRaises
      <3> QED
        BY <3>1, <1>6, <1>9 DEF StartInv, Working, Pipeline
    <2> QED
      BY <2>3, <2>4
  <1>10. CASE /\ task' = task /\ work.pc \in Working \ {"check", "store"}
              /\ work'.pc \in (Working \ {"load"}) \cup {"raised"}
    <2>1. task'.status = "running"
      BY <1>10, <1>0 DEF StartInv
    <2> QED
      BY <2>1, <1>10 DEF StartInv, Working, Pipeline
  <1> QED
    BY <1>3, <1>4, <1>5, <1>7, <1>8, <1>9, <1>10, Moves DEF GoesOn

LEMMA FreshStep == Inv /\ Next => FreshInv'
  <1> SUFFICES ASSUME Inv, Next PROVE FreshInv'
    OBVIOUS
  <1> USE DEF At
  <1>0. work \in Invocation /\ FreshInv
    BY DEF Inv, TypeOK
  <1>1. CASE ReadCancellation \/ CheckCancellation
    <2>1. work'.pc \in {"received", "load"} => work'.deletes = {}
      BY <1>1, <1>0, IdleTypes DEF ReadCancellation, CheckCancellation, Idle, Invocation
    <2> QED
      BY <2>1 DEF FreshInv
  <1>2. CASE Claim
    BY <1>2, <1>0 DEF Claim, FreshInv, Invocation
  <1>3. CASE work' = Idle
    BY <1>3 DEF FreshInv, Idle
  <1>4. CASE GoesOn
    BY <1>4, <1>0 DEF GoesOn, FreshInv, Working, Pipeline
  <1> QED
    BY <1>1, <1>2, <1>3, <1>4, Moves

LEMMA Order ==
  ASSUME NEW k \in Nat, NEW n \in Nat
  PROVE  /\ n < k + 1 => n < k \/ n = k
         /\ n <= k => n < k + 1
         /\ n < k => n < k + 1 /\ n <= k
         /\ n > k + 1 => n > k
         /\ k + 1 > k /\ k <= k
         /\ n < k \/ n = k \/ n > k
  OBVIOUS

LEMMA PipelineStep == Inv /\ Next => PipelineInv'
  <1> SUFFICES ASSUME Inv, Next PROVE PipelineInv'
    OBVIOUS
  <1> USE DEF At, job
  <1>0. /\ TypeOK /\ PipelineInv /\ StartInv /\ CancelInv /\ work \in Invocation
        /\ work.repo \in Snapshot /\ row \in Snapshot /\ work.repo.job \in VideoJob /\ row.job \in VideoJob
        /\ work.repo.job.attempt \in Attempts /\ Attempts \subseteq Nat /\ work.deletes \subseteq Attempts
        /\ deleted \subseteq Attempts /\ quoted \in Nat /\ row.job.attempt \in Attempts
        /\ work.repo.job.estimated \in Nat /\ work.repo.job.attempt \in Nat
    BY VideoAssumption DEF Inv, TypeOK, Invocation, Snapshot, VideoJob, Attempts
  \* The pipeline goes on with the attempt it is at.
  <1>1. ASSUME work.pc \in Open, ~At("submit"),
               work'.repo.exists = work.repo.exists, work'.repo.archive = work.repo.archive,
               work'.repo.job.attempt = work.repo.job.attempt
        PROVE  /\ work'.repo.exists /\ Told(work.repo)'
               /\ \A n \in Attempts : n > work'.repo.job.attempt => provider'[n] = "none"
               /\ \A n \in deleted' : n < work'.repo.job.attempt
               /\ quoted' = quoted
    <2>1. work.repo.exists /\ Told(work.repo)
      BY <1>1, <1>0 DEF PipelineInv
    <2>2. Told(work.repo)'
      BY <2>1, <1>0, <1>1, Stays DEF Told
    <2>3. ~At("cleanup")
      BY <1>1 DEF Open, Pipeline
    <2> QED
      BY <2>1, <2>2, <2>3, <1>0, <1>1, Stays DEF PipelineInv
  <1>2. CASE work'.pc \notin Open
    BY <1>2 DEF PipelineInv
  <1>3. CASE Outside /\ work' = work /\ work.pc \in Open
    <2>1. quoted' = quoted /\ deleted' = deleted /\ artifacts' = artifacts
      BY <1>3 DEF Outside, RequestCancel, ProviderEnds, Media, History
    <2>5. provider' = provider \/ \E n \in Attempts, r \in Results : provider[n] = "RUNNING" /\ provider' = [provider EXCEPT ![n] = r]
      BY <1>3 DEF Outside, RequestCancel, ProviderEnds
    <2>6. \A n \in Attempts : provider[n] = "none" => provider'[n] = "none"
      BY <2>5, <1>0 DEF TypeOK
    <2>2. Told(work.repo)'
      BY <1>0, <1>3, Stays DEF PipelineInv, Told
    <2>3. /\ \A n \in Attempts : provider[n] # "none" => provider'[n] # "none"
          /\ \A n \in Attempts : provider[n] \in Results => provider'[n] = provider[n]
      BY Stays
    <2>4. "CANCELLED" \in Results
      BY DEF Results
    <2> QED
      BY <2>1, <2>2, <2>3, <2>4, <2>6, <1>0, <1>3 DEF PipelineInv
  <1>4. CASE LoadNothing /\ work.mode = "execute"
    <2>1. /\ work'.pc = "advance" /\ work'.mode = "execute" /\ work'.deletes = work.deletes
          /\ work'.repo = [NoRow EXCEPT !.exists = TRUE] /\ At("load") /\ ~row.exists
          /\ provider' = provider /\ quoted' = quoted /\ deleted' = deleted
      BY <1>4, <1>0 DEF LoadNothing, Invocation, Media
    <2>2. /\ work'.repo.exists /\ work'.repo.archive = {} /\ work'.repo.job.attempt = 0
          /\ work'.repo.job.estimated = 0 /\ work'.repo.active = {}
      BY <2>1 DEF NoRow, NewJob
    <2>3. Untouched /\ work.deletes = {}
      BY <2>1, <1>0 DEF StartInv, Inv, FreshInv
    <2>4. 0 \in Attempts
      BY VideoAssumption DEF Attempts
    <2>6. \A n \in Attempts : ~(n < 0)
      BY <1>0
    <2>5. Told(work.repo)'
      BY <2>2, <2>6 DEF Told
    <2> QED
      BY <2>1, <2>2, <2>3, <2>4, <2>5 DEF PipelineInv, Untouched
  <1>5. CASE LoadRow /\ work'.pc \in Open
    <2>1. /\ work'.pc \in {"poll", "cancel"} /\ work'.repo = row /\ work'.deletes = {} /\ At("load") /\ row.exists
          /\ provider' = provider /\ quoted' = quoted /\ deleted' = deleted /\ row.job.status \notin JobEnded
      BY <1>5, <1>0 DEF LoadRow, Invocation, Media, Open, Pipeline, Inv, FreshInv
    <2>2. Flushed(row) /\ row.job.status = "WAITING_EXTERNAL"
      BY <2>1, <1>0 DEF StartInv, Flushed, Ending
    <2>3. Told(work.repo)'
      BY <2>1, <2>2 DEF Told, Flushed
    <2> QED
      BY <2>1, <2>2, <2>3 DEF PipelineInv, Flushed, Waiting, Current
  <1>6. ASSUME NEW w \in {work, Noted(work)}, work' = RetryOrFail(w), work'.pc \in Open,
               work.pc \in {"settle", "collect", "clip"}, provider' = provider
        PROVE  PipelineInv'
    <2>1. /\ w \in Invocation /\ w.repo = work.repo /\ w.deletes \subseteq work.deletes \cup {work.repo.job.attempt}
          /\ w.mode = work.mode
      BY <1>0 DEF Noted, Invocation
    <2>2. /\ work'.pc = "advance" /\ work'.mode = "execute" /\ Same(work', w) /\ SameRepo(work', w)
          /\ work'.repo.job.attempt = work.repo.job.attempt + 1 /\ work.repo.job.attempt < RetryLimit
          /\ work'.repo.job.estimated = work.repo.job.estimated
      BY <2>1, <1>6, FailFields, RetryFields DEF Open, Same
    <2>3. quoted' = quoted /\ deleted' = deleted
      BY <1>6, Stays
    <2>4. /\ work'.repo.exists /\ work'.deletes = w.deletes /\ work'.repo.archive = work.repo.archive
          /\ work'.repo.active = {}
      BY <2>1, <2>2, <1>6, <1>0 DEF PipelineInv, Open, Pipeline, Same, SameRepo
    <2>5. /\ Told(work.repo) /\ provider[work.repo.job.attempt] = work.result /\ work.result \in Results
          /\ <<work.repo.job.attempt, work.result>> \in work.repo.archive
          /\ \A n \in work.deletes : n <= work.repo.job.attempt
          /\ \A n \in Attempts : n > work.repo.job.attempt => provider[n] = "none"
          /\ \A n \in deleted : n < work.repo.job.attempt
          /\ work.repo.job.estimated = quoted
      BY <1>6, <1>0 DEF PipelineInv, Open, Pipeline
    <2>6. work.repo.job.attempt + 1 \in Attempts
      BY <2>2, <1>0, VideoAssumption DEF Attempts
    <2>7. \A n \in Attempts : n < work.repo.job.attempt + 1 => n < work.repo.job.attempt \/ n = work.repo.job.attempt
      BY <1>0, Order
    <2>8. Told(work.repo)'
      BY <2>2, <2>4, <2>5, <2>7, <1>6 DEF Told
    <2>9. ASSUME NEW n \in w.deletes
          PROVE  n < work.repo.job.attempt + 1
      <3>1. n \in Nat /\ (n \in work.deletes \/ n = work.repo.job.attempt)
        BY <2>1, <1>0
      <3>2. n <= work.repo.job.attempt
        BY <3>1, <2>5, <1>0, Order
      <3> QED
        BY <3>1, <3>2, <1>0, Order
    <2>10. \A n \in deleted : n < work.repo.job.attempt + 1
      BY <2>5, <1>0, Order
    <2>11. \A n \in Attempts : n > work.repo.job.attempt + 1 => provider[n] = "none"
      BY <2>5, <1>0, Order
    <2>12. provider[work.repo.job.attempt + 1] = "none"
      BY <2>5, <2>6, <1>0, Order
    <2> QED
      BY <2>2, <2>3, <2>4, <2>5, <2>8, <2>9, <2>10, <2>11, <2>12, <1>6 DEF PipelineInv
  <1>7. ASSUME NEW price \in Prices, Estimate(price), work'.pc \in Open
        PROVE  PipelineInv'
    <2>1. Affordable(price)
      BY <1>7, <1>0, FailFields DEF Estimate, Open
    <2>2. /\ work'.pc = "submit" /\ work'.price = price /\ work'.mode = work.mode /\ work'.deletes = work.deletes
          /\ work'.repo.exists = work.repo.exists /\ work'.repo.archive = work.repo.archive
          /\ work'.repo.job.attempt = work.repo.job.attempt
          /\ work'.repo.job.estimated = work.repo.job.estimated + price
          /\ work'.repo.active = work.repo.active /\ At("advance") /\ provider' = provider
      BY <2>1, <1>7, <1>0 DEF Estimate, Invocation, Snapshot, VideoJob
    <2>3. work.pc \in Open /\ ~At("submit")
      BY <2>2 DEF Open, Pipeline
    <2>4. work.repo.job.estimated + price <= Budget
      BY <2>1 DEF Affordable
    <2> QED
      BY <2>2, <2>3, <2>4, <1>1, <1>0 DEF PipelineInv
  <1>8. CASE (Poll \/ CancelTooLate) /\ work'.pc \in Open
    <2>1. At("poll") \/ At("cancel")
      BY <1>8 DEF Poll, CancelTooLate
    <2>2. /\ provider[work.repo.job.attempt] # "none" /\ work.deletes = {} /\ work.pc \in Open /\ ~At("submit")
      BY <2>1, <1>0 DEF PipelineInv, Open, Pipeline
    <2>3. provider[work.repo.job.attempt] \in Results
          /\ work' = [Archived(work, provider[work.repo.job.attempt]) EXCEPT !.pc = "settle"]
      <3>1. CASE Poll
        <4>1. provider[work.repo.job.attempt] # "RUNNING"
          BY <3>1, <1>8, <1>0 DEF Poll, Open, Invocation
        <4> QED
          BY <3>1, <4>1, <2>2, <1>0 DEF Poll, TypeOK
      <3>2. CASE CancelTooLate
        BY <3>2 DEF CancelTooLate, Results
      <3> QED
        BY <3>1, <3>2, <1>8
    <2>4. /\ work'.pc = "settle" /\ work'.result = provider[work.repo.job.attempt]
          /\ work'.repo.job = work.repo.job /\ work'.repo.exists = work.repo.exists /\ work'.deletes = work.deletes
          /\ work'.repo.archive = work.repo.archive \cup {<<work.repo.job.attempt, provider[work.repo.job.attempt]>>}
          /\ work'.repo.active = work.repo.active \ {work.repo.job.attempt}
      BY <2>3, <1>0, ArchivedFields
    <2>5. provider' = provider /\ quoted' = quoted /\ deleted' = deleted
      BY <1>8 DEF Poll, CancelTooLate, History
    <2>6. Told(work.repo)'
      <3>1. Told(work.repo)
        BY <2>2, <1>0 DEF PipelineInv
      <3> QED
        BY <3>1, <2>4, <2>5 DEF Told
    <2> QED
      BY <2>1, <2>2, <2>3, <2>4, <2>5, <2>6, <1>0 DEF PipelineInv
  <1>9. CASE CancelProven \/ (\E stopped \in BOOLEAN : CancelUnproven(stopped))
    <2>1. /\ At("cancel") /\ work' = [work EXCEPT !.pc = work'.pc]
          /\ work'.pc \in {"poll", "revoked"} /\ (work'.pc = "revoked" => CancelProven)
      BY <1>9, <1>0 DEF CancelProven, CancelUnproven, Invocation
    <2>2. /\ work'.repo = work.repo /\ work'.deletes = work.deletes /\ work.pc \in Open /\ ~At("submit")
      BY <2>1, <1>0 DEF Invocation, Open, Pipeline
    <2>3. CancelProven => provider'[work.repo.job.attempt] = "CANCELLED"
      BY <1>0 DEF CancelProven, TypeOK
    <2>4. provider'[work.repo.job.attempt] # "none"
      BY <2>1, <2>2, <1>0, Stays DEF PipelineInv
    <2>5. Told(work.repo)'
      BY <2>2, <1>1 DEF Told
    <2> QED
      BY <2>1, <2>2, <2>3, <2>4, <2>5, <1>0, <1>1 DEF PipelineInv
  \* The attempt at hand has its result, and the steps from it to the composition.
  <1>10. ASSUME work.pc \in {"settle", "collect", "clip", "compose"},
                work'.pc \in {"collect", "clip", "compose", "final"},
                work'.repo.exists = work.repo.exists, SameRepo(work', work),
                work'.repo.job.attempt = work.repo.job.attempt,
                work'.repo.job.estimated = work.repo.job.estimated,
                work'.result = work.result, work.result = "SUCCEEDED",
                work'.deletes \subseteq work.deletes \cup {work.repo.job.attempt},
                work'.pc \in {"compose", "final"} => work.repo.job.attempt \in artifacts' /\ work'.repo.job.shot = "READY"
         PROVE  PipelineInv'
    <2>1. work.pc \in Open /\ ~At("submit") /\ work'.repo.archive = work.repo.archive /\ work'.repo.active = work.repo.active
      BY <1>10 DEF Open, Pipeline, SameRepo
    <2>2. /\ provider[work.repo.job.attempt] = work.result /\ work.result \in Results
          /\ <<work.repo.job.attempt, work.result>> \in work.repo.archive
          /\ \A n \in work.deletes : n <= work.repo.job.attempt
          /\ work.repo.job.estimated = quoted /\ work.repo.active = {}
      BY <1>10, <2>1, <1>0 DEF PipelineInv
    <2>3. provider'[work.repo.job.attempt] = work.result
      BY <2>2, <1>0, Stays
    <2>4. \A n \in work'.deletes : n <= work.repo.job.attempt
      BY <2>2, <1>10, <1>0, Order
    <2>5. Told(work.repo)'
      BY <2>1, <1>1, <1>10 DEF Told
    <2>6. work.result # "none"
      BY <1>10
    <2> QED
      BY <2>1, <2>2, <2>3, <2>4, <2>5, <2>6, <1>1, <1>10 DEF PipelineInv
  <1>11. CASE Settle /\ work'.pc \in Open
    <2>1. CASE work.result = "SUCCEEDED"
      <3>1. work' = [work EXCEPT !.pc = "collect"] /\ At("settle")
        BY <2>1, <1>11 DEF Settle
      <3> QED
        BY <2>1, <3>1, <1>10, <1>0 DEF Invocation, SameRepo
    <2>2. CASE work.result = "FAILED"
      <3>1. work' = RetryOrFail(work) /\ At("settle") /\ provider' = provider
        BY <2>2, <1>11 DEF Settle
      <3> QED
        BY <3>1, <1>6, <1>11
    <2>3. CASE work.result \notin {"SUCCEEDED", "FAILED"}
      <3>1. work'.pc = "flush"
        BY <2>3, <1>11, <1>0, FailFields DEF Settle
      <3> QED
        BY <3>1, <1>11 DEF Open
    <2> QED
      BY <2>1, <2>2, <2>3
  <1>12. ASSUME NEW pass \in BOOLEAN, Collect(pass)
         PROVE  PipelineInv'
    <2>1. /\ At("collect") /\ work'.pc = "clip" /\ work'.repo = work.repo /\ work'.result = work.result
          /\ work'.deletes = work.deletes \cup {work.repo.job.attempt}
      BY <1>12, <1>0 DEF Collect, Noted, Invocation
    <2>2. work.result = "SUCCEEDED"
      BY <2>1, <1>0 DEF PipelineInv, Open, Pipeline
    <2> QED
      BY <2>1, <2>2, <1>10 DEF SameRepo
  <1>13. CASE CollectRaises /\ work'.pc \in Open
    BY <1>13, <1>6 DEF CollectRaises
  <1>14. CASE CreateClip /\ work'.pc \in Open
    <2>1. CASE work.pass
      <3>1. /\ At("clip") /\ artifacts' = artifacts \cup {work.repo.job.attempt}
            /\ work' = [work EXCEPT !.pc = "compose", !.repo.job.shot = "READY"]
        BY <2>1, <1>14 DEF CreateClip
      <3>2. /\ work'.pc = "compose" /\ work'.repo.exists = work.repo.exists /\ SameRepo(work', work)
            /\ work'.repo.job.attempt = work.repo.job.attempt /\ work'.repo.job.estimated = work.repo.job.estimated
            /\ work'.result = work.result /\ work'.deletes = work.deletes /\ work'.repo.job.shot = "READY"
        BY <3>1, <1>0 DEF Invocation, Snapshot, VideoJob, SameRepo
      <3>3. work.result = "SUCCEEDED"
        BY <3>1, <1>0 DEF PipelineInv, Open, Pipeline
      <3> QED
        BY <3>1, <3>2, <3>3, <1>10
    <2>2. CASE ~work.pass
      BY <2>2, <1>14, <1>6 DEF CreateClip
    <2> QED
      BY <2>1, <2>2
  <1>15. ASSUME NEW pass \in BOOLEAN, Compose(pass)
         PROVE  PipelineInv'
    <2>1. /\ At("compose") /\ work'.pc = "final" /\ artifacts' = artifacts
          /\ work'.repo.exists = work.repo.exists /\ SameRepo(work', work)
          /\ work'.repo.job.attempt = work.repo.job.attempt /\ work'.repo.job.estimated = work.repo.job.estimated
          /\ work'.result = work.result /\ work'.deletes = work.deletes /\ work'.repo.job.shot = work.repo.job.shot
      BY <1>15, <1>0 DEF Compose, Invocation, Snapshot, VideoJob, Media, SameRepo
    <2>2. work.result = "SUCCEEDED" /\ work.repo.job.attempt \in artifacts /\ work.repo.job.shot = "READY"
      BY <2>1, <1>0 DEF PipelineInv, Open, Pipeline
    <2> QED
      BY <2>1, <2>2, <1>10 DEF SameRepo
  <1>16. CASE ReadCancellation \/ Claim \/ (LoadNothing /\ work.mode # "execute") \/ CheckCancellation \/ StoreResult \/ FailTask
              \/ Crash \/ (\E committed \in BOOLEAN : DatabaseRaises(committed)) \/ Flush
              \/ (\E gone \in SUBSET work.deletes : Cleanup(gone))
    <2>1. CASE ReadCancellation \/ CheckCancellation
      BY <2>1, <1>0, <1>2, IdleTypes DEF ReadCancellation, CheckCancellation, Invocation, Open, Pipeline
    <2>2. CASE LoadNothing /\ work.mode # "execute"
      <3>1. work'.pc = "store"
        BY <2>2, <1>0 DEF LoadNothing, Invocation
      <3> QED
        BY <3>1, <1>2 DEF Open, Pipeline
    <2>3. CASE StoreResult \/ FailTask \/ Crash
      BY <2>3, <1>2 DEF StoreResult, FailTask, Crash, Idle, Open, Pipeline
    <2>4. CASE Claim \/ Flush \/ (\E committed \in BOOLEAN : DatabaseRaises(committed))
      BY <2>4, <1>0, <1>2 DEF Claim, Flush, DatabaseRaises, Invocation, Open, Pipeline
    <2>5. CASE \E gone \in SUBSET work.deletes : Cleanup(gone)
      BY <2>5, <1>0, <1>2 DEF Cleanup, Invocation, Open, Pipeline
    <2> QED
      BY <1>16, <2>1, <2>2, <2>3, <2>4, <2>5
  <1>17. CASE EstimateRaises \/ Submit \/ (\E accepted \in BOOLEAN : SubmitRaises(accepted)) \/ PollRaises \/ Revoke
              \/ ComposeRaises \/ CreateFinal
    <2>1. CASE EstimateRaises \/ (\E accepted \in BOOLEAN : SubmitRaises(accepted))
      BY <2>1, <1>0, <1>2, FailFields DEF EstimateRaises, SubmitRaises, Open
    <2>2. CASE Submit \/ PollRaises \/ ComposeRaises \/ CreateFinal
      <3>1. work'.pc = "flush"
        BY <2>2, <1>0 DEF Submit, PollRaises, ComposeRaises, CreateFinal, Invocation
      <3> QED
        BY <3>1, <1>2 DEF Open
    <2>3. CASE Revoke
      <3>1. work'.pc = "flush"
        BY <2>3, <1>0 DEF Revoke, Archived, Invocation
      <3> QED
        BY <3>1, <1>2 DEF Open
    <2> QED
      BY <1>17, <2>1, <2>2, <2>3
  <1>18. CASE Outside
    <2>1. work' = work
      BY <1>18 DEF Outside, RequestCancel, ProviderEnds
    <2> QED
      BY <2>1, <1>2, <1>3, <1>18
  <1> QED
    BY <1>2, <1>4, <1>5, <1>7, <1>8, <1>9, <1>11, <1>12, <1>13, <1>14, <1>15, <1>16, <1>17, <1>18
      DEF Next, Invoke, Faulty, Outside

LEMMA EndStep == Inv /\ Next => EndInv'
  <1> SUFFICES ASSUME Inv, Next PROVE EndInv'
    OBVIOUS
  <1> USE DEF At, job
  <1>0. /\ TypeOK /\ PipelineInv /\ StartInv /\ EndInv /\ FreshInv /\ work \in Invocation
        /\ work.repo \in Snapshot /\ row \in Snapshot /\ work.repo.job \in VideoJob /\ row.job \in VideoJob
        /\ work.repo.job.attempt \in Attempts /\ Attempts \subseteq Nat /\ work.deletes \subseteq Attempts
        /\ deleted \subseteq Attempts /\ quoted \in Nat /\ row.job.attempt \in Attempts
        /\ work.repo.job.estimated \in Nat /\ work.repo.job.attempt \in Nat
        /\ provider \in [Attempts -> {"none", "RUNNING"} \cup Results]
    BY VideoAssumption DEF Inv, TypeOK, Invocation, Snapshot, VideoJob, Attempts
  <1>1. row'.exists \/ deleted' = {}
    <2>1. At("flush") => work.repo.exists
      BY <1>0 DEF EndInv
    <2>2. At("cleanup") => row.exists
      BY <1>0 DEF EndInv
    <2>3. row' = row \/ (At("flush") /\ row' = work.repo)
      BY <1>0, Effects
    <2> QED
      BY <2>1, <2>2, <2>3, <1>0, Stays DEF EndInv
  \* To the flush.
  <1>2. ASSUME work'.pc = "flush", work'.repo.exists, Flushed(work.repo)',
               \A n \in work'.deletes : n < work'.repo.job.attempt \/ work'.repo.job.shot # "WAITING_EXTERNAL"
        PROVE  EndInv'
    BY <1>1, <1>2 DEF EndInv
  <1>3. ASSUME work.pc \in Open, NEW w \in {work, Noted(work)}, work' = FailJob(w)
        PROVE  EndInv'
    <2>1. w \in Invocation /\ w.repo = work.repo
      BY <1>3, <1>0 DEF Noted, Invocation
    <2>2. /\ work'.pc = "flush" /\ work'.repo.exists = work.repo.exists /\ work'.repo.archive = work.repo.archive
          /\ work'.repo.job.status = "FAILED" /\ work'.repo.job.shot = "FAILED"
          /\ work'.repo.job.attempt = work.repo.job.attempt
      BY <2>1, <1>3, FailFields DEF Same, SameRepo
    <2>3. work.repo.exists /\ Told(work.repo)
      BY <1>3, <1>0 DEF PipelineInv
    <2>4. Told(work.repo)'
      <3>1. \A entry \in work.repo.archive : provider'[entry[1]] = entry[2]
        BY <2>3, <1>0, Stays DEF Told
      <3>2. \A n \in Attempts : n < work.repo.job.attempt => provider'[n] \in Results /\ <<n, provider'[n]>> \in work.repo.archive
        BY <2>3, <1>0, Stays DEF Told
      <3> QED
        BY <2>2, <3>1, <3>2 DEF Told
    <2>5. Flushed(work.repo)'
      BY <2>2, <2>4 DEF Flushed, Waiting, Ending, JobEnded
    <2> QED
      BY <2>2, <2>3, <2>5, <1>2
  <1>4. CASE LoadRow
    <2>1. /\ At("load") /\ row.exists /\ work'.repo = row /\ work'.deletes = {} /\ row' = row /\ provider' = provider
          /\ work'.pc \in {"flush", "poll", "cancel"} /\ quoted' = quoted /\ Media' = Media
      BY <1>4, <1>0 DEF LoadRow, Invocation, FreshInv
    <2>2. Flushed(row)
      BY <2>1, <1>0 DEF StartInv
    <2>3. Flushed(work.repo)'
      BY <2>1, <2>2 DEF Flushed, Told, Waiting, Current, Media
    <2> QED
      BY <2>1, <2>3, <1>1, <1>2 DEF EndInv
  <1>5. CASE Submit
    <2>1. /\ At("submit") /\ work.pc \in Open /\ work.repo.exists /\ Told(work.repo) /\ work.repo.active = {}
          /\ provider[work.repo.job.attempt] = "none" /\ work.repo.job.estimated = quoted + work.price
          /\ \A n \in Attempts : n > work.repo.job.attempt => provider[n] = "none"
          /\ \A n \in deleted : n < work.repo.job.attempt
          /\ \A n \in work.deletes : n < work.repo.job.attempt
      BY <1>5, <1>0 DEF Submit, PipelineInv, Open, Pipeline
    <2>2. /\ work'.pc = "flush" /\ work'.deletes = work.deletes /\ work'.repo.exists = work.repo.exists
          /\ work'.repo.active = work.repo.active \cup {work.repo.job.attempt}
          /\ work'.repo.archive = work.repo.archive
          /\ work'.repo.job = [work.repo.job EXCEPT !.status = "WAITING_EXTERNAL", !.shot = "WAITING_EXTERNAL"]
      BY <1>5, <1>0 DEF Submit, Invocation, Snapshot
    <2>3. /\ work'.repo.job.status = "WAITING_EXTERNAL" /\ work'.repo.job.shot = "WAITING_EXTERNAL"
          /\ work'.repo.job.attempt = work.repo.job.attempt /\ work'.repo.job.estimated = work.repo.job.estimated
      BY <2>2, <1>0 DEF VideoJob
    <2>4. /\ provider' = [provider EXCEPT ![work.repo.job.attempt] = "RUNNING"] /\ quoted' = quoted + work.price
          /\ deleted' = deleted /\ artifacts' = artifacts /\ final' = final
      BY <1>5 DEF Submit, Accepted, Media
    <2>5. provider'[work.repo.job.attempt] = "RUNNING"
      BY <2>4, <1>0
    <2>6. \A n \in Attempts : n # work.repo.job.attempt => provider'[n] = provider[n]
      BY <2>4, <1>0
    <2>7. Told(work.repo)'
      <3>1. \A entry \in work.repo.archive : provider'[entry[1]] = entry[2]
        BY <2>1, <1>0, Stays DEF Told
      <3>2. \A n \in Attempts : n < work.repo.job.attempt => provider'[n] \in Results /\ <<n, provider'[n]>> \in work.repo.archive
        BY <2>1, <1>0, Stays DEF Told
      <3> QED
        BY <2>2, <2>3, <3>1, <3>2 DEF Told
    <2>8. Waiting(work.repo)'
      BY <2>1, <2>2, <2>3, <2>5 DEF Waiting
    <2>9. Current(work.repo)'
      <3>1. \A n \in Attempts : n > work.repo.job.attempt => n # work.repo.job.attempt
        BY <1>0
      <3> QED
        BY <2>1, <2>3, <2>4, <2>6, <3>1 DEF Current
    <2>10. Flushed(work.repo)'
      BY <2>1, <2>3, <2>4, <2>7, <2>8, <2>9 DEF Flushed, Ending
    <2> QED
      BY <2>1, <2>2, <2>3, <2>10, <1>2
  <1>6. CASE (Poll \/ PollRaises) /\ work'.pc = "flush"
    <2>1. At("poll")
      BY <1>6 DEF Poll, PollRaises
    <2>2. /\ work.pc \in Open /\ work.repo.exists /\ Told(work.repo) /\ work.repo.active = {work.repo.job.attempt}
          /\ provider[work.repo.job.attempt] # "none" /\ work.repo.job.estimated = quoted
          /\ \A n \in Attempts : n > work.repo.job.attempt => provider[n] = "none"
          /\ \A n \in deleted : n < work.repo.job.attempt
          /\ work.deletes = {} /\ work.repo.job.status = "WAITING_EXTERNAL" /\ work.repo.job.shot = "WAITING_EXTERNAL"
      BY <2>1, <1>0 DEF PipelineInv, Open, Pipeline
    <2>3. work' = [work EXCEPT !.pc = "flush"]
      <3>1. CASE Poll
        <4>1. provider[work.repo.job.attempt] = "RUNNING"
             \/ work' = [Archived(work, provider[work.repo.job.attempt]) EXCEPT !.pc = "settle"]
          BY <3>1 DEF Poll
        <4>2. work' = [Archived(work, provider[work.repo.job.attempt]) EXCEPT !.pc = "settle"] => work'.pc = "settle"
          BY <1>0, ArchivedFields
        <4> QED
          BY <3>1, <4>1, <4>2, <1>6 DEF Poll
      <3> QED
        BY <3>1, <1>6 DEF PollRaises
    <2>4. work'.repo = work.repo /\ work'.deletes = work.deletes
      BY <2>3, <1>0 DEF Invocation
    <2>5. provider' = provider /\ quoted' = quoted /\ deleted' = deleted
      BY <1>6 DEF Poll, PollRaises, Media, History
    <2>6. Told(work.repo)' /\ Waiting(work.repo)' /\ Current(work.repo)'
      BY <2>2, <2>4, <2>5 DEF Told, Waiting, Current
    <2>7. Flushed(work.repo)'
      BY <2>2, <2>4, <2>5, <2>6 DEF Flushed, Ending
    <2> QED
      BY <2>2, <2>4, <2>7, <1>2, <1>6
  <1>7. CASE Revoke
    <2>1. /\ work.pc \in Open /\ work.repo.exists /\ Told(work.repo) /\ work.repo.job.estimated = quoted
          /\ provider[work.repo.job.attempt] = "CANCELLED"
          /\ \A n \in Attempts : n > work.repo.job.attempt => provider[n] = "none"
          /\ \A n \in deleted : n < work.repo.job.attempt
          /\ work.deletes = {}
      BY <1>7, <1>0 DEF Revoke, PipelineInv, Open, Pipeline
    <2>2. /\ work'.pc = "flush" /\ work'.deletes = work.deletes /\ work'.repo.exists = work.repo.exists
          /\ work'.repo.archive = work.repo.archive \cup {<<work.repo.job.attempt, "CANCELLED">>}
          /\ work'.repo.job = [work.repo.job EXCEPT !.status = "CANCELLED", !.shot = "CANCELLED"]
      BY <1>7, <1>0 DEF Revoke, Archived, Invocation, Snapshot
    <2>3. /\ work'.repo.job.status = "CANCELLED" /\ work'.repo.job.shot = "CANCELLED"
          /\ work'.repo.job.attempt = work.repo.job.attempt /\ work'.repo.job.estimated = work.repo.job.estimated
      BY <2>2, <1>0 DEF VideoJob
    <2>4. provider' = provider /\ quoted' = quoted /\ deleted' = deleted
      BY <1>7 DEF Revoke, Media, History
    <2>5. Told(work.repo)'
      <3>1. \A entry \in work'.repo.archive : provider[entry[1]] = entry[2]
        BY <2>1, <2>2 DEF Told
      <3> QED
        BY <2>1, <2>2, <2>3, <2>4, <3>1 DEF Told
    <2>6. Waiting(work.repo)' /\ Current(work.repo)'
      BY <2>1, <2>3, <2>4 DEF Waiting, Current
    <2>7. Flushed(work.repo)'
      BY <2>1, <2>3, <2>4, <2>5, <2>6 DEF Flushed, Ending, JobEnded
    <2> QED
      BY <2>1, <2>2, <2>3, <2>7, <1>2
  <1>8. CASE ComposeRaises \/ CreateFinal
    <2>1. At("compose") \/ At("final")
      BY <1>8 DEF ComposeRaises, CreateFinal
    <2>2. /\ work.pc \in Open /\ work.repo.exists /\ Told(work.repo) /\ provider[work.repo.job.attempt] = "SUCCEEDED"
          /\ work.repo.job.attempt \in artifacts /\ work.repo.job.shot = "READY"
      BY <2>1, <1>0 DEF PipelineInv, Open, Pipeline
    <2>3. PICK status \in {"FAILED", "COMPLETED"} :
            work' = [work EXCEPT !.pc = "flush", !.repo.job.status = status] /\ (status = "COMPLETED" => final')
      BY <1>8 DEF ComposeRaises, CreateFinal
    <2>4. /\ work'.pc = "flush" /\ work'.deletes = work.deletes /\ work'.repo.exists = work.repo.exists
          /\ work'.repo.archive = work.repo.archive /\ work'.repo.job.status = status
          /\ work'.repo.job.shot = work.repo.job.shot /\ work'.repo.job.attempt = work.repo.job.attempt
      BY <2>3, <1>0 DEF Invocation, Snapshot, VideoJob
    <2>5. provider' = provider /\ deleted' = deleted /\ artifacts' = artifacts
      BY <1>8 DEF ComposeRaises, CreateFinal, Media
    <2>6. Told(work.repo)' /\ Waiting(work.repo)'
      BY <2>2, <2>3, <2>4, <2>5 DEF Told, Waiting
    <2>7. Flushed(work.repo)'
      BY <2>2, <2>3, <2>4, <2>5, <2>6 DEF Flushed, Ending, JobEnded
    <2> QED
      BY <2>2, <2>4, <2>7, <1>2
  \* After the flush.
  <1>9. CASE Outside
    <2>1. work' = work /\ row' = row
      BY <1>9 DEF Outside, RequestCancel, ProviderEnds
    <2>2. deleted' = deleted /\ quoted' = quoted /\ artifacts' = artifacts /\ final' = final
      BY <1>9 DEF Outside, RequestCancel, ProviderEnds, Media, History
    <2>3. /\ \A n \in Attempts : provider[n] # "none" => provider'[n] # "none"
          /\ \A n \in Attempts : provider[n] \in Results => provider'[n] = provider[n]
      BY Stays
    <2>5. provider' = provider \/ \E n \in Attempts, r \in Results : provider[n] = "RUNNING" /\ provider' = [provider EXCEPT ![n] = r]
      BY <1>9 DEF Outside, RequestCancel, ProviderEnds
    <2>6. \A n \in Attempts : provider[n] = "none" => provider'[n] = "none"
      BY <2>5, <1>0
    <2>7. ASSUME NEW s \in Snapshot, Flushed(s)
          PROVE  Flushed(s)'
      <3>1. s.job.attempt \in Attempts
        BY DEF Snapshot, VideoJob
      <3>2. Told(s)' /\ Waiting(s)' /\ (Current(s) => Current(s)')
        BY <2>2, <2>6, <2>7, Stays DEF Flushed, Current
      <3>3. \A r \in {"SUCCEEDED", "CANCELLED"} : provider[s.job.attempt] = r => provider'[s.job.attempt] = r
        BY <2>3, <3>1 DEF Results
      <3> QED
        BY <2>2, <2>7, <3>2, <3>3 DEF Flushed
    <2>8. Flushed(work.repo) => Flushed(work.repo)'
      BY <2>1, <2>7, <1>0 DEF Flushed, Told, Waiting, Current
    <2>9. Flushed(row) => Flushed(row)'
      BY <2>1, <2>7, <1>0 DEF Flushed, Told, Waiting, Current
    <2>10. Untouched => Untouched'
      BY <2>1, <2>2, <2>6 DEF Untouched
    <2> QED
      BY <2>1, <2>8, <2>9, <2>10, <1>0, <1>1 DEF EndInv
  <1>10. CASE Flush
    <2>1. /\ At("flush") /\ work'.pc = "cleanup" /\ row' = work.repo /\ work'.repo = work.repo
          /\ work'.deletes = work.deletes
      BY <1>10, <1>0 DEF Flush, Invocation
    <2>2. Flushed(work.repo) /\ work.repo.exists
      BY <2>1, <1>0 DEF EndInv
    <2>3. Flushed(row)'
      BY <2>1, <2>2, <1>0, Stays DEF Flushed, Told, Waiting, Current
    <2> QED
      BY <2>1, <2>2, <2>3, <1>0, <1>1 DEF EndInv
  <1>11. ASSUME NEW gone \in SUBSET work.deletes, Cleanup(gone)
         PROVE  EndInv'
    <2>1. /\ At("cleanup") /\ work'.pc \in {"store", "raised", "check"} /\ work'.repo = work.repo /\ row' = row
          /\ deleted' = deleted \cup gone /\ provider' = provider /\ quoted' = quoted
          /\ artifacts' = artifacts /\ final' = final
      BY <1>11, <1>0 DEF Cleanup, Invocation, History
    <2>2. row = work.repo /\ row.exists /\ Flushed(row)
      BY <2>1, <1>0 DEF EndInv
    <2>3. \A n \in deleted' : n < row.job.attempt \/ row.job.shot # "WAITING_EXTERNAL"
      BY <2>1, <2>2, <1>0 DEF EndInv, Flushed
    <2>4. Flushed(row)'
      BY <2>1, <2>2, <2>3 DEF Flushed, Told, Waiting, Current
    <2> QED
      BY <2>1, <2>2, <2>4, <1>1 DEF EndInv
  <1>12. CASE CheckCancellation
    <2>1. /\ At("check") /\ work'.pc \in {"load", "store"} /\ row' = row
          /\ (work'.pc = "store" => work'.repo = work.repo)
      BY <1>12, <1>0, IdleTypes DEF CheckCancellation, Invocation
    <2>2. row = work.repo /\ row.exists /\ Flushed(row)
      BY <2>1, <1>0 DEF EndInv
    <2>3. Flushed(row)'
      BY <2>1, <2>2, <1>0, Stays DEF Flushed, Told, Waiting, Current
    <2> QED
      BY <2>1, <2>2, <2>3, <1>1 DEF EndInv
  <1>13. CASE LoadNothing
    <2>1. At("load") /\ ~row.exists /\ work'.pc \in {"advance", "store"}
      BY <1>13, <1>0 DEF LoadNothing, Invocation
    <2>2. Untouched'
      BY <2>1, <1>0, UntouchedStays DEF StartInv
    <2>3. work'.pc = "store" => work'.repo.job.status = "CANCELLED"
      BY <1>13, <1>0 DEF LoadNothing, Invocation, Snapshot, VideoJob
    <2> QED
      BY <2>1, <2>2, <2>3, <1>1 DEF EndInv
  <1>14. CASE work'.pc \notin {"flush", "cleanup", "check", "store"}
    BY <1>14, <1>1 DEF EndInv
  <1>15. CASE EstimateRaises \/ (\E accepted \in BOOLEAN : SubmitRaises(accepted))
    BY <1>15, <1>3 DEF EstimateRaises, SubmitRaises, Open, Pipeline
  <1>16. ASSUME NEW price \in Prices, Estimate(price)
         PROVE  EndInv'
    <2>1. CASE Affordable(price)
      <3>1. work'.pc = "submit"
        BY <2>1, <1>16, <1>0 DEF Estimate, Invocation
      <3> QED
        BY <3>1, <1>14
    <2> QED
      BY <2>1, <1>3, <1>16 DEF Estimate, Open, Pipeline
  <1>17. ASSUME work.pc \in Open, NEW w \in {work, Noted(work)}, work' = RetryOrFail(w)
         PROVE  EndInv'
    <2>1. w \in Invocation
      BY <1>0, <1>17 DEF Noted, Invocation
    <2>2. work'.pc = "advance" \/ work' = FailJob(w)
      BY <2>1, <1>17, RetryFields
    <2> QED
      BY <2>2, <1>3, <1>14, <1>17
  <1>18. CASE Settle \/ CollectRaises \/ CreateClip
    <2>1. work.pc \in Open
      BY <1>18 DEF Settle, CollectRaises, CreateClip, Open, Pipeline
    <2>2. work'.pc \in {"collect", "compose"} \/ work' = FailJob(work) \/ (\E w \in {work, Noted(work)} : work' = RetryOrFail(w))
      <3>1. CASE Settle
        <4>1. [work EXCEPT !.pc = "collect"].pc = "collect"
          BY <1>0 DEF Invocation
        <4> QED
          BY <3>1, <4>1 DEF Settle
      <3>2. CASE CollectRaises
        BY <3>2 DEF CollectRaises
      <3>3. CASE CreateClip
        <4>1. [work EXCEPT !.pc = "compose", !.repo.job.shot = "READY"].pc = "compose"
          BY <1>0 DEF Invocation
        <4> QED
          BY <3>3, <4>1 DEF CreateClip
      <3> QED
        BY <3>1, <3>2, <3>3, <1>18
    <2> QED
      BY <2>1, <2>2, <1>3, <1>14, <1>17
  <1>19. CASE (Poll /\ work'.pc # "flush") \/ CancelTooLate
    <2>1. /\ [work EXCEPT !.pc = "flush"].pc = "flush"
          /\ \A r \in {provider[work.repo.job.attempt]} : [Archived(work, r) EXCEPT !.pc = "settle"].pc = "settle"
      BY <1>0, ArchivedFields DEF Invocation
    <2>2. Poll => work'.pc \in {"flush", "settle"}
      BY <2>1 DEF Poll
    <2>3. CancelTooLate => work'.pc = "settle"
      BY <2>1 DEF CancelTooLate
    <2> QED
      BY <2>2, <2>3, <1>14, <1>19
  <1>20. CASE CancelProven \/ (\E stopped \in BOOLEAN : CancelUnproven(stopped))
    BY <1>20, <1>0, <1>14 DEF CancelProven, CancelUnproven, Invocation
  <1>21. CASE \E pass \in BOOLEAN : Collect(pass) \/ Compose(pass)
    <2>1. \A pass \in BOOLEAN : Collect(pass) => work'.pc = "clip"
      BY <1>0 DEF Collect, Noted, Invocation
    <2>2. \A pass \in BOOLEAN : Compose(pass) => work'.pc = "final"
      BY <1>0 DEF Compose, Invocation
    <2> QED
      BY <2>1, <2>2, <1>14, <1>21
  <1>22. CASE ReadCancellation
    BY <1>22, <1>14, IdleTypes DEF ReadCancellation, Invocation
  <1>23. CASE Claim \/ (\E committed \in BOOLEAN : DatabaseRaises(committed))
    BY <1>23, <1>0, <1>14 DEF Claim, DatabaseRaises, Invocation
  <1>24. CASE StoreResult \/ FailTask \/ Crash
    BY <1>24, <1>14 DEF StoreResult, FailTask, Crash, Idle
  <1>25. CASE PollRaises
    BY <1>25, <1>0, <1>6 DEF PollRaises, Invocation
  <1> QED
    BY <1>4, <1>5, <1>6, <1>7, <1>8, <1>9, <1>10, <1>11, <1>12, <1>13, <1>15, <1>16, <1>18, <1>19, <1>20, <1>21,
      <1>22, <1>23, <1>24, <1>25 DEF Next, Invoke, Faulty, Outside

LEMMA ProviderStep == Inv /\ Next => OneProviderJob' /\ WithinBudget'
  <1> SUFFICES ASSUME Inv, Next PROVE OneProviderJob' /\ WithinBudget'
    OBVIOUS
  <1> USE DEF At, job
  <1>0. /\ TypeOK /\ PipelineInv /\ OneProviderJob /\ WithinBudget
        /\ work.repo.job.attempt \in Attempts /\ Attempts \subseteq Nat /\ work.repo.job.attempt \in Nat
        /\ provider \in [Attempts -> {"none", "RUNNING"} \cup Results]
    BY VideoAssumption DEF Inv, TypeOK, Invocation, Snapshot, VideoJob, Attempts
  <1>1. CASE ~At("submit")
    <2>1. \A n \in Attempts : provider'[n] = "RUNNING" => provider[n] = "RUNNING"
      BY <1>1, <1>0, Effects DEF Results
    <2> QED
      BY <2>1, <1>0, <1>1, Stays DEF OneProviderJob, WithinBudget
  <1>2. CASE At("submit")
    <2>1. /\ provider[work.repo.job.attempt] = "none" /\ Told(work.repo)
          /\ \A n \in Attempts : n > work.repo.job.attempt => provider[n] = "none"
          /\ work.repo.job.estimated = quoted + work.price /\ work.repo.job.estimated <= Budget
      BY <1>2, <1>0 DEF PipelineInv, Open, Pipeline
    <2>2. \A n \in Attempts : provider[n] # "RUNNING"
      <3>1. \A n \in Attempts : n < work.repo.job.attempt => provider[n] \in Results
        BY <2>1 DEF Told
      <3>2. \A n \in Attempts : n < work.repo.job.attempt \/ n = work.repo.job.attempt \/ n > work.repo.job.attempt
        BY <1>0, Order
      <3> QED
        BY <2>1, <3>1, <3>2 DEF Results
    <2>3. \A n \in Attempts : provider'[n] = "RUNNING" => n = work.repo.job.attempt
      BY <2>2, <1>0, Effects
    <2>4. quoted' = quoted \/ quoted' = quoted + work.price
      BY <1>0, Effects
    <2> QED
      BY <2>1, <2>3, <2>4, <1>0 DEF OneProviderJob, WithinBudget
  <1> QED
    BY <1>1, <1>2

LEMMA TruthStep == Inv /\ Next => TaskTellsTheTruth'
  <1> SUFFICES ASSUME Inv, Next PROVE TaskTellsTheTruth'
    OBVIOUS
  <1> USE DEF At
  <1>0. /\ TypeOK /\ EndInv /\ StartInv /\ TaskTellsTheTruth /\ work \in Invocation /\ row \in Snapshot
        /\ row.job.attempt \in Attempts /\ row.job.attempt \in Nat /\ Attempts \subseteq Nat
        /\ provider \in [Attempts -> {"none", "RUNNING"} \cup Results]
        /\ task \in [status : {"pending", "running", "waiting_external"} \cup Ended, cancel : BOOLEAN]
    BY VideoAssumption DEF Inv, TypeOK, Snapshot, VideoJob, Attempts
  \* The result is stored.
  <1>1. ASSUME At("store"), task'.status = TaskStatus, row' = row, provider' = provider,
               artifacts' = artifacts, final' = final
        PROVE  TaskTellsTheTruth'
    <2>1. ASSUME task'.status = "cancelled"
          PROVE  \A n \in Attempts : provider[n] # "RUNNING"
                   /\ (provider[n] = "SUCCEEDED" => row.exists /\ n < row.job.attempt)
      <3>1. job.status = "CANCELLED"
        BY <2>1, <1>1 DEF TaskStatus
      <3>2. CASE Untouched
        BY <3>2 DEF Untouched
      <3>3. CASE row = work.repo /\ row.exists /\ Flushed(row)
        <4>1. /\ provider[row.job.attempt] = "CANCELLED" /\ row.exists
              /\ \A n \in Attempts : n > row.job.attempt => provider[n] = "none"
              /\ \A n \in Attempts : n < row.job.attempt => provider[n] \in Results
          BY <3>1, <3>3 DEF Flushed, Current, Told, job
        <4>2. \A n \in Attempts : n < row.job.attempt \/ n = row.job.attempt \/ n > row.job.attempt
          BY <1>0, Order
        <4> QED
          BY <4>1, <4>2 DEF Results
      <3> QED
        BY <3>2, <3>3, <1>0, <1>1 DEF EndInv
    <2>2. ASSUME task'.status = "succeeded"
          PROVE  row.job.status = "COMPLETED" /\ provider[row.job.attempt] = "SUCCEEDED"
                 /\ row.job.attempt \in artifacts /\ final
      <3>1. job.status = "COMPLETED"
        BY <2>2, <1>1 DEF TaskStatus
      <3>2. row = work.repo /\ Flushed(row)
        BY <3>1, <1>0, <1>1 DEF EndInv
      <3> QED
        BY <3>1, <3>2 DEF Flushed, job
    <2> QED
      BY <2>1, <2>2, <1>1 DEF TaskTellsTheTruth
  <1>2. CASE task'.status \in {"running", "failed", "pending", "waiting_external"}
    BY <1>2 DEF TaskTellsTheTruth
  \* What an ended task says stays so.
  <1>3. CASE task'.status = task.status /\ task.status \in Ended
    <2>1. ~At("submit") /\ ~At("flush")
      BY <1>3, <1>0 DEF StartInv, Working, Pipeline, Ended
    <2>2. row' = row
      BY <2>1, <1>0, Effects
    <2>3. artifacts \subseteq artifacts' /\ (final => final')
      BY Stays
    <2>4. task.status = "cancelled" => provider' = provider
      BY <2>1, <1>0, Effects DEF TaskTellsTheTruth
    <2>5. task.status = "succeeded" => provider'[row.job.attempt] = "SUCCEEDED"
      BY <1>0, Stays DEF TaskTellsTheTruth, Results
    <2> QED
      BY <2>2, <2>3, <2>4, <2>5, <1>0, <1>3 DEF TaskTellsTheTruth
  <1>4. CASE task'.status = task.status
    BY <1>2, <1>3, <1>4, <1>0
  <1>5. CASE Claim \/ FailTask
    <2>1. task'.status \in {"running", "failed"}
      BY <1>5, <1>0 DEF Claim, FailTask
    <2> QED
      BY <2>1, <1>2
  <1>6. CASE StoreResult
    <2>1. task'.status = TaskStatus
      BY <1>6, <1>0 DEF StoreResult
    <2> QED
      BY <2>1, <1>1, <1>6 DEF StoreResult, Media
  <1>7. ASSUME NEW committed \in BOOLEAN, DatabaseRaises(committed)
        PROVE  TaskTellsTheTruth'
    <2>1. CASE committed /\ At("store")
      <3>1. task'.status = TaskStatus
        BY <2>1, <1>7, <1>0 DEF DatabaseRaises
      <3>2. final \in BOOLEAN
        BY <1>0 DEF TypeOK
      <3>3. final' = final /\ row' = row /\ provider' = provider /\ artifacts' = artifacts
        BY <2>1, <3>2, <1>7 DEF DatabaseRaises
      <3> QED
        BY <2>1, <3>1, <3>3, <1>1
    <2>2. CASE ~(committed /\ At("store"))
      BY <2>2, <1>4, <1>7 DEF DatabaseRaises
    <2> QED
      BY <2>1, <2>2
  <1>8. CASE ReadCancellation \/ CheckCancellation \/ Crash
    BY <1>8, <1>4 DEF ReadCancellation, CheckCancellation, Crash
  <1>9. CASE Outside
    BY <1>9, <1>0, <1>4 DEF Outside, RequestCancel, ProviderEnds
  <1> QED
    BY <1>4, <1>5, <1>6, <1>7, <1>8, <1>9, Moves DEF GoesOn

-----------------------------------------------------------------------------
(* The theorems. *)

LEMMA InvInit == Init => Inv
  <1> SUFFICES ASSUME Init PROVE Inv
    OBVIOUS
  <1>1. /\ task.status = "pending" /\ ~row.exists /\ work = Idle /\ deleted = {} /\ quoted = 0 /\ ~reconciled
        /\ \A n \in Attempts : provider[n] = "none"
    BY DEF Init, NoRow
  <1>2. TypeOK
    BY TypeInit
  <1>3. work.pc = "idle" /\ ~work.seen /\ Untouched
    BY <1>1 DEF Idle, Untouched
  <1>4. RowInv /\ StartInv /\ FreshInv
    BY <1>1, <1>3 DEF RowInv, StartInv, FreshInv, At, Working, Pipeline
  <1>5. PipelineInv /\ EndInv /\ CancelInv
    BY <1>1, <1>3 DEF PipelineInv, EndInv, CancelInv, At, Open, Pipeline
  <1>6. OneProviderJob /\ TaskTellsTheTruth
    BY <1>1 DEF OneProviderJob, TaskTellsTheTruth
  <1>7. WithinBudget
    BY <1>1, VideoAssumption DEF WithinBudget
  <1> QED
    BY <1>2, <1>4, <1>5, <1>6, <1>7 DEF Inv

LEMMA InvStep == Inv /\ [Next]_vars => Inv'
  <1> SUFFICES ASSUME Inv, [Next]_vars PROVE Inv'
    OBVIOUS
  <1>1. CASE Next
    <2>1. TypeOK' /\ FreshInv' /\ RowInv'
      BY <1>1, TypeStep, FreshStep, RowStep
    <2>2. StartInv' /\ PipelineInv' /\ EndInv'
      BY <1>1, StartStep, PipelineStep, EndStep
    <2>3. CancelInv' /\ OneProviderJob' /\ WithinBudget' /\ TaskTellsTheTruth'
      BY <1>1, CancelStep, ProviderStep, TruthStep
    <2> QED
      BY <2>1, <2>2, <2>3 DEF Inv
  <1>2. CASE UNCHANGED vars
    <2> USE <1>2 DEF vars, At, job
    <2>1. TypeOK' /\ FreshInv' /\ RowInv'
      BY DEF Inv, TypeOK, FreshInv, RowInv, Told, Waiting
    <2>2. StartInv' /\ EndInv'
      BY DEF Inv, StartInv, EndInv, Flushed, Told, Waiting, Current, Untouched
    <2>3. PipelineInv'
      BY DEF Inv, PipelineInv, Told
    <2>4. CancelInv' /\ OneProviderJob' /\ WithinBudget' /\ TaskTellsTheTruth'
      BY DEF Inv, CancelInv, OneProviderJob, WithinBudget, TaskTellsTheTruth
    <2> QED
      BY <2>1, <2>2, <2>3, <2>4 DEF Inv
  <1> QED
    BY <1>1, <1>2

LEMMA Invariance == Spec => []Inv
  BY InvInit, InvStep, PTL DEF Spec

(* Every variable keeps its type.                                          *)
THEOREM TypeCorrect == Spec => []TypeOK
  <1>1. Inv => TypeOK
    BY DEF Inv
  <1> QED
    BY <1>1, Invariance, PTL

(* No two attempts of a job run at the provider at once: a replacement is  *)
(* submitted only from a row whose earlier attempts all have their result. *)
THEOREM OneJobAtProvider == Spec => []OneProviderJob
  <1>1. Inv => OneProviderJob
    BY DEF Inv
  <1> QED
    BY <1>1, Invariance, PTL

(* The estimates of all attempts submitted, in whatever invocations, stay  *)
(* within the budget.                                                      *)
THEOREM BudgetHolds == Spec => []WithinBudget
  <1>1. Inv => WithinBudget
    BY DEF Inv
  <1> QED
    BY <1>1, Invariance, PTL

(* The end of a task is what happened at the provider.                     *)
THEOREM TaskTruthful == Spec => []TaskTellsTheTruth
  <1>1. Inv => TaskTellsTheTruth
    BY DEF Inv
  <1> QED
    BY <1>1, Invariance, PTL

(* No output is deleted that a committed row still waits for.              *)
THEOREM SourceKept == Spec => []SourceSurvives
  <1>1. Inv => SourceSurvives
    <2> SUFFICES ASSUME Inv, NEW n \in deleted
                 PROVE  row.exists /\ ~(row.job.shot = "WAITING_EXTERNAL" /\ row.job.attempt = n)
      BY DEF SourceSurvives
    <2>1. row.exists
      BY DEF Inv, EndInv
    <2>2. n < row.job.attempt \/ row.job.shot # "WAITING_EXTERNAL"
      BY <2>1 DEF Inv, RowInv
    <2>3. n \in Nat
      BY VideoAssumption DEF Inv, TypeOK, Attempts
    <2>4. ~(n < n)
      BY <2>3
    <2> QED
      BY <2>1, <2>2, <2>4
  <1> QED
    BY <1>1, Invariance, PTL

(* The row alone, behind as it may be, names the job it waits for and the  *)
(* result of every attempt before it.                                      *)
THEOREM RowSuffices == Spec => []RecoveryIsComplete
  <1>1. Inv => RecoveryIsComplete
    <2> SUFFICES ASSUME Inv, row.exists
                 PROVE  /\ row.job.status = "WAITING_EXTERNAL" =>
                             row.active = {row.job.attempt} /\ provider[row.job.attempt] # "none"
                        /\ \A n \in 0 .. row.job.attempt - 1 : \E r \in Results : <<n, r>> \in row.archive
                        /\ \A entry \in row.archive : provider[entry[1]] = entry[2]
      BY DEF RecoveryIsComplete
    <2>1. Told(row) /\ Waiting(row)
      BY DEF Inv, RowInv
    <2>2. row.job.attempt \in 0 .. RetryLimit
      BY DEF Inv, TypeOK, Snapshot, VideoJob, Attempts
    <2>3. ASSUME NEW n \in 0 .. row.job.attempt - 1
          PROVE  \E r \in Results : <<n, r>> \in row.archive
      <3>1. n \in Attempts /\ n < row.job.attempt
        BY <2>2, VideoAssumption DEF Attempts
      <3> QED
        BY <3>1, <2>1 DEF Told
    <2> QED
      BY <2>1, <2>3 DEF Told, Waiting
  <1> QED
    BY <1>1, Invariance, PTL

(* Once a cancellation is being reconciled, no invocation reaches a submit *)
(* again.                                                                  *)
THEOREM NothingPaidAfterCancel == Spec => NoPaidWorkAfterCancel
  <1>1. Inv /\ [Next]_vars =>
          [reconciled => \A n \in Attempts : provider[n] = "none" => provider'[n] = "none"]_vars
    <2> SUFFICES ASSUME Inv, Next, reconciled
                 PROVE  \A n \in Attempts : provider[n] = "none" => provider'[n] = "none"
      OBVIOUS
    <2>1. ~At("submit")
      BY DEF Inv, CancelInv, PipelineInv, At, Open, Pipeline
    <2> QED
      BY <2>1, Stays
  <1> QED
    BY <1>1, Invariance, PTL DEF Spec, NoPaidWorkAfterCancel

-----------------------------------------------------------------------------
(* How long an invocation can take. *)

\* The most steps from each place, if no cancellation is found on the way.
StepsFrom(pc) ==
  CASE pc = "received" -> 16
    [] pc = "load"     -> 15
    [] pc = "cancel"   -> 14
    [] pc = "poll"     -> 13
    [] pc = "settle"   -> 12
    [] pc = "collect"  -> 11
    [] pc = "clip"     -> 10
    [] pc = "compose"  -> 9
    [] pc = "final"    -> 8
    [] pc = "advance"  -> 7
    [] pc = "submit"   -> 6
    [] pc = "revoked"  -> 6
    [] pc = "flush"    -> 5
    [] pc = "cleanup"  -> 4
    [] pc = "check"    -> 3
    [] pc = "store"    -> 2
    [] pc = "raised"   -> 1
    [] OTHER           -> 0

\* An execution that finds a cancellation at its end becomes a reconciliation, once.
StepsLeft(w) ==
  StepsFrom(w.pc) + (IF w.mode = "execute" /\ w.pc # "idle" THEN 13 ELSE 0)

(* Code and faults only bring an invocation nearer to its end; the world   *)
(* around it leaves it where it is.                                        *)
InvocationRunsDown ==
  IF Invoke \/ Faulty THEN At("idle") \/ StepsLeft(work)' < StepsLeft(work)
  ELSE work' = work

LEMMA Fewer ==
  ASSUME NEW w \in Invocation, NEW v, NEW from, NEW to, w.pc = from, v.pc = to, v.mode = w.mode,
         StepsFrom(from) \in Nat, StepsFrom(to) \in Nat, StepsFrom(to) < StepsFrom(from)
  PROVE  StepsLeft(v) < StepsLeft(w)
  <1>1. from # "idle"
    BY DEF StepsFrom
  <1> HIDE DEF StepsFrom
  <1>2. StepsLeft(w) = StepsFrom(from) + (IF w.mode = "execute" THEN 13 ELSE 0)
    BY <1>1 DEF StepsLeft
  <1>3. StepsLeft(v) = StepsFrom(to) + (IF w.mode = "execute" /\ to # "idle" THEN 13 ELSE 0)
    BY DEF StepsLeft
  <1> QED
    BY <1>2, <1>3

LEMMA StepsNumber ==
  ASSUME NEW w \in Invocation
  PROVE  StepsLeft(w) \in 0 .. 29 /\ (StepsLeft(w) = 0 <=> w.pc = "idle")
  <1>1. w.pc \in {"idle", "received", "load", "cleanup", "check", "store", "raised"} \cup Pipeline
    BY DEF Invocation
  <1> QED
    BY <1>1 DEF StepsLeft, StepsFrom, Pipeline

\* Where an invocation goes in the same mode: further on.
Further ==
  /\ work'.mode = work.mode
  /\ \/ At("load") /\ work'.pc \in {"advance", "store", "flush", "poll", "cancel"}
     \/ At("advance") /\ work'.pc \in {"submit", "flush"}
     \/ At("submit") /\ work'.pc = "flush"
     \/ At("poll") /\ work'.pc \in {"flush", "settle"}
     \/ At("cancel") /\ work'.pc \in {"poll", "revoked", "settle"}
     \/ At("revoked") /\ work'.pc = "flush"
     \/ At("settle") /\ work'.pc \in {"collect", "advance", "flush"}
     \/ At("collect") /\ work'.pc \in {"clip", "advance", "flush"}
     \/ At("clip") /\ work'.pc \in {"compose", "advance", "flush"}
     \/ At("compose") /\ work'.pc \in {"final", "flush"}
     \/ At("final") /\ work'.pc = "flush"
     \/ At("flush") /\ work'.pc = "cleanup"
     \/ At("cleanup") /\ work'.pc \in {"store", "raised"}
     \/ At("cleanup") /\ work'.pc = "check" /\ work.mode = "execute"
     \/ At("check") /\ work'.pc = "store"
     \/ /\ work.pc \in {"load", "revoked", "settle", "clip", "final", "flush", "check", "store"}
        /\ work'.pc = "raised"

LEMMA FurtherIsFewer ==
  ASSUME work \in Invocation, Further
  PROVE  StepsLeft(work)' < StepsLeft(work)
  <1>1. work'.mode = work.mode
    BY DEF Further
  <1>2. /\ StepsFrom(work.pc) \in Nat /\ StepsFrom(work'.pc) \in Nat
        /\ StepsFrom(work'.pc) < StepsFrom(work.pc)
    BY DEF Further, At, StepsFrom
  <1> HIDE DEF Further
  <1>3. StepsLeft(work') < StepsLeft(work)
    BY <1>1, <1>2, Fewer
  <1> QED
    BY <1>3 DEF StepsLeft

LEMMA GoesFurther ==
  ASSUME Inv, Invoke \/ Faulty
  PROVE  \/ ReadCancellation \/ Claim \/ (CheckCancellation /\ task.cancel)
         \/ StoreResult \/ FailTask \/ Crash \/ Further
  <1> USE DEF At, job
  <1>0. work \in Invocation /\ Noted(work) \in Invocation
    <2>1. work \in Invocation /\ work.repo.job.attempt \in Attempts
      BY DEF Inv, TypeOK, Invocation, Snapshot, VideoJob
    <2> QED
      BY <2>1 DEF Noted, Invocation
  <1>1. /\ FailJob(work).mode = work.mode /\ FailJob(work).pc = "flush"
        /\ RetryOrFail(work).mode = work.mode /\ RetryOrFail(work).pc \in {"advance", "flush"}
        /\ RetryOrFail(Noted(work)).mode = work.mode
        /\ RetryOrFail(Noted(work)).pc \in {"advance", "flush"}
    <2>1. Noted(work).mode = work.mode
      BY <1>0 DEF Noted, Invocation
    <2>2. FailJob(work).mode = work.mode /\ FailJob(work).pc = "flush"
      BY <1>0, FailFields DEF Same
    <2>3. RetryOrFail(work).mode = work.mode /\ RetryOrFail(work).pc \in {"advance", "flush"}
      BY <2>2, <1>0, RetryFields DEF Same
    <2>4. FailJob(Noted(work)).mode = Noted(work).mode /\ FailJob(Noted(work)).pc = "flush"
      BY <1>0, FailFields DEF Same
    <2>5. RetryOrFail(Noted(work)).mode = Noted(work).mode
          /\ RetryOrFail(Noted(work)).pc \in {"advance", "flush"}
      BY <2>4, <1>0, RetryFields DEF Same
    <2> QED
      BY <2>1, <2>2, <2>3, <2>5
  <1>2. ASSUME NEW r PROVE [Archived(work, r) EXCEPT !.pc = "settle"].mode = work.mode
                           /\ [Archived(work, r) EXCEPT !.pc = "settle"].pc = "settle"
    BY <1>0, ArchivedFields
  <1>3. CASE EstimateRaises \/ (\E accepted \in BOOLEAN : SubmitRaises(accepted)) \/ CollectRaises
    BY <1>1, <1>3 DEF EstimateRaises, SubmitRaises, CollectRaises, Further
  <1>4. CASE Settle
    <2>1. CASE work' = [work EXCEPT !.pc = "collect"]
      BY <2>1, <1>0, <1>4 DEF Settle, Further, Invocation
    <2> QED
      BY <2>1, <1>1, <1>4 DEF Settle, Further
  <1>5. CASE CreateClip
    <2>1. CASE work' = [work EXCEPT !.pc = "compose", !.repo.job.shot = "READY"]
      BY <2>1, <1>0, <1>5 DEF CreateClip, Further, Invocation
    <2> QED
      BY <2>1, <1>1, <1>5 DEF CreateClip, Further
  <1>6. ASSUME NEW price \in Prices, Estimate(price) PROVE Further
    <2>1. CASE Affordable(price)
      BY <2>1, <1>6, <1>0 DEF Estimate, Further, Invocation
    <2> QED
      BY <2>1, <1>6, <1>1 DEF Estimate, Further
  <1>7. CASE Poll \/ CancelTooLate
    <2>1. CASE work' = [work EXCEPT !.pc = "flush"]
      <3>1. CASE Poll
        BY <3>1, <2>1, <1>0 DEF Poll, Further, Invocation
      <3>2. CASE CancelTooLate
        <4>1. work'.pc = "settle"
          BY <3>2, <1>2 DEF CancelTooLate
        <4>2. work'.pc = "flush"
          BY <2>1, <1>0 DEF Invocation
        <4> QED
          BY <4>1, <4>2
      <3> QED
        BY <1>7, <3>1, <3>2
    <2>2. CASE work' = [Archived(work, provider[job.attempt]) EXCEPT !.pc = "settle"]
      BY <2>2, <1>2, <1>7 DEF Poll, CancelTooLate, Further
    <2> QED
      BY <2>1, <2>2, <1>7 DEF Poll, CancelTooLate
  <1>8. CASE Revoke
    <2>1. At("revoked")
      BY <1>8 DEF Revoke
    <2>2. work'.mode = work.mode /\ work'.pc = "flush"
      BY <1>8, <1>0 DEF Revoke, Archived, Invocation
    <2> QED
      BY <2>1, <2>2 DEF Further
  <1>9. CASE Submit \/ PollRaises \/ ComposeRaises \/ CreateFinal
    BY <1>9, <1>0 DEF Submit, PollRaises, ComposeRaises, CreateFinal, Further, Invocation
  <1>10. CASE (\E stopped \in BOOLEAN : CancelUnproven(stopped)) \/ CancelProven
    BY <1>10, <1>0 DEF CancelUnproven, CancelProven, Further, Invocation
  <1>11. CASE \E pass \in BOOLEAN : Collect(pass) \/ Compose(pass)
    BY <1>11, <1>0 DEF Collect, Noted, Compose, Further, Invocation
  <1>12. CASE LoadNothing
    BY <1>12, <1>0 DEF LoadNothing, Further, Invocation
  <1>13. CASE LoadRow
    BY <1>13, <1>0 DEF LoadRow, Further, Invocation
  <1>14. CASE Flush
    BY <1>14, <1>0 DEF Flush, Further, Invocation
  <1>15. ASSUME NEW gone \in SUBSET work.deletes, Cleanup(gone)
         PROVE  Further
    <2>1. work.pc = "cleanup" /\ work'.mode = work.mode /\ work.mode \in {"execute", "reconcile"}
      BY <1>15, <1>0 DEF Cleanup, Invocation
    <2>2. work'.pc = IF work.mode = "reconcile" THEN "store"
                     ELSE IF job.status \in {"FAILED", "CANCELLED"} THEN "raised" ELSE "check"
      BY <1>15, <1>0 DEF Cleanup, Invocation
    <2> QED
      BY <2>1, <2>2 DEF Further
  <1>16. CASE CheckCancellation /\ ~task.cancel
    BY <1>16, <1>0 DEF CheckCancellation, Further, Invocation
  <1>17. CASE \E committed \in BOOLEAN : DatabaseRaises(committed)
    BY <1>17, <1>0 DEF DatabaseRaises, Further, Invocation
  <1> QED
    BY <1>3, <1>4, <1>5, <1>6, <1>7, <1>8, <1>9, <1>10, <1>11, <1>12, <1>13, <1>14,
       <1>15, <1>16, <1>17 DEF Invoke, Faulty

\* A reconciliation neither begins as one nor looks for a cancellation again.
ModeInv == work.pc \in {"received", "check"} => work.mode = "execute"

LEMMA ModeStep ==
  ASSUME Inv, ModeInv, Next
  PROVE  ModeInv'
  <1>0. work \in Invocation
    BY DEF Inv, TypeOK
  <1>1. CASE Further
    BY <1>1 DEF Further, ModeInv, At
  <1>2. CASE ReadCancellation
    BY <1>2 DEF ReadCancellation, ModeInv, Idle
  <1>3. CASE Claim
    BY <1>3, <1>0 DEF Claim, ModeInv, Invocation
  <1>4. CASE StoreResult \/ FailTask \/ Crash
    <2>1. work' = Idle
      BY <1>4 DEF StoreResult, FailTask, Crash
    <2> QED
      BY <2>1 DEF ModeInv, Idle
  <1>5. CASE CheckCancellation /\ task.cancel
    <2>1. work' = [Idle EXCEPT !.pc = "load", !.mode = "reconcile"]
      BY <1>5 DEF CheckCancellation
    <2> QED
      BY <2>1 DEF ModeInv, Idle
  <1>6. CASE work' = work
    BY <1>6 DEF ModeInv
  <1>7. CASE ~(Invoke \/ Faulty)
    BY <1>7, <1>6 DEF Next, RequestCancel, ProviderEnds
  <1> QED
    BY <1>1, <1>2, <1>3, <1>4, <1>5, <1>7, GoesFurther

LEMMA Modes == Spec => []ModeInv
  <1>1. Init => ModeInv
    BY DEF Init, ModeInv, Idle
  <1>2. Inv /\ ModeInv /\ [Next]_vars => ModeInv'
    BY ModeStep DEF vars, ModeInv
  <1> QED
    BY <1>1, <1>2, Invariance, PTL DEF Spec

LEMMA RunsDown ==
  ASSUME Inv, ModeInv, Next
  PROVE  InvocationRunsDown
  <1>0. work \in Invocation
    BY DEF Inv, TypeOK
  <1>1. CASE Invoke \/ Faulty
    <2>1. CASE Further
      BY <2>1, <1>0, <1>1, FurtherIsFewer DEF InvocationRunsDown
    <2>2. CASE ReadCancellation
      BY <2>2, <1>1 DEF ReadCancellation, InvocationRunsDown
    <2>3. CASE Claim
      <3>1. work.pc = "received" /\ work'.pc = "load"
        BY <2>3, <1>0 DEF Claim, At, Invocation
      <3>2. work.mode = "execute"
        BY <3>1 DEF ModeInv
      <3>3. StepsLeft(work') < StepsLeft(work)
        BY <3>1, <3>2 DEF StepsLeft, StepsFrom
      <3> QED
        BY <3>3, <1>1 DEF InvocationRunsDown, StepsLeft
    <2>4. CASE CheckCancellation /\ task.cancel
      <3>1. work.pc = "check" /\ work'.pc = "load" /\ work'.mode = "reconcile"
        BY <2>4 DEF CheckCancellation, At, Idle
      <3>2. work.mode = "execute"
        BY <3>1 DEF ModeInv
      <3>3. StepsLeft(work') < StepsLeft(work)
        BY <3>1, <3>2 DEF StepsLeft, StepsFrom
      <3> QED
        BY <3>3, <1>1 DEF InvocationRunsDown, StepsLeft
    <2>5. CASE StoreResult \/ FailTask \/ Crash
      <3>1. work.pc # "idle" /\ work' = Idle
        BY <2>5 DEF StoreResult, FailTask, Crash, At
      <3>2. StepsLeft(work) \in 0 .. 29 /\ StepsLeft(work) # 0 /\ StepsLeft(Idle) = 0
        BY <3>1, <1>0, StepsNumber, IdleTypes DEF Idle
      <3>3. StepsLeft(work') < StepsLeft(work)
        BY <3>1, <3>2
      <3> QED
        BY <3>3, <1>1 DEF InvocationRunsDown, StepsLeft
    <2> QED
      BY <2>1, <2>2, <2>3, <2>4, <2>5, <1>1, GoesFurther
  <1>2. CASE ~(Invoke \/ Faulty)
    BY <1>2 DEF InvocationRunsDown, Next, RequestCancel, ProviderEnds
  <1> QED
    BY <1>1, <1>2

(* Each invocation takes at most 29 steps, and visits no place twice in    *)
(* one mode: whatever the provider answers, a quality retry leads to one   *)
(* submission and then out of the invocation, never to a wait within it,   *)
(* and a cancellation found at the end turns it round once.                *)
THEOREM InvocationsEnd ==
  Spec => [](StepsLeft(work) \in 0 .. 29) /\ [][InvocationRunsDown]_vars
  <1>1. Inv => StepsLeft(work) \in 0 .. 29
    BY StepsNumber DEF Inv, TypeOK
  <1>2. Inv /\ ModeInv /\ [Next]_vars => [InvocationRunsDown]_vars
    BY RunsDown
  <1> QED
    BY <1>1, <1>2, Invariance, Modes, PTL DEF Spec

=============================================================================
