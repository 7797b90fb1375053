------------------------- MODULE SideEffectGateway -------------------------
(***************************************************************************)
(* SideEffectGateway: the idempotency operation of one key, the calls of   *)
(* execute that compete for it, and the provider that does the paid work.  *)
(*                                                                         *)
(* A caller is one call of execute.  Its lease_owner is unique, as the     *)
(* callers in the repository make it (a uuid4 per call), and it makes at   *)
(* most one provider call, so the caller also names the provider request   *)
(* and its result.  Every method is one UPDATE, or in claim one            *)
(* transaction that holds the row, and is one step here; the callers       *)
(* interleave between them.                                                *)
(*                                                                         *)
(* The lease lapses at any time, while its owner works on; a caller stops  *)
(* at any time; the acknowledgement of a write may be lost; a provider     *)
(* request that was sent may be accepted long after its caller is gone.    *)
(***************************************************************************)
EXTENDS FiniteSets, Integers

CONSTANTS
    Caller,
    Request,    \* [Caller -> request hashes]
    None        \* SQL NULL

ASSUME GatewayAssumption == None \notin Caller

VARIABLES
    op,         \* the row of idempotency_operations
    pc,         \* where each caller stands in execute
    handle,     \* the flags of its OperationHandle that are set
    asked,      \* the provider request id in its RECONCILE claim
    found,      \* the provider state its lookup returned
    effect,     \* the provider: what became of each caller's request
    reply       \* the result each caller was given

vars == <<op, pc, handle, asked, found, effect, reply>>

Settled == {"succeeded", "failed_final", "ambiguous"}

\* "absent": before the INSERT of the first claim.
Row == [status  : Settled \cup {"absent", "in_progress", "failed_retryable"},
        hash    : {Request[c] : c \in Caller} \cup {None},
        owner   : Caller \cup {None},
        lease   : {"none", "live", "lapsed"},
        started : BOOLEAN,                 \* provider_attempt_started_at is set
        request : Caller \cup {None},      \* provider_request_id
        result  : Caller \cup {None}]

PC == {"idle", "claimed", "marked", "calling", "failing",
       "looking", "adopting", "retrying", "ended"}

Goto(c, where) == pc' = [pc EXCEPT ![c] = where]

-----------------------------------------------------------------------------
(* The row. *)

Inserted(c) ==
    [status |-> "in_progress", hash |-> Request[c], owner |-> c, lease |-> "live",
     started |-> FALSE, request |-> None, result |-> None]

Leased(c) == [op EXCEPT !.status = "in_progress", !.owner = c, !.lease = "live"]

Released(status) == [op EXCEPT !.status = status, !.owner = None, !.lease = "none"]

\* fail_retryable and _confirmed_provider_failure: the next claim may execute again.
Cleared == [Released("failed_retryable") EXCEPT !.started = FALSE, !.request = None]

Succeeded(r) == [Released("succeeded") EXCEPT !.result = r]

\* Slip: the lease owner is not compared.
HoldsAnyLease(c) == op.status = "in_progress"

HoldsLease(c) == op.status = "in_progress" /\ op.owner = c

\* An UPDATE that matches only the row its caller has leased; else LeaseLostError.
Update(c, row) == op' = IF HoldsLease(c) THEN row ELSE op

-----------------------------------------------------------------------------
(* claim *)

Claiming(c) == pc[c] \in {"idle", "retrying"}

\* Slip: the request hash is not compared.
SameKey(c) == op.status # "absent"

SameRequest(c) == op.status # "absent" /\ op.hash = Request[c]

LeaseIsLive == op.status = "in_progress" /\ op.lease = "live"

Takeable(c) == SameRequest(c) /\ op.status \notin Settled /\ ~LeaseIsLive

\* Slip: the barrier of a lost caller is ignored.
UnboundWithoutBarrier == op.request = None

\* Nothing was started under an earlier lease.
Unbound == op.request = None /\ ~op.started

\* The INSERT: the first claim.
ClaimNew(c) ==
    /\ Claiming(c) /\ op.status = "absent"
    /\ op' = Inserted(c)
    /\ Goto(c, "claimed")
    /\ UNCHANGED <<handle, asked, found, effect, reply>>

\* EXECUTE
ClaimAgain(c) ==
    /\ Claiming(c) /\ Takeable(c) /\ Unbound
    /\ op' = Leased(c)
    /\ Goto(c, "claimed")
    /\ UNCHANGED <<handle, asked, found, effect, reply>>

\* RECONCILE: the second claim of an execute has no branch for it and raises, with the
\* lease taken.
ClaimToReconcile(c) ==
    /\ Claiming(c) /\ Takeable(c) /\ op.request # None
    /\ op' = Leased(c)
    /\ asked' = [asked EXCEPT ![c] = op.request]
    /\ Goto(c, IF pc[c] = "idle" THEN "looking" ELSE "ended")
    /\ UNCHANGED <<handle, found, effect, reply>>

\* AMBIGUOUS: started, and no request id to reconcile with.
ClaimAmbiguous(c) ==
    /\ Claiming(c) /\ Takeable(c) /\ op.request = None /\ ~Unbound
    /\ op' = Released("ambiguous")
    /\ Goto(c, "ended")
    /\ UNCHANGED <<handle, asked, found, effect, reply>>

\* REPLAY
Replay(c) ==
    /\ Claiming(c) /\ SameRequest(c) /\ op.status = "succeeded"
    /\ reply' = [reply EXCEPT ![c] = op.result]
    /\ Goto(c, "ended")
    /\ UNCHANGED <<op, handle, asked, found, effect>>

\* A conflict, WAIT, FINAL_FAILURE, or AMBIGUOUS from an earlier claim.
TurnAway(c) ==
    /\ Claiming(c)
    /\ \/ op.status # "absent" /\ ~SameRequest(c)
       \/ LeaseIsLive \/ op.status \in {"failed_final", "ambiguous"}
    /\ Goto(c, "ended")
    /\ UNCHANGED <<op, handle, asked, found, effect, reply>>

-----------------------------------------------------------------------------
(* invoke: the caller's code under an EXECUTE claim. *)

InInvoke(c) == pc[c] \in {"claimed", "marked", "calling", "failing"}

MarkProviderAttemptStarted(c, acked) ==
    /\ pc[c] = "claimed"
    /\ Update(c, [op EXCEPT !.started = TRUE])
    /\ IF HoldsLease(c) /\ acked
       THEN Goto(c, "marked") /\ handle' = [handle EXCEPT ![c] = @ \cup {"started"}]
       ELSE Goto(c, "failing") /\ UNCHANGED handle
    /\ UNCHANGED <<asked, found, effect, reply>>

Send(c) ==
    /\ pc[c] = "marked"
    /\ effect' = [effect EXCEPT ![c] = "sent"]
    /\ Goto(c, "calling")
    /\ UNCHANGED <<op, handle, asked, found, reply>>

\* The provider has answered with a request id.
RecordProviderRequest(c, acked) ==
    /\ pc[c] = "calling" /\ "recorded" \notin handle[c]
    /\ effect[c] \in {"pending", "done", "failed"}
    /\ LET bound == HoldsLease(c) /\ op.request \in {None, c}
       IN  /\ op' = IF bound THEN [op EXCEPT !.started = TRUE, !.request = c] ELSE op
           /\ IF bound /\ acked
              THEN handle' = [handle EXCEPT ![c] = @ \cup {"recorded"}] /\ UNCHANGED pc
              ELSE Goto(c, "failing") /\ UNCHANGED handle
    /\ UNCHANGED <<asked, found, effect, reply>>

\* succeed, and execute returns the result.
Succeed(c, acked) ==
    /\ pc[c] = "calling" /\ effect[c] = "done"
    /\ Update(c, Succeeded(c))
    /\ reply' = IF HoldsLease(c) /\ acked THEN [reply EXCEPT ![c] = c] ELSE reply
    /\ Goto(c, "ended")
    /\ UNCHANGED <<handle, asked, found, effect>>

\* Slip: a retryable error is taken at its word after the attempt has started.
MayFailRetryableAlways(c) == TRUE

\* RetryableSideEffectError, raised only when the provider is known not to have accepted,
\* or a retryable SideEffectExecutionError before the attempt started.
MayFailRetryable(c) == effect[c] \in {"none", "refused"} \/ handle[c] = {}

FailRetryable(c) ==
    /\ InInvoke(c) /\ MayFailRetryable(c)
    /\ op' = IF HoldsLease(c) /\ op.request = None THEN Cleared ELSE op
    /\ Goto(c, "ended")
    /\ UNCHANGED <<handle, asked, found, effect, reply>>

\* A final SideEffectExecutionError before the attempt started.
FailFinal(c) ==
    /\ InInvoke(c) /\ handle[c] = {}
    /\ Update(c, Released("failed_final"))
    /\ Goto(c, "ended")
    /\ UNCHANGED <<handle, asked, found, effect, reply>>

\* Any other exception, with the request id bound.
FailNeedsReconciliation(c) ==
    /\ InInvoke(c) /\ "recorded" \in handle[c]
    /\ Update(c, Released("failed_retryable"))
    /\ Goto(c, "ended")
    /\ UNCHANGED <<handle, asked, found, effect, reply>>

\* Any other exception, without it.
FailAmbiguous(c) ==
    /\ InInvoke(c) /\ "recorded" \notin handle[c]
    /\ Update(c, Released("ambiguous"))
    /\ Goto(c, "ended")
    /\ UNCHANGED <<handle, asked, found, effect, reply>>

-----------------------------------------------------------------------------
(* reconcile *)

\* Slip: a request that is still pending is reported as failed.
LookupStatesHasty(r) ==
    {"unknown"} \cup (IF effect[r] = "pending" THEN {"failed"} ELSE {effect[r]})

\* The states a lookup of request r may return; a caller without a reconciler goes on as
\* if it were unknown.
LookupStates(r) == {"unknown", effect[r]}

Lookup(c, state) ==
    /\ pc[c] = "looking" /\ state \in LookupStates(asked[c])
    /\ found' = [found EXCEPT ![c] = state]
    /\ Goto(c, "adopting")
    /\ UNCHANGED <<op, handle, asked, effect, reply>>

Adopting(c, state) == pc[c] = "adopting" /\ found[c] = state

AdoptSuccess(c) ==
    /\ Adopting(c, "done")
    /\ Update(c, Succeeded(asked[c]))
    /\ reply' = IF HoldsLease(c) THEN [reply EXCEPT ![c] = asked[c]] ELSE reply
    /\ Goto(c, "ended")
    /\ UNCHANGED <<handle, asked, found, effect>>

ExtendLease(c) ==
    /\ Adopting(c, "pending")
    /\ Update(c, [op EXCEPT !.lease = "live"])
    /\ Goto(c, "ended")
    /\ UNCHANGED <<handle, asked, found, effect, reply>>

\* _confirmed_provider_failure; RETRY_SAFE, and execute claims a second time.
ConfirmFailure(c) ==
    /\ Adopting(c, "failed")
    /\ Update(c, Cleared)
    /\ Goto(c, IF HoldsLease(c) THEN "retrying" ELSE "ended")
    /\ UNCHANGED <<handle, asked, found, effect, reply>>

MarkAmbiguous(c) ==
    /\ Adopting(c, "unknown")
    /\ Update(c, Released("ambiguous"))
    /\ Goto(c, "ended")
    /\ UNCHANGED <<handle, asked, found, effect, reply>>

-----------------------------------------------------------------------------
(* The provider, the clock and the processes. *)

ProviderStep(c, from, to) ==
    /\ effect[c] = from
    /\ effect' = [effect EXCEPT ![c] = to]
    /\ UNCHANGED <<op, pc, handle, asked, found, reply>>

Provider(c) ==
    \/ ProviderStep(c, "sent", "refused") \/ ProviderStep(c, "sent", "pending")
    \/ ProviderStep(c, "pending", "done") \/ ProviderStep(c, "pending", "failed")

LeaseLapses ==
    /\ op.lease = "live"
    /\ op' = [op EXCEPT !.lease = "lapsed"]
    /\ UNCHANGED <<pc, handle, asked, found, effect, reply>>

\* The process dies, the call is cancelled, or its connection is lost.
Crash(c) ==
    /\ pc[c] \notin {"idle", "ended"}
    /\ Goto(c, "ended")
    /\ UNCHANGED <<op, handle, asked, found, effect, reply>>

Init ==
    /\ op = [status |-> "absent", hash |-> None, owner |-> None, lease |-> "none",
             started |-> FALSE, request |-> None, result |-> None]
    /\ pc = [c \in Caller |-> "idle"]
    /\ handle = [c \in Caller |-> {}]
    /\ asked = [c \in Caller |-> None]
    /\ found = [c \in Caller |-> "unknown"]
    /\ effect = [c \in Caller |-> "none"]
    /\ reply = [c \in Caller |-> None]

Next ==
    \/ LeaseLapses
    \/ \E c \in Caller :
        \/ ClaimNew(c) \/ ClaimAgain(c) \/ ClaimToReconcile(c) \/ ClaimAmbiguous(c)
        \/ Replay(c) \/ TurnAway(c)
        \/ \E acked \in BOOLEAN :
              \/ MarkProviderAttemptStarted(c, acked) \/ RecordProviderRequest(c, acked)
              \/ Succeed(c, acked)
        \/ Send(c)
        \/ FailRetryable(c) \/ FailFinal(c) \/ FailNeedsReconciliation(c) \/ FailAmbiguous(c)
        \/ \E state \in {"unknown", "pending", "done", "failed"} : Lookup(c, state)
        \/ AdoptSuccess(c) \/ ExtendLease(c) \/ ConfirmFailure(c) \/ MarkAmbiguous(c)
        \/ Provider(c) \/ Crash(c)

Spec == Init /\ [][Next]_vars

-----------------------------------------------------------------------------
(* Properties *)

\* Every variable has its type, and exactly an operation in progress has an owner and a
\* lease, exactly a succeeded one a result.
TypeOK ==
    /\ op \in Row
    /\ op.status = "in_progress" <=> op.owner # None
    /\ op.status = "in_progress" <=> op.lease # "none"
    /\ op.status = "succeeded" <=> op.result # None
    /\ pc \in [Caller -> PC]
    /\ handle \in [Caller -> SUBSET {"started", "recorded"}]
    /\ asked \in [Caller -> Caller \cup {None}]
    /\ found \in [Caller -> {"unknown", "pending", "done", "failed"}]
    /\ effect \in [Caller -> {"none", "sent", "refused", "pending", "done", "failed"}]
    /\ reply \in [Caller -> Caller \cup {None}]

\* The effect of c exists or may come to exist.
Live(c) == effect[c] \in {"sent", "pending", "done"}

Spending(c) == Live(c) \/ pc[c] = "marked"

\* However calls of one key race, crash and are retried, the provider never has two of
\* their requests that it has accepted or may yet accept (IDEMPOTENCY-SIDE-EFFECT-GATEWAY-V1.md:8).
PaidAtMostOnce == \A c, d \in Caller : Live(c) /\ Live(d) => c = d

\* Money that may have been spent is never forgotten: the operation is open behind its
\* barrier, has the request id to ask for, or says that its outcome is unknown.
NothingPaidIsForgotten ==
    \A c \in Caller : Live(c) =>
        CASE op.status = "in_progress"      -> op.started /\ op.request \in {None, c}
          [] op.status = "failed_retryable" -> op.request = c
          [] op.status = "succeeded"        -> op.result = c
          [] OTHER                          -> op.status = "ambiguous"

\* Everyone who is given a result is given the same one, it is a finished effect of the
\* key, and it answers the request that the caller made.
RepliesAgree ==
    \A c \in Caller : reply[c] # None =>
        /\ effect[reply[c]] = "done"
        /\ reply[c] = op.result
        /\ Request[reply[c]] = Request[c]

\* A settled operation is never reopened, by no late write of a caller that lost it.
SettledIsFinal ==
    [][op.status \in Settled => op' = op]_vars

\* The barrier that a caller set before its call is taken away only when that call, or
\* any other, neither has an effect nor can come to have one.
BarrierOutlivesTheCall ==
    [][op.started /\ ~op'.started => \A c \in Caller : ~Live(c) /\ pc'[c] # "marked"]_vars

-----------------------------------------------------------------------------
\* The operation implements PaidOnce: the spending call is the one past the barrier.
Once == INSTANCE PaidOnce WITH
    spending <- IF \E c \in Caller : Spending(c)
                THEN CHOOSE c \in Caller : Spending(c) ELSE None,
    answer   <- CASE op.status = "ambiguous"    -> "unknown"
                  [] op.status = "failed_final" -> "failed"
                  [] op.status = "succeeded"    -> "result"
                  [] OTHER                      -> "open",
    result   <- op.result,
    reply    <- reply

\* Every behaviour of the gateway is one of PaidOnce.
ImplementsPaidOnce == Once!Spec
=============================================================================
