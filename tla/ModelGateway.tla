---------------------------- MODULE ModelGateway ----------------------------
(***************************************************************************)
(* ModelGateway.invoke as it is hosted: LedgerBudgetGuard over the cost    *)
(* gateway, PostgresModelPaidInvocationGuard over the side effect gateway, *)
(* and the providers.                                                      *)
(*                                                                         *)
(* A call is one invoke.  Its operation id is derived from what is asked,  *)
(* so a repeated request is another call of the same operation: an HTTP    *)
(* retry, or the same turn of a resumed run.  Each await on the database   *)
(* or the provider is a step, and a call may stop for good between any     *)
(* two: it crashes, is cancelled, or its accounting raises.                *)
(*                                                                         *)
(* guard[k] is the idempotency operation of key k, as far as calls without *)
(* a reconciler can tell its states apart: whatever SideEffectGateway      *)
(* would reconcile is "unknown" to them.                                   *)
(***************************************************************************)
EXTENDS CostGateway

CONSTANTS
    OperationOf,    \* [Call -> Operation]
    Routes,         \* [Call -> SUBSET Candidate], what the router may find for it
    Charge,         \* [Candidate -> Amount], what the provider reports as the cost
    MaxAttempts     \* max_attempts_per_provider

ASSUME ModelAssumption ==
    /\ OperationOf \in [Call -> Operation]
    /\ Routes \in [Call -> SUBSET Candidate]
    /\ Charge \in [Candidate -> Amount]
    /\ \A p \in Candidate : Estimate[p] \in Amount
    /\ MaxAttempts \in Nat \ {0}

VARIABLES
    pc,         \* where each call stands in invoke
    at,         \* its candidate
    left,       \* the candidates it has not tried
    attempt,    \* provider_attempt
    flight,     \* what became of its last provider request
    answer,     \* the call whose result the paid guard gave it
    guard,      \* [Key -> the idempotency operation]
    outcome,    \* how it ended
    overlapped  \* a history: the operations that had two calls under way at once

calls == <<pc, at, left, attempt, flight, answer, guard, outcome, overlapped>>

vars == <<costs, calls>>

PC == {"idle", "routing", "reserved", "claimed", "calling", "booking", "releasing",
       "ended", "crashed"}

Outcome == {"answered", "ambiguous", "failed", "over_budget", "conflict"}

ASSUME OutcomeAssumption == None \notin Outcome

\* "started": behind the barrier that provider_attempt_started_at is.
Guard == [status : {"open", "claimed", "started", "result", "unknown"},
          by     : Call \cup {None},    \* the lease owner, or whose result it is
          lapsed : BOOLEAN]             \* the lease has

OpenGuard == [status |-> "open", by |-> None, lapsed |-> FALSE]

UnknownGuard == [status |-> "unknown", by |-> None, lapsed |-> FALSE]

ClaimedBy(c) == [status |-> "claimed", by |-> c, lapsed |-> FALSE]

ResultOf(c) == [status |-> "result", by |-> c, lapsed |-> FALSE]

KeyOf(c) == <<OperationOf[c], at[c]>>

Goto(c, where) == pc' = [pc EXCEPT ![c] = where]

\* The candidates and the attempt are local to invoke.
Forget(c) ==
    /\ left' = [left EXCEPT ![c] = {}]
    /\ attempt' = [attempt EXCEPT ![c] = 0]

End(c, how) ==
    /\ Goto(c, "ended")
    /\ outcome' = [outcome EXCEPT ![c] = how]
    /\ Forget(c)

SameOperation(c, d) == OperationOf[c] = OperationOf[d]

UnderWay(c) == pc[c] \notin {"idle", "ended", "crashed"}

-----------------------------------------------------------------------------
(* Routing and reservation *)

Invoke(c) ==
    /\ pc[c] = "idle"
    /\ overlapped' = overlapped \cup
          (IF \E d \in Call : SameOperation(c, d) /\ UnderWay(d) THEN {OperationOf[c]} ELSE {})
    /\ Goto(c, "routing")
    /\ UNCHANGED <<costs, at, left, attempt, flight, answer, guard, outcome>>

\* The candidates are ranked by health, cost and preference: any may be the next.
ReserveBudget(c) ==
    /\ pc[c] = "routing"
    /\ \E p \in left[c] :
        /\ Reserve(<<OperationOf[c], p>>)
        /\ at' = [at EXCEPT ![c] = p]
        /\ left' = [left EXCEPT ![c] = @ \ {p}]
    /\ attempt' = [attempt EXCEPT ![c] = 1]
    /\ flight' = [flight EXCEPT ![c] = "none"]
    /\ Goto(c, "reserved")
    /\ UNCHANGED <<answer, guard, outcome, overlapped>>

BudgetExceeded(c) ==
    /\ pc[c] = "routing"
    /\ \E p \in left[c] : BudgetRefuses(<<OperationOf[c], p>>)
    /\ End(c, "over_budget")
    /\ UNCHANGED <<costs, at, flight, answer, guard, overlapped>>

\* No candidate (is left), the request's own limit is below the estimate, allow_fallback
\* is false, or the error was not fallbackable.
NoRoute(c) ==
    /\ pc[c] = "routing"
    /\ End(c, "failed")
    /\ UNCHANGED <<costs, at, flight, answer, guard, overlapped>>

-----------------------------------------------------------------------------
(* The paid guard and the provider *)

\* Slip: a lapsed lease is taken over whatever was started under it.
ClaimableOrLapsed(k) == guard[k].status = "open" \/ guard[k].lapsed

Claimable(k) ==
    \/ guard[k].status = "open"
    \/ guard[k].status = "claimed" /\ guard[k].lapsed

\* EXECUTE
Claim(c) ==
    /\ pc[c] = "reserved" /\ Claimable(KeyOf(c))
    /\ guard' = [guard EXCEPT ![KeyOf(c)] = ClaimedBy(c)]
    /\ Goto(c, "claimed")
    /\ UNCHANGED <<costs, at, left, attempt, flight, answer, outcome, overlapped>>

\* REPLAY
ReplayResult(c) ==
    /\ pc[c] = "reserved" /\ guard[KeyOf(c)].status = "result"
    /\ answer' = [answer EXCEPT ![c] = guard[KeyOf(c)].by]
    /\ Goto(c, "booking")
    /\ UNCHANGED <<costs, at, left, attempt, flight, guard, outcome, overlapped>>

\* WAIT, AMBIGUOUS, or the database fails: an error of unknown delivery state.
GuardUnsure(c) ==
    LET k == KeyOf(c) IN
    /\ pc[c] = "reserved"
    /\ \/ UNCHANGED guard
       \/ /\ guard[k].status = "started" /\ guard[k].lapsed
          /\ guard' = [guard EXCEPT ![k] = UnknownGuard]
    /\ Goto(c, "booking")
    /\ UNCHANGED <<costs, at, left, attempt, flight, answer, outcome, overlapped>>

\* Slip: the lease owner is not compared.
HoldsAny(c) == guard[KeyOf(c)].status \in {"claimed", "started"}

\* The owner's writes succeed also when its lease has lapsed, until it is taken over.
Holds(c) == guard[KeyOf(c)].status \in {"claimed", "started"} /\ guard[KeyOf(c)].by = c

\* mark_provider_attempt_started, and the request is sent.
CallProvider(c) ==
    /\ pc[c] = "claimed" /\ Holds(c)
    /\ guard' = [guard EXCEPT ![KeyOf(c)].status = "started"]
    /\ flight' = [flight EXCEPT ![c] = "sent"]
    /\ Goto(c, "calling")
    /\ UNCHANGED <<costs, at, left, attempt, answer, outcome, overlapped>>

\* The provider answers, and the owner of the lease records it.
ProviderAnswers(c) ==
    /\ pc[c] = "calling" /\ flight[c] = "accepted" /\ Holds(c)
    /\ guard' = [guard EXCEPT ![KeyOf(c)] = ResultOf(c)]
    /\ answer' = [answer EXCEPT ![c] = c]
    /\ Goto(c, "booking")
    /\ UNCHANGED <<costs, at, left, attempt, flight, outcome, overlapped>>

MayRetry(c) == attempt[c] < MaxAttempts

\* Slip: a retry is not counted.
SameAttempt(c) == attempt[c]

NextAttempt(c) == attempt[c] + 1

\* Slip: a timeout is taken for a refusal.
IsRefusedOrLate(c) == flight[c] \in {"sent", "refused"}

IsRefused(c) == flight[c] = "refused"

\* NOT_ACCEPTED: the barrier is cleared. Retried under the same reservation, or given up.
NotAccepted(c) ==
    /\ pc[c] = "calling" /\ IsRefused(c) /\ Holds(c)
    /\ guard' = [guard EXCEPT ![KeyOf(c)] = OpenGuard]
    /\ \/ /\ MayRetry(c)
          /\ attempt' = [attempt EXCEPT ![c] = NextAttempt(c)]
          /\ flight' = [flight EXCEPT ![c] = "none"]
          /\ Goto(c, "reserved")
       \/ Goto(c, "releasing") /\ UNCHANGED <<attempt, flight>>
    /\ UNCHANGED <<costs, at, left, answer, outcome, overlapped>>

\* What a call may leave in its guard when it fails: nothing new, "ambiguous", or a write
\* whose acknowledgement was lost.
Leavings(c) ==
    LET row == guard[KeyOf(c)] IN
    {row} \cup IF ~Holds(c) THEN {} ELSE
        {UnknownGuard}
        \cup (IF pc[c] = "claimed" THEN {[row EXCEPT !.status = "started"]} ELSE {})
        \cup (IF flight[c] = "accepted" THEN {ResultOf(c)} ELSE {})
        \cup (IF flight[c] = "refused" THEN {OpenGuard} ELSE {})

\* A timeout, a lost response, a lost lease, a failing database: any error that proves
\* nothing, whatever has become of the request.
ProviderUnsure(c) ==
    /\ pc[c] \in {"claimed", "calling"}
    /\ \E row \in Leavings(c) : guard' = [guard EXCEPT ![KeyOf(c)] = row]
    /\ Goto(c, "booking")
    /\ UNCHANGED <<costs, at, left, attempt, flight, answer, outcome, overlapped>>

-----------------------------------------------------------------------------
(* Accounting *)

\* The cost of the result, or else the estimate.
Cost(c) ==
    IF answer[c] = None
    THEN [candidate |-> at[c], amount |-> Estimate[at[c]], source |-> None]
    ELSE [candidate |-> at[c], amount |-> Charge[at[c]], source |-> answer[c]]

CommitCost(c) ==
    /\ pc[c] = "booking"
    /\ Commit(KeyOf(c), Cost(c))
    /\ End(c, IF answer[c] = None THEN "ambiguous" ELSE "answered")
    /\ UNCHANGED <<at, flight, answer, guard, overlapped>>

CommitConflict(c) ==
    /\ pc[c] = "booking"
    /\ CommitRefused(KeyOf(c), Cost(c))
    /\ End(c, "conflict")
    /\ UNCHANGED <<costs, at, flight, answer, guard, overlapped>>

ReleaseBudget(c) ==
    /\ pc[c] = "releasing"
    /\ Release(KeyOf(c))
    /\ Goto(c, "routing")
    /\ UNCHANGED <<at, left, attempt, flight, answer, guard, outcome, overlapped>>

ReleaseConflict(c) ==
    /\ pc[c] = "releasing"
    /\ ReleaseRefused(KeyOf(c))
    /\ End(c, "conflict")
    /\ UNCHANGED <<costs, at, flight, answer, guard, overlapped>>

-----------------------------------------------------------------------------
(* The environment *)

Crash(c) ==
    /\ UnderWay(c)
    /\ Goto(c, "crashed") /\ Forget(c)
    /\ UNCHANGED <<costs, at, flight, answer, guard, outcome, overlapped>>

\* Whatever has become of the call.
ProviderDecides(c) ==
    /\ flight[c] = "sent"
    /\ \E what \in {"accepted", "refused"} : flight' = [flight EXCEPT ![c] = what]
    /\ UNCHANGED <<costs, pc, at, left, attempt, answer, guard, outcome, overlapped>>

LeaseLapses(k) ==
    /\ guard[k].status \in {"claimed", "started"} /\ ~guard[k].lapsed
    /\ guard' = [guard EXCEPT ![k].lapsed = TRUE]
    /\ UNCHANGED <<costs, pc, at, left, attempt, flight, answer, outcome, overlapped>>

ReservationLapses(k) == Lapse(k) /\ UNCHANGED calls

-----------------------------------------------------------------------------
Init ==
    /\ CostInit
    /\ pc = [c \in Call |-> "idle"]
    /\ at = [c \in Call |-> None]
    /\ left = Routes
    /\ attempt = [c \in Call |-> 0]
    /\ flight = [c \in Call |-> "none"]
    /\ answer = [c \in Call |-> None]
    /\ guard = [k \in Key |-> OpenGuard]
    /\ outcome = [c \in Call |-> None]
    /\ overlapped = {}

\* What the code of a call does once it has begun.
Proceed(c) ==
    \/ ReserveBudget(c) \/ BudgetExceeded(c) \/ NoRoute(c)
    \/ Claim(c) \/ ReplayResult(c) \/ GuardUnsure(c)
    \/ CallProvider(c) \/ ProviderAnswers(c) \/ NotAccepted(c) \/ ProviderUnsure(c)
    \/ CommitCost(c) \/ CommitConflict(c) \/ ReleaseBudget(c) \/ ReleaseConflict(c)

Next ==
    \/ \E c \in Call : Invoke(c) \/ Proceed(c) \/ Crash(c) \/ ProviderDecides(c)
    \/ \E k \in Key : LeaseLapses(k) \/ ReservationLapses(k)

Spec == Init /\ [][Next]_vars

\* A coroutine that is not cancelled is run again, its transactions end, and every
\* adapter call has a timeout, after which ProviderUnsure is possible.
FairSpec == Spec /\ \A c \in Call : WF_vars(Proceed(c))

-----------------------------------------------------------------------------
TypeOK ==
    /\ CostTypeOK
    /\ pc \in [Call -> PC]
    /\ at \in [Call -> Candidate \cup {None}]
    /\ left \in [Call -> SUBSET Candidate]
    /\ attempt \in [Call -> 0 .. MaxAttempts]
    /\ flight \in [Call -> {"none", "sent", "accepted", "refused"}]
    /\ answer \in [Call -> Call \cup {None}]
    /\ guard \in [Key -> Guard]
    /\ outcome \in [Call -> Outcome \cup {None}]
    /\ overlapped \subseteq Operation

\* The provider has, or may yet have, accepted a request of c to its candidate.
MayBePaid(c) == flight[c] \in {"sent", "accepted"}

\* However often an operation is repeated, at the same time or later, a candidate is paid
\* for it at most once.
CandidatePaidOnce ==
    \A c, d \in Call :
        MayBePaid(c) /\ MayBePaid(d) /\ KeyOf(c) = KeyOf(d) => c = d

\* Who is answered is answered with a result that its provider was paid for, and the
\* ledger holds the cost of that result for the operation.
AnswerIsBooked ==
    \A c \in Call : outcome[c] = "answered" =>
        /\ flight[answer[c]] = "accepted" /\ KeyOf(answer[c]) = KeyOf(c)
        /\ actual[OperationOf[c]] = Cost(c)

Sequential(c) == OperationOf[c] \notin overlapped

\* A call that has ended with a provider that was or may have been paid has left an actual
\* cost, if no two calls of its operation overlapped: a reservation that an earlier call
\* committed, gave back or left behind does not lose it.
SequentialCostIsBooked ==
    \A c \in Call :
        Sequential(c) /\ pc[c] = "ended" /\ MayBePaid(c) => actual[OperationOf[c]] # None

\* COST-LEDGER-BUDGET-QUOTA-V1.md:98-102: the cost of a paid provider call is never lost,
\* also when calls overlap.
SunkCostIsBooked ==
    \A c \in Call : pc[c] = "ended" /\ MayBePaid(c) => actual[OperationOf[c]] # None

\* A call that is not cut off ends, whatever the provider, the leases and the budget do.
CallsEnd == \A c \in Call : pc[c] = "routing" ~> pc[c] \in {"ended", "crashed"}

-----------------------------------------------------------------------------
\* The calls use the cost gateway through its operations only.
ImplementsCostGateway == CostSpec

\* Per key, the paid guard and its calls keep what PaidOnce promises.
Payer(k) ==
    IF \E c \in Call : MayBePaid(c) /\ KeyOf(c) = k
    THEN CHOOSE c \in Call : MayBePaid(c) /\ KeyOf(c) = k ELSE None

Paid(k) == INSTANCE PaidOnce WITH
    Caller   <- Call,
    spending <- Payer(k),
    answer   <- IF guard[k].status \in {"claimed", "started"} THEN "open" ELSE guard[k].status,
    result   <- IF guard[k].status = "result" THEN guard[k].by ELSE None,
    reply    <- [c \in Call |-> IF KeyOf(c) = k THEN answer[c] ELSE None]

\* Whatever the ledger does around it, the calls of a key implement PaidOnce.
ImplementsPaidOnce ==
    /\ \A k \in Key : Paid(k)!Init
    /\ [][\A k \in Key : [Paid(k)!Next]_(Paid(k)!vars)]_vars
=============================================================================
