---------------------------- MODULE CostGateway ----------------------------
(***************************************************************************)
(* PlatformGuardedCostGateway over PostgresCostGateway: the reservations   *)
(* and the cost ledger of one organization, with the budgets they respect. *)
(*                                                                         *)
(* reserve, commit and release hold the platform's advisory lock around a  *)
(* transaction that takes the organization's, so each of them is one step. *)
(* The corrections take no lock, so the sums of one reserve may be taken   *)
(* before and after one; a reserve granted so is one that comes after the  *)
(* downward corrections in its middle and before the upward ones.          *)
(*                                                                         *)
(* A reservation lapses when its expires_at has passed, and is marked      *)
(* expired by the next reserve that sees it so: now() is the beginning of  *)
(* a transaction, which may have waited for the lock since, so it sees any *)
(* part of what has lapsed.                                                *)
(***************************************************************************)
EXTENDS Integers, FiniteSets, Functions

CONSTANTS
    Operation,      \* operation ids, the ones that are ever used
    Candidate,      \* provider and model: with the operation, a reservation key
    Call,           \* provider calls, named in an actual cost they are the source of
    None,           \* SQL NULL
    Estimate,       \* [Candidate -> Nat], estimated_amount
    Amount,         \* amounts of an actual cost
    Limit,          \* the enabled rows of cost_budget_limits, and Platform
    Platform,       \* the daily cap over all operations
    Scope,          \* [Limit -> SUBSET Operation], the operations a limit applies to
    Cap,            \* [Limit -> Nat], amount_limit + tolerance_amount
    CorrectionKey,  \* entry keys of corrections
    Delta           \* amounts of an adjustment

ASSUME CostAssumption ==
    /\ None \notin Call
    /\ IsFiniteSet(Operation) /\ IsFiniteSet(Candidate)
    /\ Estimate \in [Candidate -> Nat]
    /\ Amount \subseteq Nat
    /\ Platform \in Limit
    /\ Scope \in [Limit -> SUBSET Operation] /\ Scope[Platform] = Operation
    /\ Cap \in [Limit -> Nat]       \* ck_cost_budget_limits_amount and _tolerance
    /\ Delta \subseteq Int

VARIABLES
    reservation,    \* [Key -> row of cost_reservations]
    actual,         \* [Operation -> its actual_cost row in cost_ledger, or None]
    correction      \* the adjustment and reversal rows of cost_ledger

costs == <<reservation, actual, correction>>

Key == Operation \X Candidate

\* "none": there is no row.
Reservation == [status : {"none", "active", "committed", "released", "expired"},
                lapsed : BOOLEAN,   \* active, and expires_at has passed
                late   : BOOLEAN]   \* committed after it had been marked expired

NoReservation == [status |-> "none", lapsed |-> FALSE, late |-> FALSE]

Reserved == [status |-> "active", lapsed |-> FALSE, late |-> FALSE]

\* The provider call a cost comes from, None when it is only an estimate: this stands
\* for external_provider_request_id, confidence and usage.  entry_key is always the
\* default, so an operation has one actual cost.
Fact == [candidate : Candidate, amount : Amount, source : Call \cup {None}]

ASSUME RowAssumption == None \notin Fact

\* target: None for the actual cost, else the key of an adjustment.
Correction == [operation : Operation, type : {"adjustment", "reversal"},
               key : CorrectionKey, target : CorrectionKey \cup {None}, amount : Int]

-----------------------------------------------------------------------------
(* Sums over a scope. *)

Corrections(scope) == {r \in correction : r.operation \in scope}

Corrected(o) == SumFunction([r \in Corrections({o}) |-> r.amount])

Charged(o) == (IF actual[o] = None THEN 0 ELSE actual[o].amount) + Corrected(o)

Spent(l) == SumFunction([o \in Scope[l] |-> Charged(o)])

\* The keys whose reservations take up budget of l.
Active(rows, l) == {k \in Key : k[1] \in Scope[l] /\ rows[k].status = "active"}

Occupied(keys) == SumFunctionOnSet([k \in Key |-> Estimate[k[2]]], keys)

-----------------------------------------------------------------------------
(* reserve *)

Lapsed == {k \in Key : reservation[k].lapsed}

\* _expire_reservations
Swept(gone) ==
    [k \in Key |-> IF k \in gone
                   THEN [reservation[k] EXCEPT !.status = "expired", !.lapsed = FALSE]
                   ELSE reservation[k]]

\* Slip: what is reserved is not counted.
FitsSpent(rows, k, l) == Spent(l) + Estimate[k[2]] <= Cap[l]

Fits(rows, k, l) ==
    Spent(l) + Occupied(Active(rows, l) \ {k}) + Estimate[k[2]] <= Cap[l]

\* _check_budget_limits, which leaves out the reservation that is renewed.
WithinLimits(rows, k) ==
    \A l \in Limit \ {Platform} : k[1] \in Scope[l] => Fits(rows, k, l)

\* _require_capacity counts every reservation, also the one that is asked for again.
PlatformAllows(rows, k) ==
    Spent(Platform) + Occupied(Active(rows, Platform)) + Estimate[k[2]] <= Cap[Platform]

Renewable(rows, k) == rows[k].status \in {"none", "released", "expired"}

Grant(k) ==
    \E gone \in SUBSET Lapsed :
        /\ PlatformAllows(Swept(gone), k)
        /\ Renewable(Swept(gone), k) /\ WithinLimits(Swept(gone), k)
        /\ reservation' = [Swept(gone) EXCEPT ![k] = Reserved]
        /\ UNCHANGED <<actual, correction>>

\* replayed=True: the caller is handed the reservation that is there.
Rejoin(k) ==
    \E gone \in SUBSET Lapsed :
        /\ PlatformAllows(Swept(gone), k)
        /\ ~Renewable(Swept(gone), k)
        /\ reservation' = Swept(gone)
        /\ UNCHANGED <<actual, correction>>

Reserve(k) == Grant(k) \/ Rejoin(k)

\* BudgetExceeded rolls back what was marked expired.
BudgetRefuses(k) ==
    \E gone \in SUBSET Lapsed :
        \/ ~PlatformAllows(Swept(gone), k)
        \/ Renewable(Swept(gone), k) /\ ~WithinLimits(Swept(gone), k)

-----------------------------------------------------------------------------
(* commit and release *)

Open(k) == reservation[k].status \in {"active", "expired"}

\* Slip: ON CONFLICT DO UPDATE.
Overwritable(o, fact) == TRUE

\* ON CONFLICT DO NOTHING, and then the existing row has to be the same.
Bookable(o, fact) == actual[o] \in {None, fact}

Settled(k) ==
    [reservation[k] EXCEPT !.late = (reservation[k].status = "expired"),
                           !.status = "committed", !.lapsed = FALSE]

Book(k, fact) ==
    /\ Open(k) /\ Bookable(k[1], fact)
    /\ actual' = [actual EXCEPT ![k[1]] = fact]
    /\ reservation' = [reservation EXCEPT ![k] = Settled(k)]
    /\ UNCHANGED correction

\* Slip: what was committed is not compared.
RebookAny(k, fact) == reservation[k].status = "committed" /\ UNCHANGED costs

\* A commit that is repeated.
Rebook(k, fact) ==
    /\ reservation[k].status = "committed" /\ actual[k[1]] = fact
    /\ UNCHANGED costs

Commit(k, fact) == Book(k, fact) \/ Rebook(k, fact)

\* ReservationConflict or CostLedgerConflict
CommitRefused(k, fact) ==
    IF reservation[k].status = "committed"
    THEN actual[k[1]] # fact
    ELSE ~(Open(k) /\ Bookable(k[1], fact))

Release(k) ==
    /\ reservation[k].status \in {"active", "expired", "released"}
    /\ reservation' = [reservation EXCEPT ![k].status = "released", ![k].lapsed = FALSE]
    /\ UNCHANGED <<actual, correction>>

ReleaseRefused(k) == reservation[k].status \in {"none", "committed"}

\* Time passes.
Lapse(k) ==
    /\ reservation[k].status = "active" /\ ~reservation[k].lapsed
    /\ reservation' = [reservation EXCEPT ![k].lapsed = TRUE]
    /\ UNCHANGED <<actual, correction>>

-----------------------------------------------------------------------------
(* Corrections: one row per operation, type and entry key. *)

Recorded(o, type, key) ==
    \E r \in correction : r.operation = o /\ r.type = type /\ r.key = key

Correct(row) ==
    /\ ~Recorded(row.operation, row.type, row.key)
    /\ correction' = correction \cup {row}
    /\ UNCHANGED <<reservation, actual>>

RecordAdjustment(o, key, delta) ==
    /\ actual[o] # None
    /\ Correct([operation |-> o, type |-> "adjustment", key |-> key,
                target |-> None, amount |-> delta])

ReverseActual(o, key) ==
    /\ actual[o] # None
    /\ Correct([operation |-> o, type |-> "reversal", key |-> key,
                target |-> None, amount |-> -actual[o].amount])

ReverseAdjustment(o, key) ==
    \E r \in correction :
        /\ r.operation = o /\ r.type = "adjustment"
        /\ Correct([operation |-> o, type |-> "reversal", key |-> key,
                    target |-> r.key, amount |-> -r.amount])

-----------------------------------------------------------------------------
CostInit ==
    /\ reservation = [k \in Key |-> NoReservation]
    /\ actual = [o \in Operation |-> None]
    /\ correction = {}

CostNext ==
    \/ \E k \in Key :
        \/ Reserve(k) \/ Release(k) \/ Lapse(k)
        \/ \E fact \in Fact : fact.candidate = k[2] /\ Commit(k, fact)
    \/ \E o \in Operation, key \in CorrectionKey :
        \/ \E delta \in Delta : RecordAdjustment(o, key, delta)
        \/ ReverseActual(o, key)
        \/ ReverseAdjustment(o, key)

\* Any handle may be used at any time, in any order.
CostSpec == CostInit /\ [][CostNext]_costs

-----------------------------------------------------------------------------
CostTypeOK ==
    /\ reservation \in [Key -> Reservation]
    /\ actual \in [Operation -> Fact \cup {None}]
    /\ correction \subseteq Correction
    /\ \A k \in Key : reservation[k].lapsed => reservation[k].status = "active"

Surplus(a, b) == IF a > b THEN a - b ELSE 0

Committed(l) == {k \in Key : k[1] \in Scope[l] /\ reservation[k].status = "committed"}

Overrun(k) ==
    Surplus(actual[k[1]].amount, IF reservation[k].late THEN 0 ELSE Estimate[k[2]])

\* What the ledger holds beyond what had been reserved for it: costs above their
\* estimate, whole costs that came after their reservation had expired, and
\* corrections upwards.
Sunk(l) ==
    SumFunction([k \in Committed(l) |-> Overrun(k)])
    + SumFunction([r \in Corrections(Scope[l]) |-> Surplus(r.amount, 0)])

\* COST-LEDGER-BUDGET-QUOTA-V1.md:418 and 844: what is spent and reserved under a limit
\* never exceeds it but by sunk cost, in whatever order reservations are granted, shared,
\* expired, revived, committed late, released and corrected.
OnlySunkCostExceedsALimit ==
    \A l \in Limit : Spent(l) + Occupied(Active(reservation, l)) <= Cap[l] + Sunk(l)

\* A reservation is committed exactly when the actual cost of its operation is the one of
\* its candidate, so an operation is charged to one provider, once
\* (COST-LEDGER-BUDGET-QUOTA-V1.md:366-367).
CommittedIsBooked ==
    \A k \in Key : reservation[k].status = "committed" <=>
        actual[k[1]] # None /\ actual[k[1]].candidate = k[2]

\* Financial facts are append-only and a committed reservation stays so, however late a
\* release, a renewal or a second commit arrives
\* (COST-LEDGER-BUDGET-QUOTA-V1.md:36).
LedgerIsFinal ==
    [][ /\ \A o \in Operation : actual[o] # None => actual'[o] = actual[o]
        /\ correction \subseteq correction'
        /\ \A k \in Key : reservation[k].status = "committed"
                            => reservation'[k] = reservation[k] ]_costs
=============================================================================
