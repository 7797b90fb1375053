----------------------------- MODULE PaidOnce -----------------------------
(***************************************************************************)
(* What the side effect gateway promises for one idempotency key, whoever  *)
(* calls, crashes or is delayed: at any time at most one call is spending  *)
(* money for it, the answer is settled once, and everybody who is told a   *)
(* result is told that one.                                                *)
(***************************************************************************)
CONSTANTS Caller, None

VARIABLES
    spending,   \* the call whose effect exists or may come to exist, or None
    answer,     \* "open", "unknown" (ambiguous), "failed", or "result"
    result,     \* the call whose effect the key stands for, once there is a result
    reply       \* [Caller -> the result the caller was given, or None]

vars == <<spending, answer, result, reply>>

Init ==
    /\ spending = None /\ answer = "open" /\ result = None
    /\ reply = [c \in Caller |-> None]

\* c passes the point after which its effect may exist: nobody else has.
Spend(c) ==
    /\ spending = None /\ answer = "open"
    /\ spending' = c
    /\ UNCHANGED <<answer, result, reply>>

\* The effect turns out not to exist; it is not one that was given as the result.
Waive ==
    /\ spending # None /\ answer # "result"
    /\ spending' = None
    /\ UNCHANGED <<answer, result, reply>>

\* No result will be given: for good only when nothing is spent.
GiveUp ==
    /\ answer = "open"
    /\ answer' = "unknown" \/ (answer' = "failed" /\ spending = None)
    /\ spending' \in {spending, None}
    /\ UNCHANGED <<result, reply>>

\* The effect of the spending call becomes the result, and some caller may be told.
Settle ==
    /\ answer = "open" /\ spending # None
    /\ answer' = "result" /\ result' = spending
    /\ spending' = spending
    /\ \/ reply' = reply
       \/ \E c \in Caller : reply' = [reply EXCEPT ![c] = spending]

Tell(c) ==
    /\ answer = "result"
    /\ reply' = [reply EXCEPT ![c] = result]
    /\ UNCHANGED <<spending, answer, result>>

Next == Waive \/ GiveUp \/ Settle \/ \E c \in Caller : Spend(c) \/ Tell(c)

Spec == Init /\ [][Next]_vars
=============================================================================
