---------------------- MODULE SideEffectGatewayProofs ----------------------
(***************************************************************************)
(* Proofs about SideEffectGateway, for any set of callers and requests.    *)
(***************************************************************************)
EXTENDS SideEffectGateway, TLAPS

\* What the place of a caller in execute says about its provider request and its handle.
Places ==
    \A c \in Caller :
        /\ pc[c] \in {"idle", "claimed", "marked", "looking", "adopting", "retrying"}
              => effect[c] = "none"
        /\ pc[c] \in {"idle", "claimed", "looking", "adopting", "retrying"} => handle[c] = {}
        /\ pc[c] = "marked" \/ effect[c] # "none" => "started" \in handle[c]
        /\ "recorded" \in handle[c] => effect[c] \in {"pending", "done", "failed"}
        /\ pc[c] \in {"looking", "adopting"} => asked[c] # None
        /\ pc[c] = "adopting" /\ found[c] \in {"done", "failed"} => effect[asked[c]] = found[c]

\* At most one caller spends; it does so behind the barrier, and the states that would let
\* another execute exclude it.
Spender ==
    \A c \in Caller : Spending(c) =>
        /\ \A d \in Caller : Spending(d) => d = c
        /\ op.started
        /\ op.status \notin {"absent", "failed_final"}
        /\ op.status = "failed_retryable" => op.request = c
        /\ op.request \in {None, c}
        /\ \A d \in Caller : HoldsLease(d) /\ InInvoke(d) => d = c

\* The recorded request was accepted, and the lease's owner works on it or on its own.
Binding ==
    /\ op.request # None => effect[op.request] \in {"pending", "done", "failed"}
    /\ op.status = "succeeded" => effect[op.result] = "done"
    /\ op.status = "absent" => ~op.started
    /\ \A c \in Caller : HoldsLease(c) =>
          /\ InInvoke(c) => op.request \in {None, c}
          /\ InInvoke(c) /\ "recorded" \in handle[c] => op.request = c
          /\ pc[c] \in {"looking", "adopting"} => op.request = asked[c]

\* Whoever takes part carries the operation's request.
Requests ==
    \A c \in Caller :
        /\ pc[c] \in {"claimed", "marked", "calling", "failing", "looking", "adopting",
                      "retrying"} \/ effect[c] # "none"
              => op.status # "absent" /\ op.hash = Request[c]
        /\ reply[c] # None
              => op.status = "succeeded" /\ reply[c] = op.result /\ op.hash = Request[c]

Inv == TypeOK /\ Places /\ Spender /\ Binding /\ Requests

-----------------------------------------------------------------------------
(* Types. *)

\* The rows that the gateway's statements write are rows.
LEMMA RowTypes ==
    ASSUME op \in Row, NEW c \in Caller
    PROVE  /\ Inserted(c) \in Row /\ Leased(c) \in Row
           /\ [op EXCEPT !.lease = "live"] \in Row
           /\ [op EXCEPT !.started = TRUE] \in Row
           /\ [op EXCEPT !.started = TRUE, !.request = c] \in Row
           /\ Released("ambiguous") \in Row /\ Released("failed_final") \in Row
           /\ Released("failed_retryable") \in Row /\ Cleared \in Row
           /\ Succeeded(c) \in Row
<1> USE DEF Row, Settled
<1>1. Inserted(c) \in Row
  BY DEF Inserted
<1>2. Leased(c) \in Row
  BY DEF Leased
<1>3. [op EXCEPT !.lease = "live"] \in Row
  OBVIOUS
<1>4. [op EXCEPT !.started = TRUE] \in Row /\ [op EXCEPT !.started = TRUE, !.request = c] \in Row
  OBVIOUS
<1>5. /\ Released("ambiguous") \in Row /\ Released("failed_final") \in Row
      /\ Released("failed_retryable") \in Row /\ Released("succeeded") \in Row
  BY DEF Released
<1>6. \A r \in Row : [r EXCEPT !.started = FALSE, !.request = None] \in Row
  OBVIOUS
<1>7. \A r \in Row : [r EXCEPT !.result = c] \in Row
  OBVIOUS
<1> HIDE DEF Row, Settled
<1> QED
  BY <1>1, <1>2, <1>3, <1>4, <1>5, <1>6, <1>7 DEF Cleared, Succeeded

\* Exactly an operation in progress is leased, and exactly a succeeded one has a result.
Leases ==
    /\ op.status = "in_progress" <=> op.owner # None
    /\ op.status = "in_progress" <=> op.lease # "none"
    /\ op.status = "succeeded" <=> op.result # None

LEMMA RowNext ==
    ASSUME Inv, [Next]_vars
    PROVE  op' \in Row
<1>1. op \in Row /\ \A c \in Caller : pc[c] = "adopting" => asked[c] \in Caller
  BY DEF Inv, TypeOK, Places
<1>0. [op EXCEPT !.lease = "lapsed"] \in Row
  BY <1>1 DEF Row
<1> USE <1>1, RowTypes
<1>2. CASE UNCHANGED vars \/ LeaseLapses
  BY <1>0, <1>2 DEF vars, LeaseLapses
<1>3. ASSUME NEW c \in Caller, ClaimNew(c) PROVE op' \in Row
  BY <1>3 DEF ClaimNew
<1>4. ASSUME NEW c \in Caller, ClaimAgain(c) PROVE op' \in Row
  BY <1>4 DEF ClaimAgain
<1>5. ASSUME NEW c \in Caller, ClaimToReconcile(c) PROVE op' \in Row
  BY <1>5 DEF ClaimToReconcile
<1>6. ASSUME NEW c \in Caller, ClaimAmbiguous(c) PROVE op' \in Row
  BY <1>6 DEF ClaimAmbiguous
<1>7. ASSUME NEW c \in Caller, NEW acked \in BOOLEAN, MarkProviderAttemptStarted(c, acked) PROVE op' \in Row
  BY <1>7 DEF MarkProviderAttemptStarted, Update
<1>8. ASSUME NEW c \in Caller, NEW acked \in BOOLEAN, RecordProviderRequest(c, acked) PROVE op' \in Row
  BY <1>8 DEF RecordProviderRequest
<1>9. ASSUME NEW c \in Caller, NEW acked \in BOOLEAN, Succeed(c, acked) PROVE op' \in Row
  BY <1>9 DEF Succeed, Update
<1>10. ASSUME NEW c \in Caller, FailRetryable(c) PROVE op' \in Row
  BY <1>10 DEF FailRetryable
<1>11. ASSUME NEW c \in Caller, FailFinal(c) PROVE op' \in Row
  BY <1>11 DEF FailFinal, Update
<1>12. ASSUME NEW c \in Caller, FailNeedsReconciliation(c) PROVE op' \in Row
  BY <1>12 DEF FailNeedsReconciliation, Update
<1>13. ASSUME NEW c \in Caller, FailAmbiguous(c) PROVE op' \in Row
  BY <1>13 DEF FailAmbiguous, Update
<1>14. ASSUME NEW c \in Caller, AdoptSuccess(c) PROVE op' \in Row
  BY <1>14 DEF AdoptSuccess, Adopting, Update
<1>15. ASSUME NEW c \in Caller, ExtendLease(c) PROVE op' \in Row
  BY <1>15 DEF ExtendLease, Adopting, Update
<1>16. ASSUME NEW c \in Caller, ConfirmFailure(c) PROVE op' \in Row
  BY <1>16 DEF ConfirmFailure, Adopting, Update
<1>17. ASSUME NEW c \in Caller, MarkAmbiguous(c) PROVE op' \in Row
  BY <1>17 DEF MarkAmbiguous, Adopting, Update
<1>18. ASSUME NEW c \in Caller, NEW state,
              \/ Replay(c) \/ TurnAway(c) \/ Send(c) \/ Lookup(c, state)
              \/ Provider(c) \/ Crash(c)
       PROVE  op' \in Row
  BY <1>18 DEF Replay, TurnAway, Send, Lookup, Provider, ProviderStep, Crash
<1> QED
  BY <1>2, <1>3, <1>4, <1>5, <1>6, <1>7, <1>8, <1>9, <1>10, <1>11, <1>12, <1>13, <1>14,
     <1>15, <1>16, <1>17, <1>18 DEF Next

LEMMA LeasesNext ==
    ASSUME Inv, [Next]_vars
    PROVE  Leases'
<1> USE GatewayAssumption DEF Inv, TypeOK, Places, Leases, Row, Settled, HoldsLease
<1>1. CASE UNCHANGED vars \/ LeaseLapses
  BY <1>1 DEF vars, LeaseLapses
<1>2. ASSUME NEW c \in Caller, ClaimNew(c)
      PROVE  Leases'
  BY <1>2 DEF ClaimNew, Claiming, Inserted, Goto
<1>3. ASSUME NEW c \in Caller, ClaimAgain(c)
      PROVE  Leases'
  BY <1>3 DEF ClaimAgain, Claiming, Takeable, SameRequest, Unbound, Leased, Goto
<1>4. ASSUME NEW c \in Caller, ClaimToReconcile(c)
      PROVE  Leases'
  BY <1>4 DEF ClaimToReconcile, Claiming, Takeable, SameRequest, LeaseIsLive, Leased, Goto
<1>5. ASSUME NEW c \in Caller, ClaimAmbiguous(c)
      PROVE  Leases'
  BY <1>5 DEF ClaimAmbiguous, Claiming, Takeable, SameRequest, Unbound, Released, Goto
<1>6. ASSUME NEW c \in Caller, Replay(c)
      PROVE  Leases'
  BY <1>6 DEF Replay, Claiming, SameRequest, Goto
<1>7. ASSUME NEW c \in Caller, TurnAway(c)
      PROVE  Leases'
  BY <1>7 DEF TurnAway, Claiming, Goto
<1>8. ASSUME NEW c \in Caller, NEW acked \in BOOLEAN, MarkProviderAttemptStarted(c, acked)
      PROVE  Leases'
  BY <1>8 DEF MarkProviderAttemptStarted, Update, Goto
<1>9. ASSUME NEW c \in Caller, Send(c)
      PROVE  Leases'
  BY <1>9 DEF Send, Goto
<1>10. ASSUME NEW c \in Caller, NEW acked \in BOOLEAN, RecordProviderRequest(c, acked)
      PROVE  Leases'
  BY <1>10 DEF RecordProviderRequest, Goto
<1>11. ASSUME NEW c \in Caller, NEW acked \in BOOLEAN, Succeed(c, acked)
      PROVE  Leases'
  BY <1>11 DEF Succeed, Update, Succeeded, Released, Goto
<1>12. ASSUME NEW c \in Caller, FailRetryable(c)
      PROVE  Leases'
  BY <1>12 DEF FailRetryable, MayFailRetryable, Cleared, Released, Goto
<1>13. ASSUME NEW c \in Caller, FailFinal(c)
      PROVE  Leases'
  BY <1>13 DEF FailFinal, Update, Released, Goto
<1>14. ASSUME NEW c \in Caller, FailNeedsReconciliation(c)
      PROVE  Leases'
  BY <1>14 DEF FailNeedsReconciliation, Update, Released, Goto
<1>15. ASSUME NEW c \in Caller, FailAmbiguous(c)
      PROVE  Leases'
  BY <1>15 DEF FailAmbiguous, Update, Released, Goto
<1>16. ASSUME NEW c \in Caller, NEW state \in {"unknown", "pending", "done", "failed"}, Lookup(c, state)
      PROVE  Leases'
  BY <1>16 DEF Lookup, LookupStates, Goto
<1>17. ASSUME NEW c \in Caller, AdoptSuccess(c)
      PROVE  Leases'
  BY <1>17 DEF AdoptSuccess, Adopting, Update, Succeeded, Released, Goto
<1>18. ASSUME NEW c \in Caller, ExtendLease(c)
      PROVE  Leases'
  BY <1>18 DEF ExtendLease, Adopting, Update, Goto
<1>19. ASSUME NEW c \in Caller, ConfirmFailure(c)
      PROVE  Leases'
  BY <1>19 DEF ConfirmFailure, Adopting, Update, Cleared, Released, Goto
<1>20. ASSUME NEW c \in Caller, MarkAmbiguous(c)
      PROVE  Leases'
  BY <1>20 DEF MarkAmbiguous, Adopting, Update, Released, Goto
<1>21. ASSUME NEW c \in Caller, Provider(c)
      PROVE  Leases'
  BY <1>21 DEF Provider, ProviderStep
<1>22. ASSUME NEW c \in Caller, Crash(c)
      PROVE  Leases'
  BY <1>22 DEF Crash, Goto
<1> QED
  BY <1>1, <1>2, <1>3, <1>4, <1>5, <1>6, <1>7, <1>8, <1>9, <1>10, <1>11, <1>12, <1>13,
     <1>14, <1>15, <1>16, <1>17, <1>18, <1>19, <1>20, <1>21, <1>22 DEF Next

\* The types of the other variables.
Locals ==
    /\ pc \in [Caller -> PC]
    /\ handle \in [Caller -> SUBSET {"started", "recorded"}]
    /\ asked \in [Caller -> Caller \cup {None}]
    /\ found \in [Caller -> {"unknown", "pending", "done", "failed"}]
    /\ effect \in [Caller -> {"none", "sent", "refused", "pending", "done", "failed"}]
    /\ reply \in [Caller -> Caller \cup {None}]

LEMMA LocalsNext ==
    ASSUME Inv, [Next]_vars
    PROVE  Locals'
<1> USE GatewayAssumption DEF Inv, TypeOK, Places, Locals, Row, PC, Settled, HoldsLease
<1>1. CASE UNCHANGED vars \/ LeaseLapses
  BY <1>1 DEF vars, LeaseLapses
<1>2. ASSUME NEW c \in Caller, ClaimNew(c)
      PROVE  Locals'
  BY <1>2 DEF ClaimNew, Claiming, Inserted, Goto
<1>3. ASSUME NEW c \in Caller, ClaimAgain(c)
      PROVE  Locals'
  BY <1>3 DEF ClaimAgain, Claiming, Takeable, SameRequest, Unbound, Leased, Goto
<1>4. ASSUME NEW c \in Caller, ClaimToReconcile(c)
      PROVE  Locals'
  BY <1>4 DEF ClaimToReconcile, Claiming, Takeable, SameRequest, LeaseIsLive, Leased, Goto
<1>5. ASSUME NEW c \in Caller, ClaimAmbiguous(c)
      PROVE  Locals'
  BY <1>5 DEF ClaimAmbiguous, Claiming, Takeable, SameRequest, Unbound, Released, Goto
<1>6. ASSUME NEW c \in Caller, Replay(c)
      PROVE  Locals'
  BY <1>6 DEF Replay, Claiming, SameRequest, Goto
<1>7. ASSUME NEW c \in Caller, TurnAway(c)
      PROVE  Locals'
  BY <1>7 DEF TurnAway, Claiming, Goto
<1>8. ASSUME NEW c \in Caller, NEW acked \in BOOLEAN, MarkProviderAttemptStarted(c, acked)
      PROVE  Locals'
  BY <1>8 DEF MarkProviderAttemptStarted, Update, Goto
<1>9. ASSUME NEW c \in Caller, Send(c)
      PROVE  Locals'
  BY <1>9 DEF Send, Goto
<1>10. ASSUME NEW c \in Caller, NEW acked \in BOOLEAN, RecordProviderRequest(c, acked)
      PROVE  Locals'
  BY <1>10 DEF RecordProviderRequest, Goto
<1>11. ASSUME NEW c \in Caller, NEW acked \in BOOLEAN, Succeed(c, acked)
      PROVE  Locals'
  BY <1>11 DEF Succeed, Update, Succeeded, Released, Goto
<1>12. ASSUME NEW c \in Caller, FailRetryable(c)
      PROVE  Locals'
  BY <1>12 DEF FailRetryable, MayFailRetryable, Cleared, Released, Goto
<1>13. ASSUME NEW c \in Caller, FailFinal(c)
      PROVE  Locals'
  BY <1>13 DEF FailFinal, Update, Released, Goto
<1>14. ASSUME NEW c \in Caller, FailNeedsReconciliation(c)
      PROVE  Locals'
  BY <1>14 DEF FailNeedsReconciliation, Update, Released, Goto
<1>15. ASSUME NEW c \in Caller, FailAmbiguous(c)
      PROVE  Locals'
  BY <1>15 DEF FailAmbiguous, Update, Released, Goto
<1>16. ASSUME NEW c \in Caller, NEW state \in {"unknown", "pending", "done", "failed"}, Lookup(c, state)
      PROVE  Locals'
  BY <1>16 DEF Lookup, LookupStates, Goto
<1>17. ASSUME NEW c \in Caller, AdoptSuccess(c)
      PROVE  Locals'
  BY <1>17 DEF AdoptSuccess, Adopting, Update, Succeeded, Released, Goto
<1>18. ASSUME NEW c \in Caller, ExtendLease(c)
      PROVE  Locals'
  BY <1>18 DEF ExtendLease, Adopting, Update, Goto
<1>19. ASSUME NEW c \in Caller, ConfirmFailure(c)
      PROVE  Locals'
  BY <1>19 DEF ConfirmFailure, Adopting, Update, Cleared, Released, Goto
<1>20. ASSUME NEW c \in Caller, MarkAmbiguous(c)
      PROVE  Locals'
  BY <1>20 DEF MarkAmbiguous, Adopting, Update, Released, Goto
<1>21. ASSUME NEW c \in Caller, Provider(c)
      PROVE  Locals'
  BY <1>21 DEF Provider, ProviderStep
<1>22. ASSUME NEW c \in Caller, Crash(c)
      PROVE  Locals'
  BY <1>22 DEF Crash, Goto
<1> QED
  BY <1>1, <1>2, <1>3, <1>4, <1>5, <1>6, <1>7, <1>8, <1>9, <1>10, <1>11, <1>12, <1>13,
     <1>14, <1>15, <1>16, <1>17, <1>18, <1>19, <1>20, <1>21, <1>22 DEF Next

LEMMA TypeNext ==
    ASSUME Inv, [Next]_vars
    PROVE  TypeOK'
BY RowNext, LeasesNext, LocalsNext DEF TypeOK, Leases, Locals
(* The other parts of the invariant. *)
\* A caller's place goes on telling what its request and its handle are.
LEMMA PlacesNext ==
    ASSUME Inv, [Next]_vars
    PROVE  Places'
<1> USE GatewayAssumption DEF Inv, TypeOK, Places, Row, Settled, InInvoke, HoldsLease
<1>1. CASE UNCHANGED vars
  BY <1>1 DEF vars
<1>2. CASE LeaseLapses
  BY <1>2 DEF LeaseLapses
<1>3. ASSUME NEW c \in Caller, ClaimNew(c)
      PROVE  Places'
  BY <1>3 DEF ClaimNew, Claiming, Inserted, Goto
<1>4. ASSUME NEW c \in Caller, ClaimAgain(c)
      PROVE  Places'
  BY <1>4 DEF ClaimAgain, Claiming, Takeable, SameRequest, Unbound, Leased, Goto
<1>5. ASSUME NEW c \in Caller, ClaimToReconcile(c)
      PROVE  Places'
  BY <1>5 DEF ClaimToReconcile, Claiming, Takeable, SameRequest, LeaseIsLive, Leased, Goto
<1>6. ASSUME NEW c \in Caller, ClaimAmbiguous(c)
      PROVE  Places'
  BY <1>6 DEF ClaimAmbiguous, Claiming, Takeable, SameRequest, Unbound, Released, Goto
<1>7. ASSUME NEW c \in Caller, Replay(c)
      PROVE  Places'
  BY <1>7 DEF Replay, Claiming, SameRequest, Goto
<1>8. ASSUME NEW c \in Caller, TurnAway(c)
      PROVE  Places'
  BY <1>8 DEF TurnAway, Claiming, Goto
<1>9. ASSUME NEW c \in Caller, NEW acked \in BOOLEAN, MarkProviderAttemptStarted(c, acked)
      PROVE  Places'
  BY <1>9 DEF MarkProviderAttemptStarted, Update, Goto
<1>10. ASSUME NEW c \in Caller, Send(c)
      PROVE  Places'
  BY <1>10 DEF Send, Goto
<1>11. ASSUME NEW c \in Caller, NEW acked \in BOOLEAN, RecordProviderRequest(c, acked)
      PROVE  Places'
  BY <1>11 DEF RecordProviderRequest, Goto
<1>12. ASSUME NEW c \in Caller, NEW acked \in BOOLEAN, Succeed(c, acked)
      PROVE  Places'
  BY <1>12 DEF Succeed, Update, Succeeded, Released, Goto
<1>13. ASSUME NEW c \in Caller, FailRetryable(c)
      PROVE  Places'
  BY <1>13 DEF FailRetryable, MayFailRetryable, Cleared, Released, Goto
<1>14. ASSUME NEW c \in Caller, FailFinal(c)
      PROVE  Places'
  BY <1>14 DEF FailFinal, Update, Released, Goto
<1>15. ASSUME NEW c \in Caller, FailNeedsReconciliation(c)
      PROVE  Places'
  BY <1>15 DEF FailNeedsReconciliation, Update, Released, Goto
<1>16. ASSUME NEW c \in Caller, FailAmbiguous(c)
      PROVE  Places'
  BY <1>16 DEF FailAmbiguous, Update, Released, Goto
<1>17. ASSUME NEW c \in Caller, NEW state, Lookup(c, state)
      PROVE  Places'
  BY <1>17 DEF Lookup, LookupStates, Goto
<1>18. ASSUME NEW c \in Caller, AdoptSuccess(c)
      PROVE  Places'
  BY <1>18 DEF AdoptSuccess, Adopting, Update, Succeeded, Released, Goto
<1>19. ASSUME NEW c \in Caller, ExtendLease(c)
      PROVE  Places'
  BY <1>19 DEF ExtendLease, Adopting, Update, Goto
<1>20. ASSUME NEW c \in Caller, ConfirmFailure(c)
      PROVE  Places'
  BY <1>20 DEF ConfirmFailure, Adopting, Update, Cleared, Released, Goto
<1>21. ASSUME NEW c \in Caller, MarkAmbiguous(c)
      PROVE  Places'
  BY <1>21 DEF MarkAmbiguous, Adopting, Update, Released, Goto
<1>22. ASSUME NEW c \in Caller, Provider(c)
      PROVE  Places'
  BY <1>22 DEF Provider, ProviderStep
<1>23. ASSUME NEW c \in Caller, Crash(c)
      PROVE  Places'
  BY <1>23 DEF Crash, Goto
<1> QED
  BY <1>1, <1>2, <1>3, <1>4, <1>5, <1>6, <1>7, <1>8, <1>9, <1>10, <1>11, <1>12, <1>13,
     <1>14, <1>15, <1>16, <1>17, <1>18, <1>19, <1>20, <1>21, <1>22, <1>23 DEF Next

\* No step lets a second caller spend, or the operation forget the first.
LEMMA SpenderNext ==
    ASSUME Inv, [Next]_vars
    PROVE  Spender'
<1> USE GatewayAssumption DEF Inv, TypeOK, Places, Spender, Binding, Row, Settled,
       Spending, Live, InInvoke, HoldsLease
<1>1. CASE UNCHANGED vars
  BY <1>1 DEF vars
<1>2. CASE LeaseLapses
  BY <1>2 DEF LeaseLapses
<1>3. ASSUME NEW c \in Caller, ClaimNew(c)
      PROVE  Spender'
  BY <1>3 DEF ClaimNew, Claiming, Inserted, Goto
<1>4. ASSUME NEW c \in Caller, ClaimAgain(c)
      PROVE  Spender'
  BY <1>4 DEF ClaimAgain, Claiming, Takeable, SameRequest, Unbound, Leased, Goto
<1>5. ASSUME NEW c \in Caller, ClaimToReconcile(c)
      PROVE  Spender'
  BY <1>5 DEF ClaimToReconcile, Claiming, Takeable, SameRequest, LeaseIsLive, Leased, Goto
<1>6. ASSUME NEW c \in Caller, ClaimAmbiguous(c)
      PROVE  Spender'
  BY <1>6 DEF ClaimAmbiguous, Claiming, Takeable, SameRequest, Unbound, Released, Goto
<1>7. ASSUME NEW c \in Caller, Replay(c)
      PROVE  Spender'
  BY <1>7 DEF Replay, Claiming, SameRequest, Goto
<1>8. ASSUME NEW c \in Caller, TurnAway(c)
      PROVE  Spender'
  BY <1>8 DEF TurnAway, Claiming, Goto
<1>9. ASSUME NEW c \in Caller, NEW acked \in BOOLEAN, MarkProviderAttemptStarted(c, acked)
      PROVE  Spender'
  BY <1>9 DEF MarkProviderAttemptStarted, Update, Goto
<1>10. ASSUME NEW c \in Caller, Send(c)
      PROVE  Spender'
  BY <1>10 DEF Send, Goto
<1>11. ASSUME NEW c \in Caller, NEW acked \in BOOLEAN, RecordProviderRequest(c, acked)
      PROVE  Spender'
  BY <1>11 DEF RecordProviderRequest, Goto
<1>12. ASSUME NEW c \in Caller, NEW acked \in BOOLEAN, Succeed(c, acked)
      PROVE  Spender'
  BY <1>12 DEF Succeed, Update, Succeeded, Released, Goto
<1>13. ASSUME NEW c \in Caller, FailRetryable(c)
      PROVE  Spender'
  BY <1>13 DEF FailRetryable, MayFailRetryable, Cleared, Released, Goto
<1>14. ASSUME NEW c \in Caller, FailFinal(c)
      PROVE  Spender'
  BY <1>14 DEF FailFinal, Update, Released, Goto
<1>15. ASSUME NEW c \in Caller, FailNeedsReconciliation(c)
      PROVE  Spender'
  BY <1>15 DEF FailNeedsReconciliation, Update, Released, Goto
<1>16. ASSUME NEW c \in Caller, FailAmbiguous(c)
      PROVE  Spender'
  BY <1>16 DEF FailAmbiguous, Update, Released, Goto
<1>17. ASSUME NEW c \in Caller, NEW state, Lookup(c, state)
      PROVE  Spender'
  BY <1>17 DEF Lookup, LookupStates, Goto
<1>18. ASSUME NEW c \in Caller, AdoptSuccess(c)
      PROVE  Spender'
  BY <1>18 DEF AdoptSuccess, Adopting, Update, Succeeded, Released, Goto
<1>19. ASSUME NEW c \in Caller, ExtendLease(c)
      PROVE  Spender'
  BY <1>19 DEF ExtendLease, Adopting, Update, Goto
<1>20. ASSUME NEW c \in Caller, ConfirmFailure(c)
      PROVE  Spender'
  BY <1>20 DEF ConfirmFailure, Adopting, Update, Cleared, Released, Goto
<1>21. ASSUME NEW c \in Caller, MarkAmbiguous(c)
      PROVE  Spender'
  BY <1>21 DEF MarkAmbiguous, Adopting, Update, Released, Goto
<1>22. ASSUME NEW c \in Caller, Provider(c)
      PROVE  Spender'
  BY <1>22 DEF Provider, ProviderStep
<1>23. ASSUME NEW c \in Caller, Crash(c)
      PROVE  Spender'
  BY <1>23 DEF Crash, Goto
<1> QED
  BY <1>1, <1>2, <1>3, <1>4, <1>5, <1>6, <1>7, <1>8, <1>9, <1>10, <1>11, <1>12, <1>13,
     <1>14, <1>15, <1>16, <1>17, <1>18, <1>19, <1>20, <1>21, <1>22, <1>23 DEF Next

\* The recorded request stays one that the provider accepted.
LEMMA BindingNext ==
    ASSUME Inv, [Next]_vars
    PROVE  Binding'
<1> USE GatewayAssumption DEF Inv, TypeOK, Places, Spender, Binding, Row, Settled,
       Spending, Live, InInvoke, HoldsLease
<1>1. CASE UNCHANGED vars
  BY <1>1 DEF vars
<1>2. CASE LeaseLapses
  BY <1>2 DEF LeaseLapses
<1>3. ASSUME NEW c \in Caller, ClaimNew(c)
      PROVE  Binding'
  BY <1>3 DEF ClaimNew, Claiming, Inserted, Goto
<1>4. ASSUME NEW c \in Caller, ClaimAgain(c)
      PROVE  Binding'
  BY <1>4 DEF ClaimAgain, Claiming, Takeable, SameRequest, Unbound, Leased, Goto
<1>5. ASSUME NEW c \in Caller, ClaimToReconcile(c)
      PROVE  Binding'
  BY <1>5 DEF ClaimToReconcile, Claiming, Takeable, SameRequest, LeaseIsLive, Leased, Goto
<1>6. ASSUME NEW c \in Caller, ClaimAmbiguous(c)
      PROVE  Binding'
  BY <1>6 DEF ClaimAmbiguous, Claiming, Takeable, SameRequest, Unbound, Released, Goto
<1>7. ASSUME NEW c \in Caller, Replay(c)
      PROVE  Binding'
  BY <1>7 DEF Replay, Claiming, SameRequest, Goto
<1>8. ASSUME NEW c \in Caller, TurnAway(c)
      PROVE  Binding'
  BY <1>8 DEF TurnAway, Claiming, Goto
<1>9. ASSUME NEW c \in Caller, NEW acked \in BOOLEAN, MarkProviderAttemptStarted(c, acked)
      PROVE  Binding'
  BY <1>9 DEF MarkProviderAttemptStarted, Update, Goto
<1>10. ASSUME NEW c \in Caller, Send(c)
      PROVE  Binding'
  BY <1>10 DEF Send, Goto
<1>11. ASSUME NEW c \in Caller, NEW acked \in BOOLEAN, RecordProviderRequest(c, acked)
      PROVE  Binding'
  BY <1>11 DEF RecordProviderRequest, Goto
<1>12. ASSUME NEW c \in Caller, NEW acked \in BOOLEAN, Succeed(c, acked)
      PROVE  Binding'
  BY <1>12 DEF Succeed, Update, Succeeded, Released, Goto
<1>13. ASSUME NEW c \in Caller, FailRetryable(c)
      PROVE  Binding'
  BY <1>13 DEF FailRetryable, MayFailRetryable, Cleared, Released, Goto
<1>14. ASSUME NEW c \in Caller, FailFinal(c)
      PROVE  Binding'
  BY <1>14 DEF FailFinal, Update, Released, Goto
<1>15. ASSUME NEW c \in Caller, FailNeedsReconciliation(c)
      PROVE  Binding'
  BY <1>15 DEF FailNeedsReconciliation, Update, Released, Goto
<1>16. ASSUME NEW c \in Caller, FailAmbiguous(c)
      PROVE  Binding'
  BY <1>16 DEF FailAmbiguous, Update, Released, Goto
<1>17. ASSUME NEW c \in Caller, NEW state, Lookup(c, state)
      PROVE  Binding'
  BY <1>17 DEF Lookup, LookupStates, Goto
<1>18. ASSUME NEW c \in Caller, AdoptSuccess(c)
      PROVE  Binding'
  BY <1>18 DEF AdoptSuccess, Adopting, Update, Succeeded, Released, Goto
<1>19. ASSUME NEW c \in Caller, ExtendLease(c)
      PROVE  Binding'
  BY <1>19 DEF ExtendLease, Adopting, Update, Goto
<1>20. ASSUME NEW c \in Caller, ConfirmFailure(c)
      PROVE  Binding'
  BY <1>20 DEF ConfirmFailure, Adopting, Update, Cleared, Released, Goto
<1>21. ASSUME NEW c \in Caller, MarkAmbiguous(c)
      PROVE  Binding'
  BY <1>21 DEF MarkAmbiguous, Adopting, Update, Released, Goto
<1>22. ASSUME NEW c \in Caller, Provider(c)
      PROVE  Binding'
  BY <1>22 DEF Provider, ProviderStep
<1>23. ASSUME NEW c \in Caller, Crash(c)
      PROVE  Binding'
  BY <1>23 DEF Crash, Goto
<1> QED
  BY <1>1, <1>2, <1>3, <1>4, <1>5, <1>6, <1>7, <1>8, <1>9, <1>10, <1>11, <1>12, <1>13,
     <1>14, <1>15, <1>16, <1>17, <1>18, <1>19, <1>20, <1>21, <1>22, <1>23 DEF Next

\* Callers with another request stay out.
LEMMA RequestsNext ==
    ASSUME Inv, [Next]_vars
    PROVE  Requests'
<1> USE GatewayAssumption DEF Inv, TypeOK, Places, Requests, Row, Settled, InInvoke,
       HoldsLease
<1>1. CASE UNCHANGED vars
  BY <1>1 DEF vars
<1>2. CASE LeaseLapses
  BY <1>2 DEF LeaseLapses
<1>3. ASSUME NEW c \in Caller, ClaimNew(c)
      PROVE  Requests'
  BY <1>3 DEF ClaimNew, Claiming, Inserted, Goto
<1>4. ASSUME NEW c \in Caller, ClaimAgain(c)
      PROVE  Requests'
  BY <1>4 DEF ClaimAgain, Claiming, Takeable, SameRequest, Unbound, Leased, Goto
<1>5. ASSUME NEW c \in Caller, ClaimToReconcile(c)
      PROVE  Requests'
  BY <1>5 DEF ClaimToReconcile, Claiming, Takeable, SameRequest, LeaseIsLive, Leased, Goto
<1>6. ASSUME NEW c \in Caller, ClaimAmbiguous(c)
      PROVE  Requests'
  BY <1>6 DEF ClaimAmbiguous, Claiming, Takeable, SameRequest, Unbound, Released, Goto
<1>7. ASSUME NEW c \in Caller, Replay(c)
      PROVE  Requests'
  BY <1>7 DEF Replay, Claiming, SameRequest, Goto
<1>8. ASSUME NEW c \in Caller, TurnAway(c)
      PROVE  Requests'
  BY <1>8 DEF TurnAway, Claiming, Goto
<1>9. ASSUME NEW c \in Caller, NEW acked \in BOOLEAN, MarkProviderAttemptStarted(c, acked)
      PROVE  Requests'
  BY <1>9 DEF MarkProviderAttemptStarted, Update, Goto
<1>10. ASSUME NEW c \in Caller, Send(c)
      PROVE  Requests'
  BY <1>10 DEF Send, Goto
<1>11. ASSUME NEW c \in Caller, NEW acked \in BOOLEAN, RecordProviderRequest(c, acked)
      PROVE  Requests'
  BY <1>11 DEF RecordProviderRequest, Goto
<1>12. ASSUME NEW c \in Caller, NEW acked \in BOOLEAN, Succeed(c, acked)
      PROVE  Requests'
  BY <1>12 DEF Succeed, Update, Succeeded, Released, Goto
<1>13. ASSUME NEW c \in Caller, FailRetryable(c)
      PROVE  Requests'
  BY <1>13 DEF FailRetryable, MayFailRetryable, Cleared, Released, Goto
<1>14. ASSUME NEW c \in Caller, FailFinal(c)
      PROVE  Requests'
  BY <1>14 DEF FailFinal, Update, Released, Goto
<1>15. ASSUME NEW c \in Caller, FailNeedsReconciliation(c)
      PROVE  Requests'
  BY <1>15 DEF FailNeedsReconciliation, Update, Released, Goto
<1>16. ASSUME NEW c \in Caller, FailAmbiguous(c)
      PROVE  Requests'
  BY <1>16 DEF FailAmbiguous, Update, Released, Goto
<1>17. ASSUME NEW c \in Caller, NEW state, Lookup(c, state)
      PROVE  Requests'
  BY <1>17 DEF Lookup, LookupStates, Goto
<1>18. ASSUME NEW c \in Caller, AdoptSuccess(c)
      PROVE  Requests'
  BY <1>18 DEF AdoptSuccess, Adopting, Update, Succeeded, Released, Goto
<1>19. ASSUME NEW c \in Caller, ExtendLease(c)
      PROVE  Requests'
  BY <1>19 DEF ExtendLease, Adopting, Update, Goto
<1>20. ASSUME NEW c \in Caller, ConfirmFailure(c)
      PROVE  Requests'
  BY <1>20 DEF ConfirmFailure, Adopting, Update, Cleared, Released, Goto
<1>21. ASSUME NEW c \in Caller, MarkAmbiguous(c)
      PROVE  Requests'
  BY <1>21 DEF MarkAmbiguous, Adopting, Update, Released, Goto
<1>22. ASSUME NEW c \in Caller, Provider(c)
      PROVE  Requests'
  BY <1>22 DEF Provider, ProviderStep
<1>23. ASSUME NEW c \in Caller, Crash(c)
      PROVE  Requests'
  BY <1>23 DEF Crash, Goto
<1> QED
  BY <1>1, <1>2, <1>3, <1>4, <1>5, <1>6, <1>7, <1>8, <1>9, <1>10, <1>11, <1>12, <1>13,
     <1>14, <1>15, <1>16, <1>17, <1>18, <1>19, <1>20, <1>21, <1>22, <1>23 DEF Next

LEMMA InitInv == Init => Inv
<1> SUFFICES ASSUME Init PROVE Inv
  OBVIOUS
<1> USE GatewayAssumption DEF Init
<1>1. TypeOK
  BY DEF TypeOK, Row, Settled, PC
<1>2. Places
  BY DEF Places
<1>3. Spender
  BY DEF Spender, Spending, Live
<1>4. Binding
  BY DEF Binding, HoldsLease
<1>5. Requests
  BY DEF Requests
<1> QED
  BY <1>1, <1>2, <1>3, <1>4, <1>5 DEF Inv

LEMMA NextInv == Inv /\ [Next]_vars => Inv'
BY TypeNext, PlacesNext, SpenderNext, BindingNext, RequestsNext DEF Inv

-----------------------------------------------------------------------------
(* The theorems. *)

\* The inductive invariant.
THEOREM Invariance == Spec => []Inv
<1> QED
  BY InitInv, NextInv, PTL DEF Spec

\* However many callers race for a key, at most one of their provider requests is, or can
\* still be, accepted and not failed.
THEOREM PaidOnceOnly == Spec => []PaidAtMostOnce
<1>1. Inv => PaidAtMostOnce
  BY DEF Inv, Spender, PaidAtMostOnce, Spending
<1> QED
  BY <1>1, Invariance, PTL

\* The operation always accounts for the request that may have been paid for.
THEOREM NothingForgotten == Spec => []NothingPaidIsForgotten
<1>1. Inv => NothingPaidIsForgotten
  <2> SUFFICES ASSUME Inv, NEW c \in Caller, Live(c)
               PROVE  CASE op.status = "in_progress"      -> op.started /\ op.request \in {None, c}
                        [] op.status = "failed_retryable" -> op.request = c
                        [] op.status = "succeeded"        -> op.result = c
                        [] OTHER                          -> op.status = "ambiguous"
    BY DEF NothingPaidIsForgotten
  <2>1. /\ op.status # "absent" /\ op.status # "failed_final" /\ op.started
        /\ op.request \in {None, c}
        /\ op.status = "failed_retryable" => op.request = c
        /\ \A d \in Caller : Spending(d) => d = c
    BY DEF Inv, Spender, Spending
  <2>2. ASSUME op.status = "succeeded" PROVE op.result = c
    <3>1. op.result \in Caller /\ effect[op.result] = "done"
      BY <2>2 DEF Inv, TypeOK, Binding, Row
    <3> QED
      BY <2>1, <3>1 DEF Spending, Live
  <2>3. op.status \in Settled \cup {"absent", "in_progress", "failed_retryable"}
    BY DEF Inv, TypeOK, Row
  <2> QED
    BY <2>1, <2>2, <2>3 DEF Settled
<1> QED
  BY <1>1, Invariance, PTL

\* All results that are handed out are one result, of a finished effect of that request.
THEOREM OneAnswer == Spec => []RepliesAgree
<1>1. Inv => RepliesAgree
  <2> SUFFICES ASSUME Inv, NEW c \in Caller, reply[c] # None
               PROVE  /\ effect[reply[c]] = "done"
                      /\ reply[c] = op.result
                      /\ Request[reply[c]] = Request[c]
    BY DEF RepliesAgree
  <2>1. op.status = "succeeded" /\ reply[c] = op.result /\ op.hash = Request[c]
    BY DEF Inv, Requests
  <2>2. op.result \in Caller /\ effect[op.result] = "done"
    BY <2>1 DEF Inv, TypeOK, Binding, Row
  <2>3. op.hash = Request[op.result]
    BY <2>2 DEF Inv, Requests
  <2> QED
    BY <2>1, <2>2, <2>3
<1> QED
  BY <1>1, Invariance, PTL

\* Late writes of lost callers leave a settled operation as it is.
THEOREM SettledFinal == Spec => SettledIsFinal
<1>1. ASSUME Inv, [Next]_vars PROVE op.status \in Settled => op' = op
  <2> SUFFICES ASSUME op.status \in Settled PROVE op' = op
    OBVIOUS
  <2>1. op.lease = "none" /\ \A c \in Caller : ~HoldsLease(c) /\ ~Takeable(c)
    BY <1>1 DEF Inv, TypeOK, Settled, HoldsLease, Takeable
  <2>2. CASE UNCHANGED vars \/ LeaseLapses
    BY <2>1, <2>2 DEF vars, LeaseLapses
  <2>3. ASSUME NEW c \in Caller,
               \/ ClaimNew(c) \/ ClaimAgain(c) \/ ClaimToReconcile(c) \/ ClaimAmbiguous(c)
               \/ Replay(c) \/ TurnAway(c)
        PROVE  op' = op
    BY <2>1, <2>3 DEF ClaimNew, ClaimAgain, ClaimToReconcile, ClaimAmbiguous, Replay,
                      TurnAway, Settled
  <2>4. ASSUME NEW c \in Caller, NEW acked,
               \/ MarkProviderAttemptStarted(c, acked) \/ RecordProviderRequest(c, acked)
               \/ Succeed(c, acked) \/ FailRetryable(c) \/ FailFinal(c)
               \/ FailNeedsReconciliation(c) \/ FailAmbiguous(c)
        PROVE  op' = op
    BY <2>1, <2>4 DEF MarkProviderAttemptStarted, RecordProviderRequest, Succeed,
                      FailRetryable, FailFinal, FailNeedsReconciliation, FailAmbiguous, Update
  <2>5. ASSUME NEW c \in Caller, NEW state,
               \/ Send(c) \/ Lookup(c, state) \/ AdoptSuccess(c) \/ ExtendLease(c)
               \/ ConfirmFailure(c) \/ MarkAmbiguous(c) \/ Provider(c) \/ Crash(c)
        PROVE  op' = op
    BY <2>1, <2>5 DEF Send, Lookup, AdoptSuccess, ExtendLease, ConfirmFailure, MarkAmbiguous,
                      Provider, ProviderStep, Crash, Update
  <2> QED
    BY <1>1, <2>2, <2>3, <2>4, <2>5 DEF Next
<1> QED
  BY <1>1, Invariance, PTL DEF Spec, SettledIsFinal

\* Only two writes take the barrier away, and neither is a provider's step.
LEMMA BarrierCleared ==
    ASSUME Inv, [Next]_vars, op.started, ~op'.started
    PROVE  effect' = effect
<1>1. op \in Row
  BY DEF Inv, TypeOK
<1>2. CASE UNCHANGED vars
  BY <1>2 DEF vars
<1>3. ASSUME NEW c \in Caller, Send(c) \/ Provider(c) PROVE FALSE
  BY <1>3 DEF Send, Provider, ProviderStep
<1>4. CASE Next
  BY <1>3, <1>4 DEF Next, LeaseLapses, ClaimNew, ClaimAgain, ClaimToReconcile, ClaimAmbiguous,
     Replay, TurnAway, MarkProviderAttemptStarted, RecordProviderRequest, Succeed,
     FailRetryable, FailFinal, FailNeedsReconciliation, FailAmbiguous, Lookup, AdoptSuccess,
     ExtendLease, ConfirmFailure, MarkAmbiguous, Crash
<1> QED
  BY <1>2, <1>4

\* The barrier outlives every call that it stands for.
THEOREM BarrierHolds == Spec => BarrierOutlivesTheCall
<1>1. ASSUME Inv, [Next]_vars
      PROVE  op.started /\ ~op'.started => \A c \in Caller : ~Live(c) /\ pc'[c] # "marked"
  <2> SUFFICES ASSUME op.started, ~op'.started, NEW c \in Caller
               PROVE  ~Live(c) /\ pc'[c] # "marked"
    OBVIOUS
  <2>1. effect' = effect
    BY <1>1, BarrierCleared
  <2>2. ~Spending(c)'
    BY <1>1, NextInv DEF Inv, Spender
  <2> QED
    BY <2>1, <2>2 DEF Spending, Live
<1> QED
  BY <1>1, Invariance, PTL DEF Spec, BarrierOutlivesTheCall

-----------------------------------------------------------------------------
(* The refinement of PaidOnce. *)

SpendingCaller ==
    IF \E c \in Caller : Spending(c) THEN CHOOSE c \in Caller : Spending(c) ELSE None

\* The spender is the one caller that spends.
TheSpender ==
    /\ SpendingCaller = None => \A c \in Caller : ~Spending(c)
    /\ SpendingCaller # None => SpendingCaller \in Caller /\ Spending(SpendingCaller)
    /\ \A c \in Caller : Spending(c) => SpendingCaller = c

LEMMA SpenderUnique == Inv => TheSpender
<1> SUFFICES ASSUME Inv PROVE TheSpender
  OBVIOUS
<1>1. CASE \E c \in Caller : Spending(c)
  <2>1. SpendingCaller \in Caller /\ Spending(SpendingCaller)
    BY <1>1 DEF SpendingCaller
  <2> QED
    BY <2>1, GatewayAssumption DEF TheSpender, Inv, Spender
<1>2. CASE ~ \E c \in Caller : Spending(c)
  BY <1>2 DEF SpendingCaller, TheSpender
<1> QED
  BY <1>1, <1>2

LEMMA SpenderKept ==
    ASSUME TheSpender, TheSpender', \A d \in Caller : Spending(d)' <=> Spending(d)
    PROVE  SpendingCaller' = SpendingCaller
BY DEF TheSpender

LEMMA SpenderDropped ==
    ASSUME TheSpender, TheSpender', \A d \in Caller : Spending(d)' => Spending(d)
    PROVE  SpendingCaller' \in {SpendingCaller, None}
BY DEF TheSpender

\* A call that is still to be sent, sent or pending is not the result.
LEMMA UnfinishedIsNoResult ==
    ASSUME Inv, NEW c \in Caller, Spending(c), effect[c] # "done"
    PROVE  op.status # "succeeded"
<1> SUFFICES ASSUME op.status = "succeeded" PROVE FALSE
  OBVIOUS
<1>1. op.result \in Caller /\ effect[op.result] = "done"
  BY DEF Inv, TypeOK, Binding, Row
<1> QED
  BY <1>1 DEF Inv, Spender, Spending, Live

Answer ==
    CASE op.status = "ambiguous"    -> "unknown"
      [] op.status = "failed_final" -> "failed"
      [] op.status = "succeeded"    -> "result"
      [] OTHER                      -> "open"

LEMMA ClearedRow ==
    ASSUME TypeOK
    PROVE  Cleared.status = "failed_retryable" /\ Cleared.result = op.result
<1>1. op \in Row
  BY DEF TypeOK
<1>2. \A r \in Row : LET f == [r EXCEPT !.status = "failed_retryable", !.owner = None,
                                        !.lease = "none"]
                     IN  f \in Row /\ f.status = "failed_retryable" /\ f.result = r.result
  BY DEF Row
<1>3. /\ Released("failed_retryable") \in Row
      /\ Released("failed_retryable").status = "failed_retryable"
      /\ Released("failed_retryable").result = op.result
  BY <1>1, <1>2, Zenon DEF Released
<1>4. \A r \in Row : /\ [r EXCEPT !.started = FALSE, !.request = None].status = r.status
                    /\ [r EXCEPT !.started = FALSE, !.request = None].result = r.result
  BY DEF Row
<1> QED
  BY <1>3, <1>4 DEF Cleared

\* Steps that PaidOnce does not see: nobody begins or ceases to spend, nothing is settled.
LEMMA QuietSteps ==
    ASSUME Inv, NEW c \in Caller, NEW acked, NEW state,
           \/ ClaimNew(c) \/ ClaimAgain(c) \/ ClaimToReconcile(c) \/ TurnAway(c)
           \/ Send(c) \/ RecordProviderRequest(c, acked) \/ FailNeedsReconciliation(c)
           \/ Lookup(c, state) \/ ExtendLease(c) \/ ConfirmFailure(c)
    PROVE  /\ \A d \in Caller : Spending(d)' <=> Spending(d)
           /\ Answer' = Answer /\ op'.result = op.result /\ reply' = reply
<1> USE GatewayAssumption DEF Inv, TypeOK, Places, Row, Settled, HoldsLease, InInvoke, Goto
<1>1. /\ op'.result = op.result
      /\ op'.status = op.status \/ (op.status \notin Settled /\ op'.status \notin Settled)
  <2>0. \/ op' = op
        \/ op.status = "absent" /\ op' = Inserted(c)
        \/ op.status \notin Settled /\ op' = Leased(c)
        \/ op.status = "in_progress" /\ op' = Cleared
        \/ op.status = "in_progress" /\ op' = Released("failed_retryable")
        \/ op' = [op EXCEPT !.lease = "live"]
        \/ op' = [op EXCEPT !.started = TRUE, !.request = c]
    BY DEF ClaimNew, ClaimAgain, ClaimToReconcile, TurnAway, Send, RecordProviderRequest,
       FailNeedsReconciliation, Lookup, ExtendLease, ConfirmFailure, Takeable, Update
  <2>1. CASE op.status = "absent" /\ op' = Inserted(c)
    BY <2>1 DEF Inserted
  <2>2. CASE op.status \notin Settled /\ op' = Leased(c)
    BY <2>2 DEF Leased
  <2>3. CASE op.status = "in_progress" /\ op' = Cleared
    BY <2>3, ClearedRow
  <2>4. CASE op.status = "in_progress" /\ op' = Released("failed_retryable")
    BY <2>4 DEF Released
  <2>5. CASE \/ op' = op \/ op' = [op EXCEPT !.lease = "live"]
             \/ op' = [op EXCEPT !.started = TRUE, !.request = c]
    BY <2>5
  <2> QED
    BY <2>0, <2>1, <2>2, <2>3, <2>4, <2>5
<1>r. reply' = reply
  BY DEF ClaimNew, ClaimAgain, ClaimToReconcile, TurnAway, Send, RecordProviderRequest,
     FailNeedsReconciliation, Lookup, ExtendLease, ConfirmFailure
<1>a. Answer' = Answer
  BY <1>1 DEF Answer
<1>2. \A d \in Caller : Spending(d)' <=> Spending(d)
  BY DEF ClaimNew, ClaimAgain, ClaimToReconcile, TurnAway, Send, RecordProviderRequest,
     FailNeedsReconciliation, Lookup, ExtendLease, ConfirmFailure, Claiming, Adopting,
     Spending, Live
<1> QED
  BY <1>1, <1>r, <1>a, <1>2

\* Steps by which somebody may cease to spend, and which settle nothing.
LEMMA WaivingSteps ==
    ASSUME Inv, NEW c \in Caller, FailRetryable(c) \/ Provider(c) \/ Crash(c)
    PROVE  /\ \A d \in Caller : Spending(d)' => Spending(d)
           /\ Answer' = Answer /\ op'.result = op.result /\ reply' = reply
           /\ (\A d \in Caller : Spending(d)' <=> Spending(d)) \/ Answer # "result"
<1> USE GatewayAssumption DEF Inv, TypeOK, Places, Row, Settled, HoldsLease, InInvoke, Goto
<1>1. op'.result = op.result /\ reply' = reply /\ Answer' = Answer
  <2>1. op'.status = op.status \/ (op.status \notin Settled /\ op'.status \notin Settled)
    BY ClearedRow DEF FailRetryable, Provider, ProviderStep, Crash
  <2>2. op'.result = op.result /\ reply' = reply
    BY ClearedRow DEF FailRetryable, Provider, ProviderStep, Crash
  <2> QED
    BY <2>1, <2>2 DEF Answer
<1>2. \A d \in Caller : Spending(d)' => Spending(d)
  BY DEF FailRetryable, Provider, ProviderStep, Crash, Spending, Live
<1>3. ASSUME NEW d \in Caller, Spending(d), ~Spending(d)' PROVE effect[d] # "done"
  BY <1>3 DEF FailRetryable, Provider, ProviderStep, Crash, Spending, Live
<1>4. ASSUME NEW d \in Caller, Spending(d), ~Spending(d)' PROVE Answer # "result"
  <2>1. op.status # "succeeded"
    BY <1>3, <1>4, UnfinishedIsNoResult
  <2> QED
    BY <2>1 DEF Answer
<1> QED
  BY <1>1, <1>2, <1>4

\* Steps that give up: the outcome is unknown.
LEMMA AmbiguousSteps ==
    ASSUME Inv, NEW c \in Caller, ClaimAmbiguous(c) \/ FailAmbiguous(c) \/ MarkAmbiguous(c)
    PROVE  /\ \A d \in Caller : Spending(d)' => Spending(d)
           /\ op'.result = op.result /\ reply' = reply
           /\ \/ Answer = "open" /\ Answer' = "unknown"
              \/ Answer' = Answer
                 /\ ((\A d \in Caller : Spending(d)' <=> Spending(d)) \/ Answer # "result")
<1> USE GatewayAssumption DEF Inv, TypeOK, Places, Row, Settled, HoldsLease, InInvoke, Goto
<1>1. op'.result = op.result /\ reply' = reply
  BY DEF ClaimAmbiguous, FailAmbiguous, MarkAmbiguous, Update, Released
<1>2. \A d \in Caller : Spending(d)' => Spending(d)
  BY DEF ClaimAmbiguous, FailAmbiguous, MarkAmbiguous, Spending, Live, Claiming, Adopting
<1>3. ASSUME NEW d \in Caller, Spending(d), ~Spending(d)' PROVE effect[d] # "done"
  BY <1>3 DEF ClaimAmbiguous, FailAmbiguous, MarkAmbiguous, Spending, Live
<1>4. ASSUME NEW d \in Caller, Spending(d), ~Spending(d)' PROVE Answer # "result"
  <2>1. op.status # "succeeded"
    BY <1>3, <1>4, UnfinishedIsNoResult
  <2> QED
    BY <2>1 DEF Answer
<1>5. Answer' = Answer \/ (Answer = "open" /\ Answer' = "unknown")
  <2>1. op' = op \/ (op.status \notin Settled /\ op'.status = "ambiguous")
    BY DEF ClaimAmbiguous, FailAmbiguous, MarkAmbiguous, Takeable, Update, Released
  <2>2. CASE op' = op
    BY <2>2 DEF Answer
  <2>3. CASE op.status \notin Settled /\ op'.status = "ambiguous"
    BY <2>3 DEF Answer
  <2> QED
    BY <2>1, <2>2, <2>3
<1> QED
  BY <1>1, <1>2, <1>4, <1>5

\* Each step of the gateway is one of PaidOnce, or none.
LEMMA StepsOfOnce ==
    ASSUME Inv, Inv', TheSpender, TheSpender', [Next]_vars
    PROVE  [Once!Next]_(Once!vars)
<1> DEFINE Abs == [Once!Next]_(Once!vars)
<1>q. ASSUME SpendingCaller' = SpendingCaller, Answer' = Answer, op'.result = op.result,
             reply' = reply
      PROVE  Abs
  BY <1>q DEF Once!vars, SpendingCaller, Answer
<1>w. ASSUME SpendingCaller' \in {SpendingCaller, None}, Answer' = Answer,
             op'.result = op.result, reply' = reply,
             SpendingCaller' = SpendingCaller \/ Answer # "result"
      PROVE  Abs
  BY <1>w DEF Once!Next, Once!Waive, Once!vars, SpendingCaller, Answer
<1>g. ASSUME SpendingCaller' \in {SpendingCaller, None}, Answer = "open",
             op'.result = op.result, reply' = reply,
             Answer' = "unknown" \/ (Answer' = "failed" /\ SpendingCaller = None)
      PROVE  Abs
  BY <1>g DEF Once!Next, Once!GiveUp, SpendingCaller, Answer
<1>s. ASSUME NEW c \in Caller, SpendingCaller' = SpendingCaller, SpendingCaller # None,
             Answer = "open", Answer' = "result", op'.result = SpendingCaller,
             reply' = reply \/ reply' = [reply EXCEPT ![c] = SpendingCaller]
      PROVE  Abs
  BY <1>s DEF Once!Next, Once!Settle, SpendingCaller, Answer
<1> HIDE DEF Abs
<1>1. ASSUME UNCHANGED vars \/ LeaseLapses PROVE Abs
  <2>1. /\ \A d \in Caller : Spending(d)' <=> Spending(d)
        /\ Answer' = Answer /\ op'.result = op.result /\ reply' = reply
    BY <1>1 DEF vars, LeaseLapses, Spending, Live, Answer, Inv, TypeOK, Row
  <2>2. SpendingCaller' = SpendingCaller
    BY <2>1, SpenderKept
  <2> QED
    BY <2>1, <2>2, <1>q
<1>2. ASSUME NEW c \in Caller, NEW acked, NEW state,
             \/ ClaimNew(c) \/ ClaimAgain(c) \/ ClaimToReconcile(c) \/ TurnAway(c)
             \/ Send(c) \/ RecordProviderRequest(c, acked) \/ FailNeedsReconciliation(c)
             \/ Lookup(c, state) \/ ExtendLease(c) \/ ConfirmFailure(c)
      PROVE  Abs
  <2>1. /\ \A d \in Caller : Spending(d)' <=> Spending(d)
        /\ Answer' = Answer /\ op'.result = op.result /\ reply' = reply
    BY <1>2, QuietSteps
  <2>2. SpendingCaller' = SpendingCaller
    BY <2>1, SpenderKept
  <2> QED
    BY <2>1, <2>2, <1>q
<1>3. ASSUME NEW c \in Caller, FailRetryable(c) \/ Provider(c) \/ Crash(c) PROVE Abs
  BY <1>3, <1>w, WaivingSteps, SpenderKept, SpenderDropped
<1>4. ASSUME NEW c \in Caller, ClaimAmbiguous(c) \/ FailAmbiguous(c) \/ MarkAmbiguous(c)
      PROVE  Abs
  <2>1. /\ \A d \in Caller : Spending(d)' => Spending(d)
        /\ op'.result = op.result /\ reply' = reply
        /\ \/ Answer = "open" /\ Answer' = "unknown"
           \/ Answer' = Answer
              /\ ((\A d \in Caller : Spending(d)' <=> Spending(d)) \/ Answer # "result")
    BY <1>4, AmbiguousSteps
  <2>2. SpendingCaller' \in {SpendingCaller, None}
    BY <2>1, SpenderDropped
  <2>3. CASE Answer = "open" /\ Answer' = "unknown"
    <3>1. Answer' = "unknown" \/ (Answer' = "failed" /\ SpendingCaller = None)
      BY <2>3
    <3>2. Answer = "open" /\ op'.result = op.result /\ reply' = reply
      BY <2>1, <2>3
    <3> QED
      BY <2>2, <3>1, <3>2, <1>g
  <2>4. CASE ~(Answer = "open" /\ Answer' = "unknown")
    <3>1. SpendingCaller' = SpendingCaller \/ Answer # "result"
      BY <2>1, <2>4, SpenderKept
    <3> QED
      BY <2>1, <2>2, <2>4, <3>1, <1>w
  <2> QED
    BY <2>3, <2>4
<1>5. ASSUME NEW c \in Caller, Replay(c) PROVE Abs
  <2>1. /\ \A d \in Caller : Spending(d)' <=> Spending(d)
        /\ Answer = "result" /\ Answer' = Answer /\ op'.result = op.result
        /\ reply' = [reply EXCEPT ![c] = op.result]
    BY <1>5 DEF Replay, Goto, Claiming, Spending, Live, Answer, Inv, TypeOK
  <2>2. SpendingCaller' = SpendingCaller
    BY <2>1, SpenderKept
  <2> QED
    BY <2>1, <2>2 DEF Abs, Once!Next, Once!Tell, SpendingCaller, Answer
<1>6. ASSUME NEW c \in Caller, NEW acked, MarkProviderAttemptStarted(c, acked) PROVE Abs
  <2>1. Answer' = Answer /\ op'.result = op.result /\ reply' = reply
    BY <1>6 DEF MarkProviderAttemptStarted, Update, HoldsLease, Answer, Inv, TypeOK, Row
  <2>2. CASE HoldsLease(c) /\ acked
    <3>1. Answer = "open" /\ Spending(c)'
      BY <1>6, <2>2 DEF MarkProviderAttemptStarted, HoldsLease, Goto, Spending, Answer, Inv,
                        TypeOK
    <3>2. SpendingCaller = None
      BY <1>6, <2>2 DEF MarkProviderAttemptStarted, TheSpender, Inv, Spender, Places, Spending,
                        Live, InInvoke
    <3>3. SpendingCaller' = c
      BY <3>1 DEF TheSpender
    <3> QED
      BY <2>1, <3>1, <3>2, <3>3 DEF Abs, Once!Next, Once!Spend, SpendingCaller, Answer
  <2>3. CASE ~(HoldsLease(c) /\ acked)
    <3>1. \A d \in Caller : Spending(d)' <=> Spending(d)
      BY <1>6, <2>3 DEF MarkProviderAttemptStarted, Goto, Spending, Live, Inv, TypeOK
    <3> QED
      BY <2>1, <3>1, <1>q, SpenderKept
  <2> QED
    BY <2>2, <2>3
<1>7. ASSUME NEW c \in Caller, NEW acked, Succeed(c, acked) PROVE Abs
  <2>1. \A d \in Caller : Spending(d)' <=> Spending(d)
    BY <1>7 DEF Succeed, Goto, Spending, Live, Inv, TypeOK
  <2>2. SpendingCaller' = SpendingCaller /\ SpendingCaller = c
    BY <1>7, <2>1, SpenderKept DEF Succeed, TheSpender, Spending, Live
  <2>3. CASE HoldsLease(c)
    <3>1. /\ Answer = "open" /\ Answer' = "result" /\ op'.result = c
          /\ reply' = reply \/ reply' = [reply EXCEPT ![c] = c]
      BY <1>7, <2>3 DEF Succeed, Update, HoldsLease, Succeeded, Released, Answer, Inv, TypeOK,
                        Row
    <3> QED
      BY <2>2, <3>1, <1>s, GatewayAssumption
  <2>4. CASE ~HoldsLease(c)
    BY <1>7, <2>2, <2>4, <1>q DEF Succeed, Update, Answer
  <2> QED
    BY <2>3, <2>4
<1>8. ASSUME NEW c \in Caller, AdoptSuccess(c) PROVE Abs
  <2>1. \A d \in Caller : Spending(d)' <=> Spending(d)
    BY <1>8 DEF AdoptSuccess, Adopting, Goto, Spending, Live, Inv, TypeOK
  <2>2. asked[c] \in Caller /\ effect[asked[c]] = "done"
    BY <1>8 DEF AdoptSuccess, Adopting, Inv, TypeOK, Places
  <2>3. SpendingCaller' = SpendingCaller /\ SpendingCaller = asked[c]
    BY <2>1, <2>2, SpenderKept DEF TheSpender, Spending, Live
  <2>4. CASE HoldsLease(c)
    <3>1. /\ Answer = "open" /\ Answer' = "result" /\ op'.result = asked[c]
          /\ reply' = [reply EXCEPT ![c] = asked[c]]
      BY <1>8, <2>4 DEF AdoptSuccess, Update, HoldsLease, Succeeded, Released, Answer, Inv,
                        TypeOK, Row
    <3> QED
      BY <2>2, <2>3, <3>1, <1>s, GatewayAssumption
  <2>5. CASE ~HoldsLease(c)
    BY <1>8, <2>3, <2>5, <1>q DEF AdoptSuccess, Update, Answer
  <2> QED
    BY <2>4, <2>5
<1>9. ASSUME NEW c \in Caller, FailFinal(c) PROVE Abs
  <2>1. \A d \in Caller : Spending(d)' <=> Spending(d)
    BY <1>9 DEF FailFinal, Goto, Spending, Live, Inv, TypeOK, Places
  <2>2. SpendingCaller' = SpendingCaller /\ op'.result = op.result /\ reply' = reply
    BY <1>9, <2>1, SpenderKept DEF FailFinal, Update, Released, Inv, TypeOK, Row
  <2>3. CASE HoldsLease(c)
    <3>1. Answer = "open" /\ Answer' = "failed"
      BY <1>9, <2>3 DEF FailFinal, Update, HoldsLease, Released, Answer, Inv, TypeOK, Row
    <3>2. SpendingCaller = None
      BY <1>9, <2>3 DEF FailFinal, TheSpender, Inv, Spender, Places, Spending, Live
    <3> QED
      BY <2>2, <3>1, <3>2, <1>g
  <2>4. CASE ~HoldsLease(c)
    BY <1>9, <2>2, <2>4, <1>q DEF FailFinal, Update, Answer
  <2> QED
    BY <2>3, <2>4
<1>10. ASSUME Next PROVE Abs
  <2>1. CASE LeaseLapses
    BY <2>1, <1>1
  <2>2. CASE ~LeaseLapses
    <3>1. PICK c \in Caller :
            \/ \/ ClaimNew(c) \/ ClaimAgain(c) \/ ClaimToReconcile(c) \/ TurnAway(c)
               \/ Send(c) \/ FailNeedsReconciliation(c) \/ ExtendLease(c) \/ ConfirmFailure(c)
            \/ \E acked \in BOOLEAN : RecordProviderRequest(c, acked)
            \/ \E state \in {"unknown", "pending", "done", "failed"} : Lookup(c, state)
            \/ FailRetryable(c) \/ Provider(c) \/ Crash(c)
            \/ ClaimAmbiguous(c) \/ FailAmbiguous(c) \/ MarkAmbiguous(c)
            \/ Replay(c) \/ AdoptSuccess(c) \/ FailFinal(c)
            \/ \E acked \in BOOLEAN : MarkProviderAttemptStarted(c, acked) \/ Succeed(c, acked)
      BY <1>10, <2>2, Zenon DEF Next
    <3>2. CASE \E acked \in BOOLEAN :
                  \/ RecordProviderRequest(c, acked) \/ MarkProviderAttemptStarted(c, acked)
                  \/ Succeed(c, acked)
      BY <3>2, <1>2, <1>6, <1>7
    <3>3. CASE \E state \in {"unknown", "pending", "done", "failed"} : Lookup(c, state)
      BY <3>3, <1>2
    <3> QED
      BY <3>1, <3>2, <3>3, <1>2, <1>3, <1>4, <1>5, <1>8, <1>9
  <2> QED
    BY <2>1, <2>2
<1> QED
  BY <1>1, <1>10 DEF Abs

\* The gateway implements PaidOnce.
THEOREM GatewayImplementsPaidOnce == Spec => ImplementsPaidOnce
<1>1. Init => Once!Init
  <2> SUFFICES ASSUME Init PROVE Once!Init
    OBVIOUS
  <2>1. \A c \in Caller : ~Spending(c)
    BY DEF Init, Spending, Live
  <2> QED
    BY <2>1 DEF Init, Once!Init
<1>2. Inv /\ Inv' /\ TheSpender /\ TheSpender' /\ [Next]_vars => [Once!Next]_(Once!vars)
  BY StepsOfOnce
<1> QED
  BY <1>1, <1>2, SpenderUnique, Invariance, PTL DEF Spec, ImplementsPaidOnce, Once!Spec
=============================================================================
