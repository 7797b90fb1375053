------------------------- MODULE ModelGatewayProofs -------------------------
(***************************************************************************)
(* Proofs about ModelGateway, for any calls that repeat, overlap, crash    *)
(* and fall back.  What a call does to the ledger are steps of CostGateway,*)
(* so CostInv is kept by CostStep; Inv adds what the paid guard knows of   *)
(* the providers, and what a call knows of the guard.                      *)
(* SequentialInv adds what holds of a call that runs alone, so that its    *)
(* cost is booked; OnceStep is what a step may look like to PaidOnce;      *)
(* Effort bounds the steps that a call has yet to take.                    *)
(***************************************************************************)
EXTENDS ModelGateway, CostGatewayProofs

\* Where a call has a candidate, and where it has nothing left to ask of the guard.
Placed == {"reserved", "claimed", "calling", "booking", "releasing"}

Over == {"booking", "ended", "crashed"}

LocalTypeOK ==
    /\ pc \in [Call -> PC]
    /\ at \in [Call -> Candidate \cup {None}]
    /\ left \in [Call -> SUBSET Candidate]
    /\ attempt \in [Call -> 0 .. MaxAttempts]
    /\ flight \in [Call -> {"none", "sent", "accepted", "refused"}]
    /\ answer \in [Call -> Call \cup {None}]
    /\ outcome \in [Call -> Outcome \cup {None}]
    /\ overlapped \subseteq Operation

PlaceInv ==
    \A c \in Call :
        /\ \/ at[c] \in Candidate
           \/ /\ at[c] = None /\ pc[c] \notin Placed
              /\ flight[c] = "none" /\ answer[c] = None
        /\ outcome[c] # None => pc[c] = "ended"

\* What may be paid is behind the barrier of its key, and not of another call.
PaidInv ==
    \A c \in Call : MayBePaid(c) =>
        /\ guard[KeyOf(c)].status \in {"started", "unknown", "result"}
        /\ guard[KeyOf(c)].status # "unknown" => guard[KeyOf(c)].by = c

\* Who is behind a barrier, or a result, has not moved on.
GuardInv ==
    \A k \in Key :
        /\ guard[k].status = "started" =>
               guard[k].by \in Call /\ KeyOf(guard[k].by) = k
               /\ pc[guard[k].by] \in Over \cup {"calling"}
        /\ guard[k].status = "result" =>
               guard[k].by \in Call /\ KeyOf(guard[k].by) = k
               /\ pc[guard[k].by] \in Over /\ flight[guard[k].by] = "accepted"

AnswerInv ==
    \A c \in Call : answer[c] # None =>
        /\ pc[c] \in Over
        /\ guard[KeyOf(c)].status = "result" /\ guard[KeyOf(c)].by = answer[c]

BookedInv ==
    \A c \in Call : outcome[c] = "answered" =>
        answer[c] # None /\ actual[OperationOf[c]] = Cost(c)

CallInv ==
    /\ LocalTypeOK /\ guard \in [Key -> Guard]
    /\ PlaceInv /\ PaidInv /\ GuardInv /\ AnswerInv /\ CandidatePaidOnce

Inv == CostInv /\ CallInv /\ BookedInv

-----------------------------------------------------------------------------
LEMMA KeyOfCall ==
    ASSUME NEW c \in Call, at[c] \in Candidate
    PROVE  KeyOf(c) \in Key /\ KeyOf(c)[1] = OperationOf[c] /\ KeyOf(c)[2] = at[c]
  <1>1. OperationOf[c] \in Operation
    BY ModelAssumption
  <1> QED
    BY <1>1 DEF KeyOf, Key

LEMMA PlacedAt ==
    ASSUME CallInv, NEW c \in Call, pc[c] \in Placed
    PROVE  at[c] \in Candidate
  BY DEF CallInv, PlaceInv

LEMMA CostIsFact ==
    ASSUME CallInv, NEW c \in Call, at[c] \in Candidate
    PROVE  Cost(c) \in Fact /\ Cost(c).candidate = KeyOf(c)[2]
  <1>1. Estimate[at[c]] \in Amount /\ Charge[at[c]] \in Amount
    BY ModelAssumption
  <1>2. answer[c] \in Call \cup {None}
    BY DEF CallInv, LocalTypeOK
  <1>3. Cost(c) \in Fact /\ Cost(c).candidate = at[c]
    BY <1>1, <1>2 DEF Cost, Fact
  <1> QED
    BY <1>3, KeyOfCall

\* Every step of the calls is a step of the cost gateway, or leaves it alone.
LEMMA CostSimulation ==
    ASSUME CallInv, Next
    PROVE  CostNext \/ UNCHANGED costs
  <1>1. ASSUME NEW c \in Call, ReserveBudget(c)
        PROVE  CostNext
    <2>1. PICK p \in left[c] : Reserve(<<OperationOf[c], p>>)
      BY <1>1 DEF ReserveBudget
    <2>2. p \in Candidate
      BY DEF CallInv, LocalTypeOK
    <2>3. <<OperationOf[c], p>> \in Key
      BY <2>2, ModelAssumption DEF Key
    <2> QED
      BY <2>1, <2>3 DEF CostNext
  <1>2. ASSUME NEW c \in Call, CommitCost(c)
        PROVE  CostNext
    <2>1. at[c] \in Candidate
      BY <1>2, PlacedAt DEF CommitCost, Placed
    <2>2. KeyOf(c) \in Key /\ Cost(c) \in Fact /\ Cost(c).candidate = KeyOf(c)[2]
      BY <2>1, KeyOfCall, CostIsFact
    <2>3. Commit(KeyOf(c), Cost(c))
      BY <1>2 DEF CommitCost
    <2> QED
      BY <2>2, <2>3 DEF CostNext
  <1>3. ASSUME NEW c \in Call, ReleaseBudget(c)
        PROVE  CostNext
    <2>1. at[c] \in Candidate
      BY <1>3, PlacedAt DEF ReleaseBudget, Placed
    <2>2. KeyOf(c) \in Key /\ Release(KeyOf(c))
      BY <1>3, <2>1, KeyOfCall DEF ReleaseBudget
    <2> QED
      BY <2>2 DEF CostNext
  <1>4. ASSUME NEW k \in Key, ReservationLapses(k)
        PROVE  CostNext
    BY <1>4 DEF ReservationLapses, CostNext
  <1>5. ASSUME NEW c \in Call,
               \/ Invoke(c) \/ BudgetExceeded(c) \/ NoRoute(c) \/ Claim(c)
               \/ ReplayResult(c) \/ GuardUnsure(c) \/ CallProvider(c)
               \/ ProviderAnswers(c) \/ NotAccepted(c) \/ ProviderUnsure(c)
               \/ CommitConflict(c) \/ ReleaseConflict(c) \/ Crash(c) \/ ProviderDecides(c)
        PROVE  UNCHANGED costs
    BY <1>5 DEF Invoke, BudgetExceeded, NoRoute, Claim, ReplayResult, GuardUnsure,
                CallProvider, ProviderAnswers, NotAccepted, ProviderUnsure, CommitConflict,
                ReleaseConflict, Crash, ProviderDecides
  <1>6. ASSUME NEW k \in Key, LeaseLapses(k)
        PROVE  UNCHANGED costs
    BY <1>6 DEF LeaseLapses
  <1> QED
    BY <1>1, <1>2, <1>3, <1>4, <1>5, <1>6 DEF Next, Proceed

-----------------------------------------------------------------------------
\* Types of what is local to the calls.
LEMMA LocalTypes ==
    ASSUME CallInv, Next
    PROVE  LocalTypeOK'
  <1> USE DEF CallInv, LocalTypeOK, PC, Outcome, Goto, End, Forget
  <1>1. ASSUME NEW c \in Call, Invoke(c)
        PROVE  LocalTypeOK'
    BY <1>1, ModelAssumption DEF Invoke
  <1>2. ASSUME NEW c \in Call, ReserveBudget(c)
        PROVE  LocalTypeOK'
    BY <1>2, ModelAssumption DEF ReserveBudget
  <1>3. ASSUME NEW c \in Call,
               BudgetExceeded(c) \/ NoRoute(c) \/ CommitConflict(c) \/ ReleaseConflict(c)
        PROVE  LocalTypeOK'
    BY <1>3, ModelAssumption DEF BudgetExceeded, NoRoute, CommitConflict, ReleaseConflict
  <1>4. ASSUME NEW c \in Call, Claim(c) \/ GuardUnsure(c) \/ CallProvider(c) \/ ProviderUnsure(c)
        PROVE  LocalTypeOK'
    BY <1>4 DEF Claim, GuardUnsure, CallProvider, ProviderUnsure
  <1>5. ASSUME NEW c \in Call, ReplayResult(c)
        PROVE  LocalTypeOK'
    <2>1. KeyOf(c) \in Key
      BY <1>5, PlacedAt, KeyOfCall DEF ReplayResult, Placed
    <2>2. guard[KeyOf(c)].by \in Call \cup {None}
      BY <2>1 DEF Guard
    <2> QED
      BY <1>5, <2>2 DEF ReplayResult
  <1>6. ASSUME NEW c \in Call, ProviderAnswers(c)
        PROVE  LocalTypeOK'
    BY <1>6 DEF ProviderAnswers
  <1>7. ASSUME NEW c \in Call, NotAccepted(c)
        PROVE  LocalTypeOK'
    BY <1>7, ModelAssumption DEF NotAccepted, MayRetry, NextAttempt
  <1>8. ASSUME NEW c \in Call, CommitCost(c) \/ ReleaseBudget(c)
        PROVE  LocalTypeOK'
    BY <1>8, ModelAssumption DEF CommitCost, ReleaseBudget
  <1>9. ASSUME NEW c \in Call, Crash(c) \/ ProviderDecides(c)
        PROVE  LocalTypeOK'
    BY <1>9, ModelAssumption DEF Crash, ProviderDecides
  <1>10. ASSUME NEW k \in Key, LeaseLapses(k) \/ ReservationLapses(k)
         PROVE  LocalTypeOK'
    BY <1>10 DEF LeaseLapses, ReservationLapses, calls
  <1> QED
    BY <1>1, <1>2, <1>3, <1>4, <1>5, <1>6, <1>7, <1>8, <1>9, <1>10 DEF Next, Proceed

\* Who has a candidate keeps one until it ends, and nobody ends twice.
LEMMA Places ==
    ASSUME CallInv, Next, LocalTypeOK'
    PROVE  PlaceInv'
  <1> SUFFICES ASSUME NEW d \in Call
               PROVE  /\ \/ at'[d] \in Candidate
                         \/ /\ at'[d] = None /\ pc'[d] \notin Placed
                            /\ flight'[d] = "none" /\ answer'[d] = None
                      /\ outcome'[d] # None => pc'[d] = "ended"
    BY DEF PlaceInv
  <1> DEFINE Here == /\ \/ at'[d] \in Candidate
                        \/ /\ at'[d] = None /\ pc'[d] \notin Placed
                           /\ flight'[d] = "none" /\ answer'[d] = None
                     /\ outcome'[d] # None => pc'[d] = "ended"
  <1> USE DEF CallInv, LocalTypeOK, PlaceInv, Goto, End, Forget, Placed
  <1>1. ASSUME NEW c \in Call, Invoke(c) PROVE Here
    BY <1>1 DEF Invoke
  <1>2. ASSUME NEW c \in Call, ReserveBudget(c) PROVE Here
    BY <1>2 DEF ReserveBudget
  <1>3. ASSUME NEW c \in Call,
               BudgetExceeded(c) \/ NoRoute(c) \/ CommitConflict(c) \/ ReleaseConflict(c)
        PROVE  Here
    BY <1>3 DEF BudgetExceeded, NoRoute, CommitConflict, ReleaseConflict
  <1>4. ASSUME NEW c \in Call, Claim(c) \/ GuardUnsure(c) \/ CallProvider(c) \/ ProviderUnsure(c)
        PROVE  Here
    BY <1>4 DEF Claim, GuardUnsure, CallProvider, ProviderUnsure
  <1>5. ASSUME NEW c \in Call, ReplayResult(c) \/ ProviderAnswers(c) \/ NotAccepted(c)
        PROVE  Here
    BY <1>5 DEF ReplayResult, ProviderAnswers, NotAccepted
  <1>6. ASSUME NEW c \in Call, CommitCost(c) \/ ReleaseBudget(c) \/ Crash(c)
        PROVE  Here
    BY <1>6 DEF CommitCost, ReleaseBudget, Crash, UnderWay
  <1>7. ASSUME NEW c \in Call, ProviderDecides(c) PROVE Here
    BY <1>7 DEF ProviderDecides
  <1>8. ASSUME NEW k \in Key, LeaseLapses(k) \/ ReservationLapses(k)
        PROVE  Here
    BY <1>8 DEF LeaseLapses, ReservationLapses, calls
  <1> QED
    BY <1>1, <1>2, <1>3, <1>4, <1>5, <1>6, <1>7, <1>8 DEF Next, Proceed

-----------------------------------------------------------------------------
\* A step that leaves the guard alone, lets no call be paid, and moves no call that the
\* guard may point to.
LEMMA QuietStep ==
    ASSUME CallInv, UNCHANGED guard, LocalTypeOK', PlaceInv', AnswerInv',
           \A c \in Call : MayBePaid(c)' => MayBePaid(c) /\ at'[c] = at[c],
           \A c \in Call : pc[c] \in Over \cup {"calling"} =>
               at'[c] = at[c] /\ pc'[c] \in Over \cup {"calling"},
           \A c \in Call : pc[c] \in Over =>
               pc'[c] \in Over /\ (flight[c] = "accepted" => flight'[c] = "accepted")
    PROVE  CallInv'
  <1>1. PaidInv'
    BY DEF CallInv, PaidInv, KeyOf
  <1>2. GuardInv'
    BY DEF CallInv, GuardInv, KeyOf
  <1>3. CandidatePaidOnce'
    BY DEF CallInv, CandidatePaidOnce, KeyOf
  <1> QED
    BY <1>1, <1>2, <1>3 DEF CallInv

\* A step of call c that writes one row of the guard, the one of its key.
GuardWrite(c, row) ==
    /\ guard' = [guard EXCEPT ![KeyOf(c)] = row] /\ UNCHANGED at
    /\ \A d \in Call \ {c} :
           pc'[d] = pc[d] /\ flight'[d] = flight[d] /\ answer'[d] = answer[d]
    /\ row.status = "started" =>
           row.by = c /\ pc'[c] \in Over \cup {"calling"}
    /\ row.status = "result" =>
           row.by = c /\ pc'[c] \in Over /\ flight'[c] = "accepted"
    /\ \A d \in Call : MayBePaid(d)' /\ KeyOf(d) = KeyOf(c) =>
           /\ row.status \in {"started", "unknown", "result"}
           /\ row.status # "unknown" => row.by = d
    /\ \A d \in Call : answer'[d] # None /\ KeyOf(d) = KeyOf(c) =>
           pc'[d] \in Over /\ row.status = "result" /\ row.by = answer'[d]
    /\ \/ MayBePaid(c)' => MayBePaid(c)
       \/ \A d \in Call : KeyOf(d) = KeyOf(c) => ~MayBePaid(d)

LEMMA GuardStep ==
    ASSUME CallInv, LocalTypeOK', PlaceInv', NEW c \in Call, at[c] \in Candidate,
           pc[c] \notin Over, NEW row \in Guard, GuardWrite(c, row)
    PROVE  CallInv'
  <1> USE DEF GuardWrite
  <1>0. KeyOf(c) \in Key /\ guard \in [Key -> Guard]
    BY KeyOfCall DEF CallInv
  <1>1. guard' \in [Key -> Guard] /\ guard'[KeyOf(c)] = row
        /\ \A k \in Key : k # KeyOf(c) => guard'[k] = guard[k]
    BY <1>0
  <1>2. \A d \in Call : KeyOf(d)' = KeyOf(d)
    BY DEF KeyOf
  <1>3. \A d \in Call : MayBePaid(d)' => at[d] \in Candidate
    BY DEF PlaceInv, MayBePaid
  <1>4. \A d \in Call : answer'[d] # None => at[d] \in Candidate
    BY DEF PlaceInv
  <1>5. PaidInv'
    <2> SUFFICES ASSUME NEW d \in Call, MayBePaid(d)'
                 PROVE  /\ guard'[KeyOf(d)].status \in {"started", "unknown", "result"}
                        /\ guard'[KeyOf(d)].status # "unknown" => guard'[KeyOf(d)].by = d
      BY <1>2 DEF PaidInv
    <2>1. KeyOf(d) \in Key
      BY <1>3, KeyOfCall
    <2>2. CASE KeyOf(d) = KeyOf(c)
      BY <1>1, <2>2
    <2>3. CASE KeyOf(d) # KeyOf(c)
      <3>1. MayBePaid(d)
        BY <2>3 DEF MayBePaid
      <3> QED
        BY <1>1, <2>1, <2>3, <3>1 DEF CallInv, PaidInv
    <2> QED
      BY <2>2, <2>3
  <1>6. GuardInv'
    <2> SUFFICES ASSUME NEW k \in Key
                 PROVE  /\ guard'[k].status = "started" =>
                              /\ guard'[k].by \in Call /\ KeyOf(guard'[k].by) = k
                              /\ pc'[guard'[k].by] \in Over \cup {"calling"}
                        /\ guard'[k].status = "result" =>
                              /\ guard'[k].by \in Call /\ KeyOf(guard'[k].by) = k
                              /\ pc'[guard'[k].by] \in Over
                              /\ flight'[guard'[k].by] = "accepted"
      BY <1>2 DEF GuardInv
    <2>1. CASE k = KeyOf(c)
      BY <1>1, <2>1
    <2>2. CASE k # KeyOf(c)
      <3>1. guard'[k] = guard[k]
        BY <1>1, <2>2
      <3>2. ASSUME guard[k].status \in {"started", "result"}
            PROVE  /\ guard[k].by \in Call \ {c} /\ KeyOf(guard[k].by) = k
                   /\ guard[k].status = "started" => pc[guard[k].by] \in Over \cup {"calling"}
                   /\ guard[k].status = "result" =>
                          pc[guard[k].by] \in Over /\ flight[guard[k].by] = "accepted"
        BY <2>2, <3>2 DEF CallInv, GuardInv
      <3> QED
        BY <3>1, <3>2
    <2> QED
      BY <2>1, <2>2
  <1>7. AnswerInv'
    <2> SUFFICES ASSUME NEW d \in Call, answer'[d] # None
                 PROVE  /\ pc'[d] \in Over
                        /\ guard'[KeyOf(d)].status = "result"
                        /\ guard'[KeyOf(d)].by = answer'[d]
      BY <1>2 DEF AnswerInv
    <2>1. KeyOf(d) \in Key
      BY <1>4, KeyOfCall
    <2>2. CASE KeyOf(d) = KeyOf(c)
      BY <1>1, <2>2
    <2>3. CASE KeyOf(d) # KeyOf(c)
      BY <1>1, <2>1, <2>3 DEF CallInv, AnswerInv
    <2> QED
      BY <2>2, <2>3
  <1>8. CandidatePaidOnce'
    <2>1. \A d \in Call \ {c} : MayBePaid(d)' => MayBePaid(d)
      BY DEF MayBePaid
    <2> QED
      BY <1>2, <2>1 DEF CallInv, CandidatePaidOnce
  <1> QED
    BY <1>1, <1>5, <1>6, <1>7, <1>8 DEF CallInv

-----------------------------------------------------------------------------
LEMMA QuietActions ==
    ASSUME CallInv, LocalTypeOK', PlaceInv', NEW c \in Call,
           \/ Invoke(c) \/ ReserveBudget(c) \/ BudgetExceeded(c) \/ NoRoute(c)
           \/ CommitCost(c) \/ CommitConflict(c) \/ ReleaseBudget(c) \/ ReleaseConflict(c)
           \/ Crash(c) \/ ReplayResult(c) \/ ProviderDecides(c)
    PROVE  CallInv'
  <1> USE DEF LocalTypeOK, Goto, End, Forget, Over, MayBePaid
  <1>t. LocalTypeOK
    BY DEF CallInv
  <1>a. \A d \in Call : answer[d] # None =>
            /\ pc[d] \in Over
            /\ guard[KeyOf(d)].status = "result" /\ guard[KeyOf(d)].by = answer[d]
    BY DEF CallInv, AnswerInv
  <1>1. CASE Invoke(c)
    <2>1. AnswerInv'
      BY <1>1, <1>a, <1>t DEF Invoke, AnswerInv, KeyOf
    <2> QED
      BY <1>1, <1>t, <2>1, QuietStep DEF Invoke
  <1>2. CASE ReserveBudget(c)
    <2>1. AnswerInv'
      BY <1>2, <1>a, <1>t DEF ReserveBudget, AnswerInv, KeyOf
    <2> QED
      BY <1>2, <1>t, <2>1, QuietStep DEF ReserveBudget
  <1>3. CASE BudgetExceeded(c) \/ NoRoute(c) \/ CommitConflict(c) \/ ReleaseConflict(c)
    <2>1. AnswerInv'
      BY <1>3, <1>a, <1>t
         DEF BudgetExceeded, NoRoute, CommitConflict, ReleaseConflict, AnswerInv, KeyOf
    <2> QED
      BY <1>3, <1>t, <2>1, QuietStep DEF BudgetExceeded, NoRoute, CommitConflict, ReleaseConflict
  <1>4. CASE CommitCost(c) \/ ReleaseBudget(c) \/ Crash(c)
    <2>1. AnswerInv'
      BY <1>4, <1>a, <1>t DEF CommitCost, ReleaseBudget, Crash, AnswerInv, KeyOf
    <2> QED
      BY <1>4, <1>t, <2>1, QuietStep DEF CommitCost, ReleaseBudget, Crash
  <1>5. CASE ReplayResult(c)
    <2>1. AnswerInv'
      BY <1>5, <1>a, <1>t DEF ReplayResult, AnswerInv, KeyOf
    <2> QED
      BY <1>5, <1>t, <2>1, QuietStep DEF ReplayResult
  <1>6. CASE ProviderDecides(c)
    <2>1. AnswerInv'
      BY <1>6, <1>a, <1>t DEF ProviderDecides, AnswerInv, KeyOf
    <2> QED
      BY <1>6, <1>t, <2>1, QuietStep DEF ProviderDecides
  <1> QED
    BY <1>1, <1>2, <1>3, <1>4, <1>5, <1>6

LEMMA StartedRow ==
    ASSUME NEW row \in Guard
    PROVE  /\ [row EXCEPT !.status = "started"] \in Guard
           /\ [row EXCEPT !.status = "started"].status = "started"
           /\ [row EXCEPT !.status = "started"].by = row.by
  BY DEF Guard

\* A call that has claimed its key, or not yet, finds nothing paid under an open claim.
LEMMA GuardActions ==
    ASSUME CallInv, LocalTypeOK', PlaceInv', NEW c \in Call,
           \/ Claim(c) \/ GuardUnsure(c) \/ CallProvider(c) \/ ProviderAnswers(c)
           \/ NotAccepted(c) \/ ProviderUnsure(c)
    PROVE  CallInv'
  <1> DEFINE k == KeyOf(c)
  <1>p. pc[c] \in {"reserved", "claimed", "calling"} /\ UNCHANGED at
    BY DEF Claim, GuardUnsure, CallProvider, ProviderAnswers, NotAccepted, ProviderUnsure
  <1>t. LocalTypeOK /\ guard \in [Key -> Guard]
    BY DEF CallInv
  <1>k. at[c] \in Candidate /\ k \in Key /\ guard[k] \in Guard
    BY <1>p, <1>t, PlacedAt, KeyOfCall DEF Placed
  <1>o. /\ pc[c] \notin Over /\ answer[c] = None
        /\ guard[k].status \in {"claimed", "started"} /\ guard[k].by = c
               => (guard[k].status = "started" => pc[c] = "calling")
    BY <1>p, <1>k DEF Over, CallInv, AnswerInv, GuardInv
  <1>m. \A d \in Call : KeyOf(d) = k /\ MayBePaid(d) =>
            /\ guard[k].status \in {"started", "unknown", "result"}
            /\ guard[k].status # "unknown" => guard[k].by = d
    BY DEF CallInv, PaidInv
  <1>a. \A d \in Call : KeyOf(d) = k /\ answer[d] # None =>
            /\ pc[d] \in Over /\ guard[k].status = "result" /\ guard[k].by = answer[d]
    BY DEF CallInv, AnswerInv
  <1>r. /\ ClaimedBy(c) \in Guard /\ ResultOf(c) \in Guard
        /\ UnknownGuard \in Guard /\ OpenGuard \in Guard
        /\ ClaimedBy(c).status = "claimed" /\ UnknownGuard.status = "unknown"
        /\ OpenGuard.status = "open" /\ ResultOf(c).status = "result" /\ ResultOf(c).by = c
    BY DEF ClaimedBy, ResultOf, UnknownGuard, OpenGuard, Guard
  <1>s. ASSUME UNCHANGED <<guard, at, answer>>,
               \A d \in Call : MayBePaid(d)' => MayBePaid(d),
               pc' = [pc EXCEPT ![c] = "booking"], UNCHANGED flight
        PROVE  CallInv'
    <2>1. AnswerInv'
      BY <1>s, <1>t DEF CallInv, AnswerInv, KeyOf, LocalTypeOK, Over
    <2> QED
      BY <1>s, <1>t, <2>1, QuietStep DEF LocalTypeOK, Over
  <1> HIDE DEF k
  <1>1. CASE Claim(c)
    <2>1. /\ guard[k].status \in {"open", "claimed"}
          /\ guard' = [guard EXCEPT ![KeyOf(c)] = ClaimedBy(c)]
          /\ pc' = [pc EXCEPT ![c] = "claimed"] /\ UNCHANGED <<flight, answer>>
      BY <1>1 DEF Claim, Claimable, Goto, k
    <2>2. \A d \in Call : KeyOf(d) = KeyOf(c) => ~MayBePaid(d) /\ answer[d] = None
      BY <1>m, <1>a, <2>1 DEF k
    <2>3. \A d \in Call : MayBePaid(d)' = MayBePaid(d)
      BY <2>1 DEF MayBePaid
    <2>9. GuardWrite(c, ClaimedBy(c))
      BY <1>p, <1>t, <1>k, <1>o, <1>r, <2>1, <2>2, <2>3 DEF GuardWrite, LocalTypeOK, Over
    <2> QED
      BY <1>k, <1>o, <1>r, <2>9, GuardStep
  <1>2. CASE GuardUnsure(c)
    <2>1. pc' = [pc EXCEPT ![c] = "booking"] /\ UNCHANGED <<at, flight, answer>>
      BY <1>2 DEF GuardUnsure, Goto
    <2>2. \A d \in Call : MayBePaid(d)' = MayBePaid(d)
      BY <2>1 DEF MayBePaid
    <2>3. CASE UNCHANGED guard
      BY <1>s, <2>1, <2>2, <2>3
    <2>4. CASE /\ guard[k].status = "started"
               /\ guard' = [guard EXCEPT ![KeyOf(c)] = UnknownGuard]
      <3>1. \A d \in Call : KeyOf(d) = KeyOf(c) => answer[d] = None
        BY <1>a, <2>4 DEF k
      <3>9. GuardWrite(c, UnknownGuard)
        BY <1>p, <1>t, <1>k, <1>o, <1>r, <2>1, <2>2, <2>4, <3>1 DEF GuardWrite, LocalTypeOK, Over
      <3> QED
        BY <1>k, <1>o, <1>r, <3>9, GuardStep
    <2> QED
      BY <1>2, <2>3, <2>4 DEF GuardUnsure, k
  <1>3. CASE CallProvider(c)
    <2> DEFINE row == [guard[k] EXCEPT !.status = "started"]
    <2>1. /\ guard[k].status = "claimed" /\ guard[k].by = c
          /\ guard' = [guard EXCEPT ![KeyOf(c)] = row]
          /\ pc' = [pc EXCEPT ![c] = "calling"] /\ UNCHANGED answer
          /\ flight' = [flight EXCEPT ![c] = "sent"]
      <3>1. guard[k].status \in {"claimed", "started"} /\ guard[k].by = c /\ pc[c] = "claimed"
        BY <1>3 DEF CallProvider, Holds, k
      <3>2. guard[k].status = "claimed"
        BY <1>o, <3>1
      <3> QED
        BY <1>3, <1>t, <1>k, <3>1, <3>2 DEF CallProvider, Goto, k
    <2>2. row \in Guard /\ row.status = "started" /\ row.by = c
      BY <1>k, <2>1, StartedRow
    <2> HIDE DEF row
    <2>3. \A d \in Call : KeyOf(d) = KeyOf(c) => ~MayBePaid(d) /\ answer[d] = None
      BY <1>m, <1>a, <2>1 DEF k
    <2>4. \A d \in Call \ {c} : MayBePaid(d)' = MayBePaid(d) /\ flight'[d] = flight[d]
      BY <1>t, <2>1 DEF MayBePaid, LocalTypeOK
    <2>9. GuardWrite(c, row)
      BY <1>p, <1>t, <1>k, <1>o, <2>1, <2>2, <2>3, <2>4 DEF GuardWrite, LocalTypeOK, Over
    <2> QED
      BY <1>k, <1>o, <2>2, <2>9, GuardStep
  <1>4. CASE ProviderAnswers(c)
    <2>1. /\ guard[k].status \in {"claimed", "started"} /\ guard[k].by = c
          /\ guard' = [guard EXCEPT ![KeyOf(c)] = ResultOf(c)]
          /\ pc' = [pc EXCEPT ![c] = "booking"] /\ UNCHANGED flight
          /\ answer' = [answer EXCEPT ![c] = c] /\ flight[c] = "accepted"
      BY <1>4 DEF ProviderAnswers, Goto, Holds, k
    <2>2. \A d \in Call : KeyOf(d) = KeyOf(c) =>
              (MayBePaid(d) => d = c) /\ answer[d] = None
      BY <1>m, <1>a, <2>1 DEF k
    <2>3. \A d \in Call : MayBePaid(d)' = MayBePaid(d)
      BY <2>1 DEF MayBePaid
    <2>9. GuardWrite(c, ResultOf(c))
      BY <1>p, <1>t, <1>k, <1>o, <1>r, <2>1, <2>2, <2>3 DEF GuardWrite, LocalTypeOK, Over
    <2> QED
      BY <1>k, <1>o, <1>r, <2>9, GuardStep
  <1>5. CASE NotAccepted(c)
    <2>1. /\ guard[k].status \in {"claimed", "started"} /\ guard[k].by = c
          /\ guard' = [guard EXCEPT ![KeyOf(c)] = OpenGuard]
          /\ flight[c] = "refused" /\ UNCHANGED answer
          /\ pc' = [pc EXCEPT ![c] = "reserved"] \/ pc' = [pc EXCEPT ![c] = "releasing"]
          /\ flight' = [flight EXCEPT ![c] = "none"] \/ flight' = flight
      BY <1>5 DEF NotAccepted, IsRefused, Goto, Holds, k
    <2>2. \A d \in Call : KeyOf(d) = KeyOf(c) => ~MayBePaid(d) /\ answer[d] = None
      BY <1>m, <1>a, <2>1 DEF k, MayBePaid
    <2>3. \A d \in Call : MayBePaid(d)' => MayBePaid(d)
      BY <1>t, <2>1 DEF MayBePaid, LocalTypeOK
    <2>4. \A d \in Call \ {c} : pc'[d] = pc[d] /\ flight'[d] = flight[d]
      BY <1>t, <2>1 DEF LocalTypeOK
    <2>9. GuardWrite(c, OpenGuard)
      BY <1>p, <1>t, <1>k, <1>o, <1>r, <2>1, <2>2, <2>3, <2>4 DEF GuardWrite, LocalTypeOK, Over
    <2> QED
      BY <1>k, <1>o, <1>r, <2>9, GuardStep
  <1>6. CASE ProviderUnsure(c)
    <2>1. pc' = [pc EXCEPT ![c] = "booking"] /\ UNCHANGED <<at, flight, answer>>
      BY <1>6 DEF ProviderUnsure, Goto
    <2>2. \A d \in Call : MayBePaid(d)' = MayBePaid(d)
      BY <2>1 DEF MayBePaid
    <2>3. PICK row \in Leavings(c) : guard' = [guard EXCEPT ![KeyOf(c)] = row]
      BY <1>6 DEF ProviderUnsure
    <2>4. CASE row = guard[k]
      <3>1. UNCHANGED guard
        BY <1>t, <1>k, <2>3, <2>4 DEF k
      <3> QED
        BY <1>s, <2>1, <2>2, <3>1
    <2>5. CASE row # guard[k]
      <3>1. guard[k].status \in {"claimed", "started"} /\ guard[k].by = c
        BY <2>3, <2>5 DEF Leavings, Holds, k
      <3>2. \/ row = UnknownGuard
            \/ row = [guard[k] EXCEPT !.status = "started"]
            \/ row = ResultOf(c) /\ flight[c] = "accepted"
            \/ row = OpenGuard /\ flight[c] = "refused"
        BY <2>3, <2>5 DEF Leavings, k
      <3>3. \A d \in Call : KeyOf(d) = KeyOf(c) =>
                (MayBePaid(d) => d = c) /\ answer[d] = None
        BY <1>m, <1>a, <3>1 DEF k
      <3>4. pc'[c] = "booking" /\ \A d \in Call \ {c} : pc'[d] = pc[d]
        BY <1>t, <2>1 DEF LocalTypeOK
      <3>5. CASE row = UnknownGuard
        <4>9. GuardWrite(c, row)
          BY <1>p, <1>k, <1>o, <1>r, <2>1, <2>2, <2>3, <3>3, <3>4, <3>5 DEF GuardWrite, Over
        <4> QED
          BY <1>k, <1>o, <1>r, <3>5, <4>9, GuardStep
      <3>6. CASE row = [guard[k] EXCEPT !.status = "started"]
        <4>1. row \in Guard /\ row.status = "started" /\ row.by = c
          BY <1>k, <3>1, <3>6, StartedRow
        <4>9. GuardWrite(c, row)
          BY <1>p, <1>k, <1>o, <2>1, <2>2, <2>3, <3>3, <3>4, <4>1 DEF GuardWrite, Over
        <4> QED
          BY <1>k, <1>o, <4>1, <4>9, GuardStep
      <3>7. CASE row = ResultOf(c) /\ flight[c] = "accepted"
        <4>9. GuardWrite(c, row)
          BY <1>p, <1>k, <1>o, <1>r, <2>1, <2>2, <2>3, <3>3, <3>4, <3>7 DEF GuardWrite, Over
        <4> QED
          BY <1>k, <1>o, <1>r, <3>7, <4>9, GuardStep
      <3>8. CASE row = OpenGuard /\ flight[c] = "refused"
        <4>1. \A d \in Call : KeyOf(d) = KeyOf(c) => ~MayBePaid(d)
          BY <3>3, <3>8 DEF MayBePaid
        <4>9. GuardWrite(c, row)
          BY <1>p, <1>k, <1>o, <1>r, <2>1, <2>2, <2>3, <3>3, <3>4, <3>8, <4>1 DEF GuardWrite, Over
        <4> QED
          BY <1>k, <1>o, <1>r, <3>8, <4>9, GuardStep
      <3> QED
        BY <3>2, <3>5, <3>6, <3>7, <3>8
    <2> QED
      BY <2>4, <2>5
  <1> QED
    BY <1>1, <1>2, <1>3, <1>4, <1>5, <1>6

\* The clocks change no status and no owner.
LEMMA Lapses ==
    ASSUME CallInv, LocalTypeOK', PlaceInv', NEW k \in Key,
           LeaseLapses(k) \/ ReservationLapses(k)
    PROVE  CallInv'
  <1>1. UNCHANGED <<pc, at, flight, answer>>
    BY DEF LeaseLapses, ReservationLapses, calls
  <1>2. guard' = guard \/ guard' = [guard EXCEPT ![k] = [guard[k] EXCEPT !.lapsed = TRUE]]
    BY DEF LeaseLapses, ReservationLapses, calls, CallInv
  <1>3. guard[k] \in Guard /\ guard \in [Key -> Guard]
    BY DEF CallInv
  <1>4. /\ [guard[k] EXCEPT !.lapsed = TRUE] \in Guard
        /\ [guard[k] EXCEPT !.lapsed = TRUE].status = guard[k].status
        /\ [guard[k] EXCEPT !.lapsed = TRUE].by = guard[k].by
    BY <1>3 DEF Guard
  <1>5. /\ guard' \in [Key -> Guard]
        /\ \A j \in Key : guard'[j].status = guard[j].status /\ guard'[j].by = guard[j].by
    BY <1>2, <1>3, <1>4
  <1>6. \A c \in Call : KeyOf(c)' = KeyOf(c) /\ MayBePaid(c)' = MayBePaid(c)
    BY <1>1 DEF KeyOf, MayBePaid
  <1>7. \A c \in Call : MayBePaid(c) \/ answer[c] # None => KeyOf(c) \in Key
    BY KeyOfCall DEF CallInv, PlaceInv, MayBePaid
  <1>8. PaidInv'
    BY <1>5, <1>6, <1>7 DEF CallInv, PaidInv
  <1>9. GuardInv'
    BY <1>1, <1>5, <1>6 DEF CallInv, GuardInv, KeyOf
  <1>10. AnswerInv'
    BY <1>1, <1>5, <1>6, <1>7 DEF CallInv, AnswerInv
  <1>11. CandidatePaidOnce'
    BY <1>6 DEF CallInv, CandidatePaidOnce
  <1> QED
    BY <1>5, <1>8, <1>9, <1>10, <1>11 DEF CallInv

LEMMA CallStep ==
    ASSUME CallInv, Next
    PROVE  CallInv'
  <1>1. LocalTypeOK' /\ PlaceInv'
    BY LocalTypes, Places
  <1>2. ASSUME NEW c \in Call,
               \/ Invoke(c) \/ ReserveBudget(c) \/ BudgetExceeded(c) \/ NoRoute(c)
               \/ CommitCost(c) \/ CommitConflict(c) \/ ReleaseBudget(c) \/ ReleaseConflict(c)
               \/ Crash(c) \/ ReplayResult(c) \/ ProviderDecides(c)
        PROVE  CallInv'
    BY <1>1, <1>2, QuietActions
  <1>3. ASSUME NEW c \in Call,
               \/ Claim(c) \/ GuardUnsure(c) \/ CallProvider(c) \/ ProviderAnswers(c)
               \/ NotAccepted(c) \/ ProviderUnsure(c)
        PROVE  CallInv'
    BY <1>1, <1>3, GuardActions
  <1>4. ASSUME NEW k \in Key, LeaseLapses(k) \/ ReservationLapses(k)
        PROVE  CallInv'
    BY <1>1, <1>4, Lapses
  <1> QED
    BY <1>2, <1>3, <1>4 DEF Next, Proceed

-----------------------------------------------------------------------------
\* Who has been answered stays where it is, and who is being answered commits.
LEMMA AnsweredStep ==
    ASSUME CallInv, Next, NEW d \in Call, outcome'[d] = "answered"
    PROVE  /\ at'[d] = at[d] /\ answer'[d] = answer[d]
           /\ outcome[d] = "answered" \/ (CommitCost(d) /\ answer[d] # None)
  <1> DEFINE Here == /\ at'[d] = at[d] /\ answer'[d] = answer[d]
                     /\ outcome[d] = "answered" \/ (CommitCost(d) /\ answer[d] # None)
  <1>p. outcome[d] = "answered" => pc[d] = "ended"
    BY OutcomeAssumption DEF CallInv, PlaceInv, Outcome
  <1>t. LocalTypeOK
    BY DEF CallInv
  <1> USE DEF LocalTypeOK, Goto, End, Forget
  <1>1. ASSUME NEW c \in Call, Invoke(c) \/ ReserveBudget(c) \/ Crash(c) \/ ProviderDecides(c)
        PROVE  Here
    BY <1>1, <1>p, <1>t DEF Invoke, ReserveBudget, Crash, ProviderDecides
  <1>2. ASSUME NEW c \in Call,
               BudgetExceeded(c) \/ NoRoute(c) \/ CommitConflict(c) \/ ReleaseConflict(c)
        PROVE  Here
    BY <1>2, <1>p, <1>t DEF BudgetExceeded, NoRoute, CommitConflict, ReleaseConflict
  <1>3. ASSUME NEW c \in Call,
               \/ Claim(c) \/ GuardUnsure(c) \/ CallProvider(c) \/ ProviderUnsure(c)
               \/ ReplayResult(c) \/ ProviderAnswers(c) \/ NotAccepted(c) \/ ReleaseBudget(c)
        PROVE  Here
    BY <1>3, <1>p, <1>t DEF Claim, GuardUnsure, CallProvider, ProviderUnsure, ReplayResult,
                            ProviderAnswers, NotAccepted, ReleaseBudget
  <1>4. ASSUME NEW c \in Call, CommitCost(c)
        PROVE  Here
    <2>1. /\ UNCHANGED <<at, answer>>
          /\ outcome' = [outcome EXCEPT ![c] = IF answer[c] = None
                                               THEN "ambiguous" ELSE "answered"]
      BY <1>4 DEF CommitCost
    <2>2. CASE d = c
      BY <1>4, <1>t, <2>1, <2>2
    <2>3. CASE d # c
      BY <1>t, <2>1, <2>3
    <2> QED
      BY <2>2, <2>3
  <1>5. ASSUME NEW k \in Key, LeaseLapses(k) \/ ReservationLapses(k)
        PROVE  Here
    BY <1>5 DEF LeaseLapses, ReservationLapses, calls
  <1> QED
    BY <1>1, <1>2, <1>3, <1>4, <1>5 DEF Next, Proceed

LEMMA BookedStep ==
    ASSUME Inv, Next
    PROVE  BookedInv'
  <1> SUFFICES ASSUME NEW d \in Call, outcome'[d] = "answered"
               PROVE  answer'[d] # None /\ actual'[OperationOf[d]] = Cost(d)'
    BY DEF BookedInv
  <1>1. /\ at'[d] = at[d] /\ answer'[d] = answer[d]
        /\ outcome[d] = "answered" \/ (CommitCost(d) /\ answer[d] # None)
    BY AnsweredStep DEF Inv
  <1>2. Cost(d)' = Cost(d)
    BY <1>1 DEF Cost
  <1>3. answer[d] # None /\ OperationOf[d] \in Operation
    BY <1>1, ModelAssumption DEF Inv, BookedInv
  <1>4. at[d] \in Candidate
    BY <1>3 DEF Inv, CallInv, PlaceInv
  <1>5. Cost(d) \in Fact /\ Cost(d).candidate = KeyOf(d)[2] /\ Cost(d) # None
    BY <1>4, CostIsFact, RowAssumption DEF Inv
  <1>6. CASE outcome[d] = "answered"
    <2>1. actual[OperationOf[d]] = Cost(d)
      BY <1>6 DEF Inv, BookedInv
    <2>2. CostNext \/ UNCHANGED costs
      BY CostSimulation DEF Inv
    <2>3. actual'[OperationOf[d]] = actual[OperationOf[d]]
      BY <1>3, <1>5, <2>1, <2>2, CostStep DEF Inv, Final, costs
    <2> QED
      BY <1>1, <1>2, <1>3, <2>1, <2>3
  <1>7. CASE CommitCost(d)
    <2>1. KeyOf(d) \in Key /\ KeyOf(d)[1] = OperationOf[d] /\ Commit(KeyOf(d), Cost(d))
      BY <1>4, <1>7, KeyOfCall DEF CommitCost
    <2>2. actual'[KeyOf(d)[1]] = Cost(d)
      BY <1>5, <2>1, CommitStep DEF Inv
    <2> QED
      BY <1>1, <1>2, <1>3, <2>1, <2>2
  <1> QED
    BY <1>1, <1>6, <1>7

LEMMA Start ==
    ASSUME Init
    PROVE  Inv
  <1>1. CostInv
    BY CostStart DEF Init
  <1>2. CallInv
    BY ModelAssumption
       DEF Init, CallInv, LocalTypeOK, PlaceInv, PaidInv, GuardInv, AnswerInv,
           CandidatePaidOnce, MayBePaid, OpenGuard, Guard, PC, Placed
  <1>3. BookedInv
    BY OutcomeAssumption DEF Init, BookedInv, Outcome
  <1> QED
    BY <1>1, <1>2, <1>3 DEF Inv

LEMMA Stutter ==
    ASSUME Inv, UNCHANGED vars
    PROVE  Inv'
  <1>1. CostInv'
    BY CostStutter DEF Inv, vars
  <1>2. CallInv' /\ BookedInv'
    BY DEF Inv, vars, calls, costs, CallInv, LocalTypeOK, PlaceInv, PaidInv, GuardInv, AnswerInv,
           CandidatePaidOnce, MayBePaid, BookedInv, KeyOf, Cost
  <1> QED
    BY <1>1, <1>2 DEF Inv

-----------------------------------------------------------------------------
\* Every reachable state of the calls, the guard and the ledger satisfies the invariant.
THEOREM Invariant == Spec => []Inv
  <1>1. ASSUME Inv, Next PROVE Inv'
    <2>1. CostNext \/ UNCHANGED costs
      BY <1>1, CostSimulation DEF Inv
    <2>2. CostInv'
      BY <1>1, <2>1, CostStep, CostStutter DEF Inv
    <2> QED
      BY <1>1, <2>2, CallStep, BookedStep DEF Inv
  <1>2. Inv /\ [Next]_vars => Inv'
    BY <1>1, Stutter
  <1> QED
    BY Start, <1>2, PTL DEF Spec

\* Type correctness of the calls, the guard and the ledger.
THEOREM TypeCorrect == Spec => []TypeOK
  <1>1. Inv => TypeOK
    BY DEF Inv, CostInv, CallInv, LocalTypeOK, TypeOK
  <1> QED
    BY <1>1, Invariant, PTL

\* For any number of calls, operations and providers: no two calls have a request that the
\* same candidate has accepted or may accept for the same operation.
THEOREM CandidatesArePaidOnce == Spec => []CandidatePaidOnce
  <1>1. Inv => CandidatePaidOnce
    BY DEF Inv, CallInv
  <1> QED
    BY <1>1, Invariant, PTL

\* A call that returns a result returns one that was paid for, and the ledger holds its cost.
THEOREM AnswersAreBooked == Spec => []AnswerIsBooked
  <1>1. ASSUME Inv, NEW c \in Call, outcome[c] = "answered"
        PROVE  /\ flight[answer[c]] = "accepted" /\ KeyOf(answer[c]) = KeyOf(c)
               /\ actual[OperationOf[c]] = Cost(c)
    <2>1. answer[c] # None /\ actual[OperationOf[c]] = Cost(c)
      BY <1>1 DEF Inv, BookedInv
    <2>2. at[c] \in Candidate
      BY <1>1, <2>1 DEF Inv, CallInv, PlaceInv
    <2>3. KeyOf(c) \in Key
      BY <2>2, KeyOfCall
    <2>4. guard[KeyOf(c)].status = "result" /\ guard[KeyOf(c)].by = answer[c]
      BY <1>1, <2>1 DEF Inv, CallInv, AnswerInv
    <2> QED
      BY <1>1, <2>1, <2>3, <2>4 DEF Inv, CallInv, GuardInv
  <1>2. Inv => AnswerIsBooked
    BY <1>1 DEF AnswerIsBooked
  <1> QED
    BY <1>2, Invariant, PTL

\* Whatever the calls do, they use the ledger as CostGateway allows: what is proved of it
\* holds under them.
THEOREM UsesCostGateway == Spec => ImplementsCostGateway
  <1>1. Init => CostInit
    BY DEF Init
  <1>2. Inv /\ [Next]_vars => [CostNext]_costs
    BY CostSimulation DEF Inv, vars
  <1> QED
    BY <1>1, <1>2, Invariant, PTL DEF Spec, ImplementsCostGateway, CostSpec

-----------------------------------------------------------------------------
(* The cost of calls that do not overlap. *)

\* Who has not sent a request, or was refused, is not paid for.
UnpaidInv ==
    \A c \in Call :
        pc[c] \in {"idle", "routing", "reserved", "claimed", "releasing"} => ~MayBePaid(c)

\* An operation with two calls under way is one of overlapped.
OverlapInv ==
    \A c, d \in Call :
        c # d /\ SameOperation(c, d) /\ UnderWay(c) /\ UnderWay(d) => ~Sequential(c)

\* The reservation that a call was given is there until it gives it back itself.
StillReserved ==
    \A c \in Call :
        Sequential(c) /\ pc[c] \in Placed
            => reservation[KeyOf(c)].status \notin {"none", "released"}

SequentialInv == UnpaidInv /\ OverlapInv /\ StillReserved /\ SequentialCostIsBooked

\* A step is one of d's own, or it leaves d where it is.
LEMMA OneCallMoves ==
    ASSUME CallInv, Next, NEW d \in Call
    PROVE  \/ Invoke(d) \/ Proceed(d) \/ Crash(d)
           \/ /\ pc'[d] = pc[d] /\ at'[d] = at[d] /\ (MayBePaid(d)' => MayBePaid(d))
              /\ left'[d] = left[d] /\ attempt'[d] = attempt[d]
  <1> DEFINE Stays == /\ pc'[d] = pc[d] /\ at'[d] = at[d] /\ (MayBePaid(d)' => MayBePaid(d))
                     /\ left'[d] = left[d] /\ attempt'[d] = attempt[d]
  <1>t. LocalTypeOK
    BY DEF CallInv
  <1> USE DEF LocalTypeOK, MayBePaid
  <1>1. ASSUME NEW c \in Call, c # d, Invoke(c) \/ ReserveBudget(c) \/ Crash(c) PROVE Stays
    BY <1>1, <1>t DEF Invoke, ReserveBudget, Crash, Goto, Forget
  <1>2. ASSUME NEW c \in Call, c # d,
               \/ BudgetExceeded(c) \/ NoRoute(c) \/ CommitCost(c) \/ CommitConflict(c)
               \/ ReleaseBudget(c) \/ ReleaseConflict(c)
        PROVE  Stays
    BY <1>2, <1>t DEF BudgetExceeded, NoRoute, CommitCost, CommitConflict, ReleaseBudget,
                      ReleaseConflict, End, Goto, Forget
  <1>3. ASSUME NEW c \in Call, c # d,
               \/ Claim(c) \/ ReplayResult(c) \/ GuardUnsure(c) \/ CallProvider(c)
               \/ ProviderAnswers(c) \/ ProviderUnsure(c)
        PROVE  Stays
    BY <1>3, <1>t DEF Claim, ReplayResult, GuardUnsure, CallProvider, ProviderAnswers,
                      ProviderUnsure, Goto
  <1>6. ASSUME NEW c \in Call, c # d, NotAccepted(c) PROVE Stays
    BY <1>6, <1>t DEF NotAccepted, Goto
  <1>4. ASSUME NEW c \in Call, ProviderDecides(c) PROVE Stays
    BY <1>4, <1>t DEF ProviderDecides
  <1>5. ASSUME NEW k \in Key, LeaseLapses(k) \/ ReservationLapses(k) PROVE Stays
    BY <1>5 DEF LeaseLapses, ReservationLapses, calls
  <1> HIDE DEF Stays
  <1>7. ASSUME NEW c \in Call, c # d, Invoke(c) \/ Proceed(c) \/ Crash(c) PROVE Stays
    BY <1>1, <1>2, <1>3, <1>6, <1>7, Zenon DEF Proceed
  <1>8. \/ \E c \in Call : c # d /\ (Invoke(c) \/ Proceed(c) \/ Crash(c))
        \/ Invoke(d) \/ Proceed(d) \/ Crash(d) \/ Stays
    BY <1>4, <1>5, Zenon DEF Next
  <1>9. Invoke(d) \/ Proceed(d) \/ Crash(d) \/ Stays
    BY <1>7, <1>8, Zenon
  <1> QED
    BY <1>9 DEF Stays

\* A request is out from CallProvider to its answer; nobody sends one for another call.
LEMMA UnpaidStep ==
    ASSUME CallInv, UnpaidInv, Next
    PROVE  UnpaidInv'
  <1> SUFFICES ASSUME NEW d \in Call,
                      pc'[d] \in {"idle", "routing", "reserved", "claimed", "releasing"}
               PROVE  ~MayBePaid(d)'
    BY DEF UnpaidInv
  <1>t. LocalTypeOK /\ (pc[d] \in {"idle", "routing", "reserved", "claimed", "releasing"}
                            => ~MayBePaid(d))
    BY DEF CallInv, UnpaidInv
  <1> USE DEF LocalTypeOK, MayBePaid
  <1>1. CASE Invoke(d) \/ ReserveBudget(d) \/ Crash(d)
    BY <1>1, <1>t DEF Invoke, ReserveBudget, Crash, Goto
  <1>2. CASE \/ BudgetExceeded(d) \/ NoRoute(d) \/ CommitCost(d) \/ CommitConflict(d)
             \/ ReleaseBudget(d) \/ ReleaseConflict(d)
    BY <1>2, <1>t DEF BudgetExceeded, NoRoute, CommitCost, CommitConflict, ReleaseBudget,
                      ReleaseConflict, End, Goto
  <1>3. CASE \/ Claim(d) \/ ReplayResult(d) \/ GuardUnsure(d) \/ CallProvider(d)
             \/ ProviderAnswers(d) \/ ProviderUnsure(d)
    BY <1>3, <1>t DEF Claim, ReplayResult, GuardUnsure, CallProvider, ProviderAnswers,
                      ProviderUnsure, Goto
  <1>4. CASE NotAccepted(d)
    BY <1>4, <1>t DEF NotAccepted, IsRefused, Goto
  <1>5. CASE pc'[d] = pc[d] /\ at'[d] = at[d] /\ (MayBePaid(d)' => MayBePaid(d))
    BY <1>5, <1>t
  <1> QED
    BY <1>1, <1>2, <1>3, <1>4, <1>5, OneCallMoves DEF Proceed

\* The code of a call runs while it is under way.
LEMMA ProceedsUnderWay ==
    ASSUME NEW c \in Call, Proceed(c) \/ Crash(c)
    PROVE  UnderWay(c) /\ overlapped' = overlapped
  <1>1. CASE ReserveBudget(c) \/ BudgetExceeded(c) \/ NoRoute(c) \/ Crash(c)
    BY <1>1 DEF ReserveBudget, BudgetExceeded, NoRoute, Crash, UnderWay
  <1>2. CASE \/ Claim(c) \/ ReplayResult(c) \/ GuardUnsure(c) \/ CallProvider(c)
             \/ ProviderAnswers(c) \/ NotAccepted(c) \/ ProviderUnsure(c)
    BY <1>2 DEF Claim, ReplayResult, GuardUnsure, CallProvider, ProviderAnswers,
                NotAccepted, ProviderUnsure, UnderWay
  <1>3. CASE CommitCost(c) \/ CommitConflict(c) \/ ReleaseBudget(c) \/ ReleaseConflict(c)
    BY <1>3 DEF CommitCost, CommitConflict, ReleaseBudget, ReleaseConflict, UnderWay
  <1> QED
    BY <1>1, <1>2, <1>3 DEF Proceed

\* Only invoke begins a call, and it notes what it overlaps with.
LEMMA OverlapStep ==
    ASSUME CallInv, OverlapInv, Next
    PROVE  OverlapInv' /\ overlapped \subseteq overlapped'
  <1>t. LocalTypeOK
    BY DEF CallInv
  <1>1. ASSUME NEW c \in Call, Invoke(c) PROVE OverlapInv' /\ overlapped \subseteq overlapped'
    <2>1. /\ overlapped' = overlapped \cup
                (IF \E d \in Call : SameOperation(c, d) /\ UnderWay(d)
                 THEN {OperationOf[c]} ELSE {})
          /\ \A d \in Call \ {c} : pc'[d] = pc[d]
      BY <1>1, <1>t DEF Invoke, Goto, LocalTypeOK
    <2> QED
      BY <2>1 DEF OverlapInv, UnderWay, SameOperation, Sequential
  <1>2. CASE \A c \in Call : ~Invoke(c)
    <2>1. overlapped' = overlapped
      <3>1. CASE \E k \in Key : LeaseLapses(k) \/ ReservationLapses(k)
        BY <3>1 DEF LeaseLapses, ReservationLapses, calls
      <3>2. CASE \E c \in Call : ProviderDecides(c)
        BY <3>2 DEF ProviderDecides
      <3> QED
        BY <1>2, <3>1, <3>2, ProceedsUnderWay DEF Next
    <2>2. ASSUME NEW d \in Call PROVE UnderWay(d)' => UnderWay(d)
      BY <1>2, OneCallMoves, ProceedsUnderWay DEF UnderWay
    <2> QED
      BY <2>1, <2>2 DEF OverlapInv, SameOperation, Sequential
  <1> QED
    BY <1>1, <1>2

\* Neither time, nor a reserve or a commit of anyone takes a reservation away.
LEMMA ReservationStays ==
    ASSUME CostInv, NEW j \in Key, reservation[j].status \notin {"none", "released"},
           NEW k \in Key,
           Reserve(k) \/ Lapse(k) \/ (\E fact : Commit(k, fact)) \/ (Release(k) /\ k # j)
    PROVE  reservation'[j].status \notin {"none", "released"}
  <1>t. reservation \in [Key -> Reservation] /\ reservation[j] \in Reservation
    BY DEF CostInv, CostTypeOK
  <1>s. ASSUME NEW gone PROVE Swept(gone)[j].status \notin {"none", "released"}
    <2>1. [reservation[j] EXCEPT !.status = "expired", !.lapsed = FALSE].status = "expired"
      BY <1>t, SettledType
    <2> QED
      BY <2>1 DEF Swept
  <1>1. CASE Reserve(k)
    <2>1. PICK gone : \/ reservation' = Swept(gone)
                      \/ reservation' = [Swept(gone) EXCEPT ![k] = Reserved]
      BY <1>1 DEF Reserve, Grant, Rejoin
    <2>2. Reserved.status = "active"
      BY DEF Reserved
    <2>3. DOMAIN Swept(gone) = Key
      BY DEF Swept
    <2> QED
      BY <1>s, <2>1, <2>2, <2>3
  <1>2. CASE Lapse(k)
    <2>1. reservation' = [reservation EXCEPT ![k] = [reservation[k] EXCEPT !.lapsed = TRUE]]
      BY <1>t, <1>2 DEF Lapse
    <2>2. [reservation[j] EXCEPT !.lapsed = TRUE].status = reservation[j].status
      BY <1>t, SettledType
    <2> QED
      BY <1>t, <2>1, <2>2
  <1>3. ASSUME NEW fact, Commit(k, fact) PROVE reservation'[j].status \notin {"none", "released"}
    <2>1. CASE Book(k, fact)
      <3>1. Settled(j).status = "committed"
        BY <1>t, SettledType DEF Settled
      <3>2. reservation' = [reservation EXCEPT ![k] = Settled(k)]
        BY <2>1 DEF Book
      <3> QED
        BY <1>t, <3>1, <3>2
    <2>2. CASE Rebook(k, fact)
      BY <2>2 DEF Rebook, costs
    <2> QED
      BY <1>3, <2>1, <2>2 DEF Commit
  <1>4. CASE Release(k) /\ k # j
    <2>1. reservation' = [reservation EXCEPT ![k] =
                             [reservation[k] EXCEPT !.status = "released", !.lapsed = FALSE]]
      BY <1>t, <1>4 DEF Release
    <2> QED
      BY <1>t, <1>4, <2>1
  <1> QED
    BY <1>1, <1>2, <1>3, <1>4

\* What reserve answers with is a reservation.
LEMMA ReserveGives ==
    ASSUME NEW k \in Key, Reserve(k)
    PROVE  reservation'[k].status \notin {"none", "released"}
  <1>1. CASE Grant(k)
    <2>1. PICK gone : reservation' = [Swept(gone) EXCEPT ![k] = Reserved]
      BY <1>1 DEF Grant
    <2>2. DOMAIN Swept(gone) = Key
      BY DEF Swept
    <2> QED
      BY <2>1, <2>2 DEF Reserved
  <1>2. CASE Rejoin(k)
    BY <1>2 DEF Rejoin, Renewable
  <1> QED
    BY <1>1, <1>2 DEF Reserve

\* What a step of the calls may do to the reservations.
LEMMA WhoReserves ==
    ASSUME CallInv, Next
    PROVE  \/ reservation' = reservation
           \/ \E c \in Call : ReleaseBudget(c)
           \/ \E k \in Key : Reserve(k) \/ Lapse(k) \/ \E fact : Commit(k, fact)
  <1>1. ASSUME NEW c \in Call, ReserveBudget(c)
        PROVE  \E k \in Key : Reserve(k)
    <2>1. PICK p \in left[c] : Reserve(<<OperationOf[c], p>>)
      BY <1>1 DEF ReserveBudget
    <2>2. <<OperationOf[c], p>> \in Key
      BY ModelAssumption DEF CallInv, LocalTypeOK, Key
    <2> QED
      BY <2>1, <2>2
  <1>2. ASSUME NEW c \in Call, CommitCost(c)
        PROVE  \E k \in Key : \E fact : Commit(k, fact)
    <2>1. KeyOf(c) \in Key
      BY <1>2, PlacedAt, KeyOfCall DEF CommitCost, Placed
    <2> QED
      BY <1>2, <2>1 DEF CommitCost
  <1>3. ASSUME NEW k \in Key, ReservationLapses(k)
        PROVE  Lapse(k)
    BY <1>3 DEF ReservationLapses
  <1>4. ASSUME NEW c \in Call,
               \/ Invoke(c) \/ BudgetExceeded(c) \/ NoRoute(c) \/ Claim(c)
               \/ ReplayResult(c) \/ GuardUnsure(c) \/ CallProvider(c)
               \/ ProviderAnswers(c) \/ NotAccepted(c) \/ ProviderUnsure(c)
               \/ CommitConflict(c) \/ ReleaseConflict(c) \/ Crash(c) \/ ProviderDecides(c)
        PROVE  reservation' = reservation
    BY <1>4 DEF Invoke, BudgetExceeded, NoRoute, Claim, ReplayResult, GuardUnsure,
                CallProvider, ProviderAnswers, NotAccepted, ProviderUnsure, CommitConflict,
                ReleaseConflict, Crash, ProviderDecides, costs
  <1>5. ASSUME NEW k \in Key, LeaseLapses(k)
        PROVE  reservation' = reservation
    BY <1>5 DEF LeaseLapses, costs
  <1> QED
    BY <1>1, <1>2, <1>3, <1>4, <1>5 DEF Next, Proceed

\* A call that overlaps with no other of its operation keeps its reservation.
LEMMA ReservedStep ==
    ASSUME Inv, SequentialInv, Next
    PROVE  StillReserved'
  <1> SUFFICES ASSUME NEW d \in Call, Sequential(d)', pc'[d] \in Placed
               PROVE  reservation'[KeyOf(d)'].status \notin {"none", "released"}
    BY DEF StillReserved
  <1>t. CallInv /\ CostInv /\ LocalTypeOK /\ OverlapInv
    BY DEF Inv, CallInv, SequentialInv
  <1>s. Sequential(d)
    BY <1>t, OverlapStep DEF Sequential
  <1>1. CASE ReserveBudget(d)
    <2>1. PICK p \in left[d] : Reserve(<<OperationOf[d], p>>) /\ at' = [at EXCEPT ![d] = p]
      BY <1>1 DEF ReserveBudget
    <2>2. p \in Candidate /\ at'[d] = p
      BY <1>t, <2>1 DEF LocalTypeOK
    <2>3. KeyOf(d)' \in Key /\ Reserve(KeyOf(d)')
      BY <2>1, <2>2, ModelAssumption DEF KeyOf, Key
    <2> QED
      BY <2>3, ReserveGives
  <1>2. CASE ~ReserveBudget(d)
    <2>1. pc[d] \in Placed /\ at'[d] = at[d]
      <3>1. CASE Invoke(d) \/ Crash(d)
        BY <1>t, <3>1 DEF Invoke, Crash, Goto, LocalTypeOK, Placed
      <3>2. CASE \/ BudgetExceeded(d) \/ NoRoute(d) \/ CommitCost(d) \/ CommitConflict(d)
                 \/ ReleaseBudget(d) \/ ReleaseConflict(d)
        BY <1>t, <3>2 DEF BudgetExceeded, NoRoute, CommitCost, CommitConflict, ReleaseBudget,
                          ReleaseConflict, End, Goto, LocalTypeOK, Placed
      <3>3. CASE \/ Claim(d) \/ ReplayResult(d) \/ GuardUnsure(d) \/ CallProvider(d)
                 \/ ProviderAnswers(d) \/ NotAccepted(d) \/ ProviderUnsure(d)
        BY <3>3 DEF Claim, ReplayResult, GuardUnsure, CallProvider, ProviderAnswers,
                    NotAccepted, ProviderUnsure, Placed
      <3>4. CASE pc'[d] = pc[d] /\ at'[d] = at[d]
        BY <3>4
      <3> QED
        BY <1>t, <1>2, <3>1, <3>2, <3>3, <3>4, OneCallMoves DEF Proceed
    <2>2. KeyOf(d)' = KeyOf(d) /\ KeyOf(d) \in Key
      BY <1>t, <2>1, PlacedAt, KeyOfCall DEF KeyOf
    <2>3. reservation[KeyOf(d)].status \notin {"none", "released"}
      BY <1>s, <2>1 DEF SequentialInv, StillReserved
    <2>4. CASE reservation' = reservation
      BY <2>2, <2>3, <2>4
    <2>5. ASSUME NEW c \in Call, ReleaseBudget(c)
          PROVE  reservation'[KeyOf(d)].status \notin {"none", "released"}
      <3>1. c # d
        <4>1. ReleaseBudget(d) => pc'[d] = "routing"
          BY <1>t DEF ReleaseBudget, Goto, LocalTypeOK
        <4> QED
          BY <2>5, <4>1 DEF Placed
      <3>2. UnderWay(c) /\ UnderWay(d)
        BY <2>1, <2>5, ProceedsUnderWay DEF Proceed, UnderWay, Placed
      <3>3. OperationOf[c] # OperationOf[d]
        BY <1>s, <1>t, <3>1, <3>2 DEF OverlapInv, SameOperation
      <3>4. KeyOf(c) \in Key /\ Release(KeyOf(c)) /\ KeyOf(c) # KeyOf(d)
        BY <1>t, <2>5, <3>3, PlacedAt, KeyOfCall DEF ReleaseBudget, Placed, KeyOf
      <3> QED
        BY <1>t, <2>2, <2>3, <3>4, ReservationStays
    <2>6. ASSUME NEW k \in Key, Reserve(k) \/ Lapse(k) \/ (\E fact : Commit(k, fact))
          PROVE  reservation'[KeyOf(d)].status \notin {"none", "released"}
      BY <1>t, <2>2, <2>3, <2>6, ReservationStays
    <2> QED
      BY <1>t, <2>2, <2>4, <2>5, <2>6, WhoReserves
  <1> QED
    BY <1>1, <1>2

\* When a call ends, its operation has a cost, or nothing is paid for it.
LEMMA CostBookedStep ==
    ASSUME Inv, SequentialInv, Next
    PROVE  SequentialCostIsBooked'
  <1> SUFFICES ASSUME NEW d \in Call, Sequential(d)', pc'[d] = "ended", MayBePaid(d)'
               PROVE  actual'[OperationOf[d]] # None
    BY DEF SequentialCostIsBooked
  <1>t. CallInv /\ CostInv /\ LocalTypeOK /\ OverlapInv /\ UnpaidInv
    BY DEF Inv, CallInv, SequentialInv
  <1>s. Sequential(d) /\ OperationOf[d] \in Operation
    BY <1>t, OverlapStep, ModelAssumption DEF Sequential
  <1>f. actual[OperationOf[d]] # None => actual'[OperationOf[d]] # None
    <2>1. CostNext \/ UNCHANGED costs
      BY <1>t, CostSimulation
    <2> QED
      BY <1>s, <1>t, <2>1, CostStep DEF Final, costs
  <1>1. CASE CommitCost(d)
    <2>1. at[d] \in Candidate
      BY <1>1, <1>t, PlacedAt DEF CommitCost, Placed
    <2>2. KeyOf(d) \in Key /\ KeyOf(d)[1] = OperationOf[d]
      BY <2>1, KeyOfCall
    <2>3. Cost(d) \in Fact /\ Cost(d).candidate = KeyOf(d)[2]
      BY <1>t, <2>1, CostIsFact
    <2>4. actual'[OperationOf[d]] = Cost(d)
      BY <1>1, <1>t, <2>2, <2>3, CommitStep DEF CommitCost
    <2> QED
      BY <2>3, <2>4, RowAssumption
  <1>2. CASE CommitConflict(d)
    <2>1. at[d] \in Candidate /\ pc[d] = "booking"
      BY <1>2, <1>t, PlacedAt DEF CommitConflict, Placed
    <2>2. KeyOf(d) \in Key /\ KeyOf(d)[1] = OperationOf[d]
      BY <2>1, KeyOfCall
    <2>3. reservation[KeyOf(d)] \in Reservation
      BY <1>t, <2>2 DEF CostInv, CostTypeOK
    <2>4. CASE reservation[KeyOf(d)].status = "committed"
      BY <1>f, <1>t, <2>2, <2>4 DEF CostInv, CommittedIsBooked
    <2>5. CASE reservation[KeyOf(d)].status # "committed"
      <3>1. reservation[KeyOf(d)].status \notin {"none", "released"}
        BY <1>s, <2>1 DEF SequentialInv, StillReserved, Placed
      <3>2. Open(KeyOf(d))
        BY <2>3, <2>5, <3>1 DEF Open, Reservation
      <3>3. actual[OperationOf[d]] # None
        BY <1>2, <2>2, <2>5, <3>2 DEF CommitConflict, CommitRefused, Bookable
      <3> QED
        BY <1>f, <3>3
    <2> QED
      BY <2>4, <2>5
  <1>3. CASE BudgetExceeded(d) \/ NoRoute(d) \/ ReleaseConflict(d)
    <2>1. ~MayBePaid(d) /\ flight' = flight
      BY <1>3, <1>t DEF BudgetExceeded, NoRoute, ReleaseConflict, UnpaidInv
    <2> QED
      BY <2>1 DEF MayBePaid
  <1>4. CASE \/ Invoke(d) \/ ReserveBudget(d) \/ Crash(d) \/ Claim(d) \/ ReplayResult(d)
             \/ GuardUnsure(d) \/ CallProvider(d) \/ ProviderAnswers(d) \/ NotAccepted(d)
             \/ ProviderUnsure(d) \/ ReleaseBudget(d)
    <2>1. pc'[d] # "ended"
      BY <1>4, <1>t DEF Invoke, ReserveBudget, Crash, Claim, ReplayResult, GuardUnsure,
         CallProvider, ProviderAnswers, NotAccepted, ProviderUnsure, ReleaseBudget, Goto,
         LocalTypeOK
    <2> QED
      BY <2>1
  <1>5. CASE pc'[d] = pc[d] /\ (MayBePaid(d)' => MayBePaid(d))
    BY <1>5, <1>f, <1>s DEF SequentialInv, SequentialCostIsBooked
  <1> QED
    BY <1>1, <1>2, <1>3, <1>4, <1>5, <1>t, OneCallMoves DEF Proceed

\* Nobody has asked yet.
LEMMA SequentialStart ==
    ASSUME Init
    PROVE  SequentialInv
  <1>1. \A c \in Call : pc[c] = "idle" /\ flight[c] = "none"
    BY DEF Init
  <1> QED
    BY <1>1 DEF SequentialInv, UnpaidInv, MayBePaid, OverlapInv, UnderWay, StillReserved,
                Placed, SequentialCostIsBooked

\* What SequentialInv reads are variables of the module.
LEMMA SequentialStutter ==
    ASSUME SequentialInv, UNCHANGED vars
    PROVE  SequentialInv'
  BY DEF vars, calls, costs, SequentialInv, UnpaidInv, MayBePaid, OverlapInv, UnderWay,
         StillReserved, Sequential, SequentialCostIsBooked, KeyOf

\* A paid provider call is never lost from the ledger as long as the calls of its operation
\* come one after the other, for any number of calls, candidates, fallbacks and crashes.
THEOREM SequentialCostsAreBooked == Spec => []SequentialCostIsBooked
  <1>1. ASSUME Inv, SequentialInv, Next PROVE SequentialInv'
    BY <1>1, UnpaidStep, OverlapStep, ReservedStep, CostBookedStep DEF Inv, SequentialInv
  <1>2. Inv /\ SequentialInv /\ [Next]_vars => SequentialInv'
    BY <1>1, SequentialStutter
  <1>3. SequentialInv => SequentialCostIsBooked
    BY DEF SequentialInv
  <1> QED
    BY SequentialStart, <1>2, <1>3, Invariant, PTL DEF Spec

-----------------------------------------------------------------------------
(* The refinement of PaidOnce, one key at a time. *)

\* What PaidOnce sees of the guard and the calls of key k.
AnswerOf(k) == IF guard[k].status \in {"claimed", "started"} THEN "open" ELSE guard[k].status

Told(k) == IF guard[k].status = "result" THEN guard[k].by ELSE None

Replies(k) == [c \in Call |-> IF KeyOf(c) = k THEN answer[c] ELSE None]

Pays(c, k) == MayBePaid(c) /\ KeyOf(c) = k

\* The steps that PaidOnce allows.
OnceStep(k) ==
    \/ UNCHANGED <<Payer(k), AnswerOf(k), Told(k), Replies(k)>>
    \/ /\ Payer(k) = None /\ AnswerOf(k) = "open" /\ Payer(k)' \in Call
       /\ UNCHANGED <<AnswerOf(k), Told(k), Replies(k)>>
    \/ /\ Payer(k) # None /\ Payer(k)' = None /\ AnswerOf(k) # "result"
       /\ UNCHANGED <<AnswerOf(k), Told(k), Replies(k)>>
    \/ /\ AnswerOf(k) = "open" /\ AnswerOf(k)' = "unknown" /\ Payer(k)' = Payer(k)
       /\ UNCHANGED <<Told(k), Replies(k)>>
    \/ /\ AnswerOf(k) = "open" /\ Payer(k) # None
       /\ AnswerOf(k)' = "result" /\ Told(k)' = Payer(k) /\ Payer(k)' = Payer(k)
       /\ \/ Replies(k)' = Replies(k)
          \/ \E c \in Call : Replies(k)' = [Replies(k) EXCEPT ![c] = Payer(k)]
    \/ /\ AnswerOf(k) = "result"
       /\ \E c \in Call : Replies(k)' = [Replies(k) EXCEPT ![c] = Told(k)]
       /\ UNCHANGED <<Payer(k), AnswerOf(k), Told(k)>>

\* They are steps of PaidOnce, or stutter.
LEMMA OnceAllows ==
    ASSUME NEW k \in Key, OnceStep(k)
    PROVE  [Paid(k)!Next]_(Paid(k)!vars)
  <1>1. CASE UNCHANGED <<Payer(k), AnswerOf(k), Told(k), Replies(k)>>
    BY <1>1 DEF AnswerOf, Told, Replies, Paid!vars
  <1>2. CASE /\ Payer(k) = None /\ AnswerOf(k) = "open" /\ Payer(k)' \in Call
             /\ UNCHANGED <<AnswerOf(k), Told(k), Replies(k)>>
    BY <1>2 DEF AnswerOf, Told, Replies, Paid!Next, Paid!Spend
  <1>3. CASE /\ Payer(k) # None /\ Payer(k)' = None /\ AnswerOf(k) # "result"
             /\ UNCHANGED <<AnswerOf(k), Told(k), Replies(k)>>
    BY <1>3 DEF AnswerOf, Told, Replies, Paid!Next, Paid!Waive
  <1>4. CASE /\ AnswerOf(k) = "open" /\ AnswerOf(k)' = "unknown" /\ Payer(k)' = Payer(k)
             /\ UNCHANGED <<Told(k), Replies(k)>>
    BY <1>4 DEF AnswerOf, Told, Replies, Paid!Next, Paid!GiveUp
  <1>5. CASE /\ AnswerOf(k) = "open" /\ Payer(k) # None
             /\ AnswerOf(k)' = "result" /\ Told(k)' = Payer(k) /\ Payer(k)' = Payer(k)
             /\ \/ Replies(k)' = Replies(k)
                \/ \E c \in Call : Replies(k)' = [Replies(k) EXCEPT ![c] = Payer(k)]
    BY <1>5 DEF AnswerOf, Told, Replies, Paid!Next, Paid!Settle
  <1>6. CASE /\ AnswerOf(k) = "result"
             /\ \E c \in Call : Replies(k)' = [Replies(k) EXCEPT ![c] = Told(k)]
             /\ UNCHANGED <<Payer(k), AnswerOf(k), Told(k)>>
    BY <1>6 DEF AnswerOf, Told, Replies, Paid!Next, Paid!Tell
  <1> QED
    BY <1>1, <1>2, <1>3, <1>4, <1>5, <1>6 DEF OnceStep

\* The payer of a key is the one call that pays for it, before and after a step.
LEMMA PayerIs ==
    ASSUME CandidatePaidOnce, NEW k
    PROVE  /\ \A c \in Call : Pays(c, k) => Payer(k) = c
           /\ (\A c \in Call : ~Pays(c, k)) => Payer(k) = None
           /\ Payer(k) # None => Payer(k) \in Call /\ Pays(Payer(k), k)
  <1>1. \A c, d \in Call : Pays(c, k) /\ Pays(d, k) => c = d
    BY DEF CandidatePaidOnce, Pays
  <1>2. Payer(k) = IF \E c \in Call : Pays(c, k) THEN CHOOSE c \in Call : Pays(c, k) ELSE None
    BY DEF Payer, Pays
  <1> HIDE DEF Pays
  <1> QED
    BY <1>1, <1>2

\* PayerIs, after the step.
LEMMA PayerWillBe ==
    ASSUME CandidatePaidOnce', NEW k
    PROVE  /\ \A c \in Call : Pays(c, k)' => Payer(k)' = c
           /\ (\A c \in Call : ~Pays(c, k)') => Payer(k)' = None
  <1>1. \A c, d \in Call : Pays(c, k)' /\ Pays(d, k)' => c = d
    BY DEF CandidatePaidOnce, Pays
  <1>2. Payer(k)' = IF \E c \in Call : Pays(c, k)'
                    THEN CHOOSE c \in Call : Pays(c, k)' ELSE None
    BY DEF Payer, Pays
  <1> HIDE DEF Pays
  <1> QED
    BY <1>1, <1>2

\* Who pays does not change when nobody's request does.
LEMMA SamePayer ==
    ASSUME CandidatePaidOnce, CandidatePaidOnce', NEW k,
           \A d \in Call : Pays(d, k)' = Pays(d, k)
    PROVE  Payer(k)' = Payer(k)
  <1>1. CASE \E d \in Call : Pays(d, k)
    <2>1. PICK d \in Call : Pays(d, k)
      BY <1>1
    <2> QED
      BY <2>1, PayerIs, PayerWillBe
  <1>2. CASE ~ \E d \in Call : Pays(d, k)
    BY <1>2, PayerIs, PayerWillBe
  <1> QED
    BY <1>1, <1>2

\* A step that writes neither the state of the guard nor a reply: who pays for the key may
\* cease to, but not when his is the result.
LEMMA QuietOnce ==
    ASSUME CallInv, CandidatePaidOnce', NEW k \in Key,
           guard'[k].status = guard[k].status, guard'[k].by = guard[k].by,
           Replies(k)' = Replies(k),
           \A c \in Call : Pays(c, k)' => Pays(c, k),
           \A c \in Call : Pays(c, k) /\ pc[c] \in Over /\ flight[c] = "accepted"
                               => Pays(c, k)'
    PROVE  OnceStep(k)
  <1>1. CandidatePaidOnce
    BY DEF CallInv
  <1>2. UNCHANGED <<AnswerOf(k), Told(k)>>
    BY DEF AnswerOf, Told
  <1>3. CASE \E c \in Call : Pays(c, k)'
    <2>1. PICK c \in Call : Pays(c, k)'
      BY <1>3
    <2>2. Payer(k) = c /\ Payer(k)' = c
      BY <1>1, <2>1, PayerIs, PayerWillBe
    <2> QED
      BY <1>2, <2>2 DEF OnceStep
  <1>4. CASE ~ \E c \in Call : Pays(c, k)'
    <2>1. Payer(k)' = None
      BY <1>4, PayerWillBe
    <2>2. AnswerOf(k) = "result" => Payer(k) = None
      <3> SUFFICES ASSUME AnswerOf(k) = "result", Payer(k) # None PROVE FALSE
        OBVIOUS
      <3>1. Payer(k) \in Call /\ Pays(Payer(k), k)
        BY <1>1, PayerIs
      <3>2. guard[k].status = "result" /\ guard[k].by = Payer(k)
        BY <3>1 DEF AnswerOf, CallInv, PaidInv, Pays
      <3>3. pc[Payer(k)] \in Over /\ flight[Payer(k)] = "accepted"
        BY <3>2 DEF CallInv, GuardInv
      <3> QED
        BY <1>4, <3>1, <3>3
    <2> QED
      BY <1>2, <2>1, <2>2 DEF OnceStep
  <1> QED
    BY <1>3, <1>4

\* What the ledger, the clocks and the provider do is quiet, for every key.
LEMMA LedgerOnce ==
    ASSUME CallInv, CallInv', NEW k \in Key,
           \/ \E j \in Key : LeaseLapses(j) \/ ReservationLapses(j)
           \/ \E c \in Call :
                 \/ Invoke(c) \/ ReserveBudget(c) \/ BudgetExceeded(c) \/ NoRoute(c)
                 \/ CommitCost(c) \/ CommitConflict(c) \/ ReleaseBudget(c)
                 \/ ReleaseConflict(c) \/ Crash(c) \/ ProviderDecides(c)
    PROVE  OnceStep(k)
  <1>t. LocalTypeOK /\ guard \in [Key -> Guard] /\ CandidatePaidOnce'
    BY DEF CallInv
  <1>a. \A d \in Call : pc[d] \notin Over => answer[d] = None
    BY DEF CallInv, AnswerInv
  <1> USE DEF LocalTypeOK, Pays, MayBePaid
  <1>1. CASE \E j \in Key : LeaseLapses(j) \/ ReservationLapses(j)
    <2>1. PICK j \in Key : LeaseLapses(j) \/ ReservationLapses(j)
      BY <1>1
    <2>2. UNCHANGED <<pc, at, flight, answer>>
      BY <2>1 DEF LeaseLapses, ReservationLapses, calls
    <2>3. guard' = guard \/ guard' = [guard EXCEPT ![j] = [guard[j] EXCEPT !.lapsed = TRUE]]
      BY <1>t, <2>1 DEF LeaseLapses, ReservationLapses, calls
    <2>4. /\ [guard[j] EXCEPT !.lapsed = TRUE].status = guard[j].status
          /\ [guard[j] EXCEPT !.lapsed = TRUE].by = guard[j].by
      BY <1>t DEF Guard
    <2>5. guard'[k].status = guard[k].status /\ guard'[k].by = guard[k].by
      BY <1>t, <2>3, <2>4
    <2> QED
      BY <1>t, <2>2, <2>5, QuietOnce DEF Replies, KeyOf
  <1>2. CASE \E c \in Call : ReserveBudget(c)
    <2>1. PICK c \in Call : ReserveBudget(c)
      BY <1>2
    <2>2. PICK p : /\ at' = [at EXCEPT ![c] = p] /\ flight' = [flight EXCEPT ![c] = "none"]
                   /\ pc[c] = "routing" /\ UNCHANGED <<answer, guard>>
      BY <2>1 DEF ReserveBudget
    <2>3. answer[c] = None
      BY <1>a, <2>2 DEF Over
    <2>4. \A d \in Call : d # c => KeyOf(d)' = KeyOf(d) /\ flight'[d] = flight[d]
      BY <1>t, <2>2 DEF KeyOf
    <2>5. flight'[c] = "none"
      BY <1>t, <2>2
    <2>6. Replies(k)' = Replies(k)
      BY <2>2, <2>3, <2>4 DEF Replies
    <2> QED
      BY <1>t, <2>2, <2>4, <2>5, <2>6, QuietOnce DEF Over
  <1>3. CASE \E c \in Call : ProviderDecides(c)
    <2>1. PICK c \in Call, what \in {"accepted", "refused"} :
              /\ flight[c] = "sent" /\ flight' = [flight EXCEPT ![c] = what]
              /\ UNCHANGED <<at, answer, guard, pc>>
      BY <1>3 DEF ProviderDecides
    <2>2. \A d \in Call : d # c => flight'[d] = flight[d]
      BY <1>t, <2>1
    <2> QED
      BY <1>t, <2>1, <2>2, QuietOnce DEF Replies, KeyOf
  <1>4. CASE \E c \in Call :
                 \/ Invoke(c) \/ BudgetExceeded(c) \/ NoRoute(c) \/ CommitCost(c)
                 \/ CommitConflict(c) \/ ReleaseBudget(c) \/ ReleaseConflict(c) \/ Crash(c)
    <2>1. UNCHANGED <<at, flight, answer, guard>>
      BY <1>4 DEF Invoke, BudgetExceeded, NoRoute, CommitCost, CommitConflict,
                  ReleaseBudget, ReleaseConflict, Crash
    <2> QED
      BY <1>t, <2>1, QuietOnce DEF Replies, KeyOf
  <1> QED
    BY <1>1, <1>2, <1>3, <1>4

\* A call's own step in the guard is one of PaidOnce for its key, and is not seen by others.
LEMMA GuardOnce ==
    ASSUME CallInv, CallInv', NEW k \in Key, NEW c \in Call,
           \/ Claim(c) \/ ReplayResult(c) \/ GuardUnsure(c) \/ CallProvider(c)
           \/ ProviderAnswers(c) \/ NotAccepted(c) \/ ProviderUnsure(c)
    PROVE  OnceStep(k)
  <1>t. LocalTypeOK /\ guard \in [Key -> Guard] /\ CandidatePaidOnce /\ CandidatePaidOnce'
    BY DEF CallInv
  <1>p. pc[c] \in {"reserved", "claimed", "calling"} /\ UNCHANGED at
    BY DEF Claim, ReplayResult, GuardUnsure, CallProvider, ProviderAnswers, NotAccepted,
           ProviderUnsure
  <1>k. KeyOf(c) \in Key /\ guard[KeyOf(c)] \in Guard
    BY <1>p, <1>t, PlacedAt, KeyOfCall DEF Placed
  <1>e. \A d \in Call : KeyOf(d)' = KeyOf(d)
    BY <1>p DEF KeyOf
  <1>m. \A d \in Call : Pays(d, KeyOf(c)) =>
            /\ guard[KeyOf(c)].status \in {"started", "unknown", "result"}
            /\ guard[KeyOf(c)].status # "unknown" => guard[KeyOf(c)].by = d
    BY DEF CallInv, PaidInv, Pays
  <1>g. guard[KeyOf(c)].status = "started" /\ guard[KeyOf(c)].by = c => pc[c] = "calling"
    BY <1>k, <1>p DEF CallInv, GuardInv, Over
  <1>r. /\ ClaimedBy(c).status = "claimed" /\ UnknownGuard.status = "unknown"
        /\ OpenGuard.status = "open" /\ ResultOf(c).status = "result" /\ ResultOf(c).by = c
    BY DEF ClaimedBy, ResultOf, UnknownGuard, OpenGuard
  <1>o. /\ \A d \in Call \ {c} : flight'[d] = flight[d] /\ answer'[d] = answer[d]
        /\ \A j \in Key : j # KeyOf(c) => guard'[j] = guard[j]
    <2>1. CASE Claim(c) \/ ReplayResult(c) \/ GuardUnsure(c) \/ CallProvider(c)
      BY <1>t, <2>1 DEF LocalTypeOK, Claim, ReplayResult, GuardUnsure, CallProvider
    <2>2. CASE ProviderAnswers(c) \/ NotAccepted(c) \/ ProviderUnsure(c)
      BY <1>t, <2>2 DEF LocalTypeOK, ProviderAnswers, NotAccepted, ProviderUnsure
    <2> QED
      BY <2>1, <2>2
  <1>1. CASE k # KeyOf(c)
    <2>1. Replies(k)' = Replies(k)
      BY <1>1, <1>e, <1>o DEF Replies
    <2>2. \A d \in Call : Pays(d, k)' = Pays(d, k)
      BY <1>1, <1>e, <1>o DEF Pays, MayBePaid
    <2> QED
      BY <1>1, <1>o, <1>t, <2>1, <2>2, QuietOnce
  <1>2. CASE k = KeyOf(c)
    <2>0. ASSUME NEW row, guard' = [guard EXCEPT ![KeyOf(c)] = row]
          PROVE  guard'[k] = row
      BY <1>2, <1>k, <1>t, <2>0
    <2>a. ASSUME answer' = answer PROVE Replies(k)' = Replies(k)
      BY <1>e, <2>a DEF Replies
    <2>b. ASSUME NEW d, answer' = [answer EXCEPT ![c] = d]
          PROVE  Replies(k)' = [Replies(k) EXCEPT ![c] = d]
      BY <1>2, <1>e, <1>t, <2>b DEF Replies, LocalTypeOK
    <2>p. ASSUME flight' = flight PROVE \A d \in Call : Pays(d, k)' = Pays(d, k)
      BY <1>e, <2>p DEF Pays, MayBePaid
    <2>1. CASE Claim(c)
      <3>1. guard[k].status \in {"open", "claimed"} /\ guard'[k] = ClaimedBy(c)
        BY <1>2, <2>0, <2>1 DEF Claim, Claimable
      <3>2. \A d \in Call : ~Pays(d, k)
        BY <1>2, <1>m, <3>1
      <3>3. flight' = flight /\ Replies(k)' = Replies(k)
        BY <2>1, <2>a DEF Claim
      <3>4. Payer(k) = None /\ Payer(k)' = None
        BY <1>t, <2>p, <3>2, <3>3, PayerIs, PayerWillBe
      <3> QED
        BY <1>r, <3>1, <3>3, <3>4 DEF OnceStep, AnswerOf, Told
    <2>2. CASE ReplayResult(c)
      <3>1. /\ guard[k].status = "result" /\ UNCHANGED <<flight, guard>>
            /\ answer' = [answer EXCEPT ![c] = guard[k].by]
        BY <1>2, <2>2 DEF ReplayResult
      <3>2. Payer(k)' = Payer(k)
        BY <1>t, <2>p, <3>1, SamePayer
      <3>3. Replies(k)' = [Replies(k) EXCEPT ![c] = Told(k)]
        BY <2>b, <3>1 DEF Told
      <3> QED
        BY <3>1, <3>2, <3>3 DEF OnceStep, AnswerOf, Told
    <2>3. CASE GuardUnsure(c)
      <3>1. /\ UNCHANGED <<flight, answer>>
            /\ guard' = guard \/ (guard[k].status = "started" /\ guard'[k] = UnknownGuard)
        BY <1>2, <2>0, <2>3 DEF GuardUnsure
      <3>2. Payer(k)' = Payer(k) /\ Replies(k)' = Replies(k)
        BY <1>t, <2>p, <2>a, <3>1, SamePayer
      <3> QED
        BY <1>r, <3>1, <3>2 DEF OnceStep, AnswerOf, Told
    <2>4. CASE CallProvider(c)
      <3>1. /\ guard[k].status = "claimed" /\ flight' = [flight EXCEPT ![c] = "sent"]
            /\ guard' = [guard EXCEPT ![KeyOf(c)] = [guard[KeyOf(c)] EXCEPT !.status = "started"]]
            /\ answer' = answer
        BY <1>2, <1>k, <1>g, <1>t, <2>4 DEF CallProvider, Holds
      <3>2. guard'[k].status = "started"
        BY <1>2, <1>k, <2>0, <3>1, StartedRow
      <3>3. \A d \in Call : ~Pays(d, k)
        BY <1>2, <1>m, <3>1
      <3>4. Pays(c, k)'
        BY <1>2, <1>e, <1>t, <3>1 DEF Pays, MayBePaid, LocalTypeOK
      <3>5. Payer(k) = None /\ Payer(k)' = c /\ Replies(k)' = Replies(k)
        BY <1>t, <2>a, <3>1, <3>3, <3>4, PayerIs, PayerWillBe
      <3> QED
        BY <3>1, <3>2, <3>5 DEF OnceStep, AnswerOf, Told
    <2>5. CASE ProviderAnswers(c)
      <3>1. /\ guard[k].status \in {"claimed", "started"} /\ guard'[k] = ResultOf(c)
            /\ flight[c] = "accepted" /\ flight' = flight
            /\ answer' = [answer EXCEPT ![c] = c]
        BY <1>2, <2>0, <2>5 DEF ProviderAnswers, Holds
      <3>2. Pays(c, k)
        BY <1>2, <3>1 DEF Pays, MayBePaid
      <3>3. Payer(k) = c /\ Payer(k)' = c
        BY <1>t, <2>p, <3>1, <3>2, PayerIs, PayerWillBe
      <3>4. Replies(k)' = [Replies(k) EXCEPT ![c] = Payer(k)]
        BY <2>b, <3>1, <3>3
      <3>5. Payer(k) # None
        BY <3>3, CostAssumption
      <3> QED
        BY <1>r, <3>1, <3>3, <3>4, <3>5 DEF OnceStep, AnswerOf, Told
    <2>6. CASE NotAccepted(c)
      <3>1. /\ guard[k].status \in {"claimed", "started"} /\ guard[k].by = c
            /\ guard'[k] = OpenGuard /\ flight[c] = "refused" /\ answer' = answer
            /\ flight' = [flight EXCEPT ![c] = "none"] \/ flight' = flight
        BY <1>2, <2>0, <2>6 DEF NotAccepted, Holds, IsRefused
      <3>2. \A d \in Call : ~Pays(d, k) /\ ~Pays(d, k)'
        BY <1>2, <1>e, <1>m, <1>o, <1>t, <3>1 DEF Pays, MayBePaid, LocalTypeOK
      <3>3. Payer(k) = None /\ Payer(k)' = None /\ Replies(k)' = Replies(k)
        BY <1>t, <2>a, <3>1, <3>2, PayerIs, PayerWillBe
      <3> QED
        BY <1>r, <3>1, <3>3 DEF OnceStep, AnswerOf, Told
    <2>7. CASE ProviderUnsure(c)
      <3>1. PICK row \in Leavings(c) : guard' = [guard EXCEPT ![KeyOf(c)] = row]
        BY <2>7 DEF ProviderUnsure
      <3>2. guard'[k] = row /\ UNCHANGED <<flight, answer>>
        BY <2>0, <2>7, <3>1 DEF ProviderUnsure
      <3>3. Payer(k)' = Payer(k) /\ Replies(k)' = Replies(k)
        BY <1>t, <2>p, <2>a, <3>2, SamePayer
      <3>4. CASE row = guard[k]
        BY <3>2, <3>3, <3>4 DEF OnceStep, AnswerOf, Told
      <3>5. CASE row # guard[k]
        <4>1. guard[k].status \in {"claimed", "started"} /\ guard[k].by = c
          BY <1>2, <3>1, <3>5 DEF Leavings, Holds
        <4>2. \/ row = UnknownGuard
              \/ row = [guard[k] EXCEPT !.status = "started"]
              \/ row = ResultOf(c) /\ flight[c] = "accepted"
              \/ row = OpenGuard
          BY <1>2, <3>1, <3>5 DEF Leavings
        <4>3. CASE row = UnknownGuard \/ row = OpenGuard
          BY <1>r, <3>2, <3>3, <4>1, <4>3 DEF OnceStep, AnswerOf, Told
        <4>4. CASE row = [guard[k] EXCEPT !.status = "started"]
          <5>1. row.status = "started"
            BY <1>2, <1>k, <4>4, StartedRow
          <5> QED
            BY <3>2, <3>3, <4>1, <5>1 DEF OnceStep, AnswerOf, Told
        <4>5. CASE row = ResultOf(c) /\ flight[c] = "accepted"
          <5>1. Payer(k) = c /\ Payer(k) # None
            BY <1>2, <1>t, <4>5, PayerIs, CostAssumption DEF Pays, MayBePaid
          <5> QED
            BY <1>r, <3>2, <3>3, <4>1, <4>5, <5>1 DEF OnceStep, AnswerOf, Told
        <4> QED
          BY <4>2, <4>3, <4>4, <4>5
      <3> QED
        BY <3>4, <3>5
    <2> QED
      BY <2>1, <2>2, <2>3, <2>4, <2>5, <2>6, <2>7
  <1> QED
    BY <1>1, <1>2

\* For every key, the calls and the guard keep what PaidOnce promises.
THEOREM CallsImplementPaidOnce == Spec => ImplementsPaidOnce
  <1>1. Init => \A k \in Key : Paid(k)!Init
    <2> SUFFICES ASSUME Init, NEW k \in Key PROVE Paid(k)!Init
      OBVIOUS
    <2>1. \A c \in Call : ~MayBePaid(c) /\ answer[c] = None
      BY DEF Init, MayBePaid
    <2>2. guard[k].status = "open"
      BY DEF Init, OpenGuard
    <2>3. Payer(k) = None
      BY <2>1 DEF Payer
    <2> QED
      BY <2>1, <2>2, <2>3 DEF Paid!Init
  <1>2. ASSUME CallInv, CallInv', Next
        PROVE  \A k \in Key : [Paid(k)!Next]_(Paid(k)!vars)
    <2> TAKE k \in Key
    <2>1. OnceStep(k)
      BY <1>2, LedgerOnce, GuardOnce DEF Next, Proceed
    <2> QED
      BY <2>1, OnceAllows
  <1>3. Inv => CallInv
    BY DEF Inv
  <1>4. CallInv /\ CallInv' /\ [Next]_vars
            => [\A k \in Key : [Paid(k)!Next]_(Paid(k)!vars)]_vars
    BY <1>2
  <1> QED
    BY <1>1, <1>3, <1>4, Invariant, PTL DEF Spec, ImplementsPaidOnce

\* Whatever the calls do, no limit is exceeded but by sunk cost: fallbacks, repeated and
\* overlapping calls of an operation reserve and commit as CostGateway does.
THEOREM CallsKeepTheLimits == Spec => []OnlySunkCostExceedsALimit
  BY UsesCostGateway, LimitsHold, PTL DEF ImplementsCostGateway

-----------------------------------------------------------------------------
(* How long a call can take: what of CallsEnd is not about fairness.       *)

\* The most steps of one candidate: three of each attempt, and what is around them.
Turn == 3 * MaxAttempts + 2

\* What the candidates that c has not tried may take.
Rest(c) == Turn * Cardinality(left[c])

\* What the attempts that c has left with its candidate may take.
More(c) == 3 * (MaxAttempts - attempt[c])

\* A bound on the steps that the code of c has yet to take.
Effort(c) ==
    CASE pc[c] = "idle"      -> Rest(c) + 2
      [] pc[c] = "routing"   -> Rest(c) + 1
      [] pc[c] = "reserved"  -> Rest(c) + More(c) + 5
      [] pc[c] = "claimed"   -> Rest(c) + More(c) + 4
      [] pc[c] = "calling"   -> Rest(c) + More(c) + 3
      [] pc[c] = "releasing" -> Rest(c) + 2
      [] pc[c] = "booking"   -> 1
      [] OTHER               -> 0

\* A step of the code of a call leaves it less to do, and no other gives it more to do.
EffortFalls ==
    \A c \in Call : /\ Effort(c)' <= Effort(c)
                    /\ Proceed(c) => Effort(c)' < Effort(c)

LEMMA RestType ==
    ASSUME NEW S \in SUBSET Candidate, NEW n \in 0 .. MaxAttempts
    PROVE  /\ IsFiniteSet(S) /\ Cardinality(S) \in Nat
           /\ Turn \in Nat /\ Turn * Cardinality(S) \in Nat
           /\ 3 * (MaxAttempts - n) \in Nat
  <1>1. IsFiniteSet(S)
    BY CostAssumption, FS_Subset
  <1>2. Cardinality(S) \in Nat
    BY <1>1, FS_CardinalityType
  <1>3. MaxAttempts \in Nat
    BY ModelAssumption
  <1>4. Turn \in Nat
    BY <1>3 DEF Turn
  <1>5. \A m, k \in Nat : m * k \in Nat
    OBVIOUS
  <1>6. Turn * Cardinality(S) \in Nat
    BY <1>2, <1>4, <1>5
  <1>7. 3 * (MaxAttempts - n) \in Nat
    BY <1>3
  <1> QED
    BY <1>1, <1>2, <1>4, <1>6, <1>7

\* The next candidate takes a turn out of the rest.
LEMMA RestOfNext ==
    ASSUME LocalTypeOK, NEW c \in Call, NEW p \in left[c], left'[c] = left[c] \ {p}
    PROVE  Rest(c)' = Rest(c) - Turn
  <1>1. left[c] \in SUBSET Candidate /\ attempt[c] \in 0 .. MaxAttempts
    BY DEF LocalTypeOK
  <1>2. IsFiniteSet(left[c]) /\ Cardinality(left[c]) \in Nat /\ Turn \in Nat
    BY <1>1, RestType
  <1>3. Cardinality(left'[c]) = Cardinality(left[c]) - 1
    BY <1>2, FS_RemoveElement
  <1>4. \A m, k \in Nat : m * (k - 1) = m * k - m
    OBVIOUS
  <1>5. Turn * Cardinality(left'[c]) = Turn * Cardinality(left[c]) - Turn
    BY <1>2, <1>3, <1>4
  <1> QED
    BY <1>5 DEF Rest

\* A call has no effort left only where it is over.
LEMMA EffortType ==
    ASSUME LocalTypeOK, NEW c \in Call
    PROVE  /\ Rest(c) \in Nat /\ More(c) \in Nat /\ Effort(c) \in Nat
           /\ pc[c] \notin {"ended", "crashed"} => Effort(c) > 0
  <1>1. pc[c] \in PC /\ left[c] \in SUBSET Candidate /\ attempt[c] \in 0 .. MaxAttempts
    BY DEF LocalTypeOK
  <1>2. Rest(c) \in Nat /\ More(c) \in Nat
    BY <1>1, RestType DEF Rest, More
  <1> QED
    BY <1>1, <1>2 DEF Effort, PC

LEMMA EffortTypeAfter ==
    ASSUME LocalTypeOK', NEW c \in Call
    PROVE  Rest(c)' \in Nat /\ More(c)' \in Nat /\ Effort(c)' \in Nat
  <1>1. pc'[c] \in PC /\ left'[c] \in SUBSET Candidate /\ attempt'[c] \in 0 .. MaxAttempts
    BY DEF LocalTypeOK
  <1>2. Rest(c)' \in Nat /\ More(c)' \in Nat
    BY <1>1, RestType DEF Rest, More
  <1> QED
    BY <1>1, <1>2 DEF Effort, PC

LEMMA ProceedShrinks ==
    ASSUME LocalTypeOK, LocalTypeOK', NEW c \in Call, Proceed(c)
    PROVE  Effort(c)' < Effort(c)
  <1>t. /\ pc \in [Call -> PC] /\ left \in [Call -> SUBSET Candidate]
        /\ attempt \in [Call -> 0 .. MaxAttempts]
    BY DEF LocalTypeOK
  <1>m. MaxAttempts \in Nat
    BY ModelAssumption
  <1>n. /\ Rest(c) \in Nat /\ More(c) \in Nat /\ Effort(c) \in Nat
        /\ Rest(c)' \in Nat /\ More(c)' \in Nat /\ Effort(c)' \in Nat
    BY EffortType, EffortTypeAfter
  <1>a. ASSUME left'[c] = left[c] PROVE Rest(c)' = Rest(c)
    BY <1>a DEF Rest
  <1>b. ASSUME attempt'[c] = attempt[c] PROVE More(c)' = More(c)
    BY <1>b DEF More
  <1>1. CASE ReserveBudget(c)
    <2>1. PICK p \in left[c] : left' = [left EXCEPT ![c] = @ \ {p}]
      BY <1>1 DEF ReserveBudget
    <2>2. left'[c] = left[c] \ {p}
      BY <2>1, <1>t
    <2>3. Rest(c)' = Rest(c) - Turn
      BY <2>2, RestOfNext
    <2>4. pc[c] = "routing" /\ pc'[c] = "reserved" /\ attempt'[c] = 1
      BY <1>1, <1>t DEF ReserveBudget, Goto
    <2>5. More(c)' = 3 * (MaxAttempts - 1)
      BY <2>4 DEF More
    <2>6. Effort(c) = Rest(c) + 1 /\ Effort(c)' = Rest(c)' + More(c)' + 5
      BY <2>4 DEF Effort
    <2> QED
      BY <2>3, <2>5, <2>6, <1>m, <1>n DEF Turn
  <1>2. CASE BudgetExceeded(c) \/ NoRoute(c)
    <2>1. pc[c] = "routing" /\ pc'[c] = "ended"
      BY <1>2, <1>t DEF BudgetExceeded, NoRoute, End, Goto
    <2> QED
      BY <2>1, <1>n DEF Effort
  <1>3. CASE Claim(c) \/ CallProvider(c)
    <2>1. /\ left'[c] = left[c] /\ attempt'[c] = attempt[c]
          /\ \/ pc[c] = "reserved" /\ pc'[c] = "claimed"
             \/ pc[c] = "claimed" /\ pc'[c] = "calling"
      BY <1>3, <1>t DEF Claim, CallProvider, Goto
    <2> QED
      BY <2>1, <1>a, <1>b, <1>n DEF Effort
  <1>4. CASE ReplayResult(c) \/ GuardUnsure(c) \/ ProviderAnswers(c) \/ ProviderUnsure(c)
    <2>1. pc[c] \in {"reserved", "claimed", "calling"} /\ pc'[c] = "booking"
      BY <1>4, <1>t DEF ReplayResult, GuardUnsure, ProviderAnswers, ProviderUnsure, Goto
    <2> QED
      BY <2>1, <1>n DEF Effort
  <1>5. CASE NotAccepted(c)
    <2>1. pc[c] = "calling" /\ left'[c] = left[c]
      BY <1>5, <1>t DEF NotAccepted
    <2>2. CASE pc'[c] = "reserved" /\ attempt'[c] = attempt[c] + 1
      <3>1. attempt[c] \in Nat /\ More(c)' = 3 * (MaxAttempts - (attempt[c] + 1))
        BY <2>2, <1>t, <1>m DEF More
      <3>2. More(c)' = More(c) - 3
        BY <3>1, <1>m DEF More
      <3> QED
        BY <2>1, <2>2, <3>2, <1>a, <1>n DEF Effort
    <2>3. CASE pc'[c] = "releasing"
      BY <2>1, <2>3, <1>a, <1>n DEF Effort
    <2> QED
      BY <1>5, <1>t, <2>2, <2>3 DEF NotAccepted, Goto, NextAttempt
  <1>6. CASE CommitCost(c) \/ CommitConflict(c)
    <2>1. pc[c] = "booking" /\ pc'[c] = "ended"
      BY <1>6, <1>t DEF CommitCost, CommitConflict, End, Goto
    <2> QED
      BY <2>1 DEF Effort
  <1>7. CASE ReleaseBudget(c)
    <2>1. pc[c] = "releasing" /\ pc'[c] = "routing" /\ left'[c] = left[c]
      BY <1>7, <1>t DEF ReleaseBudget, Goto
    <2> QED
      BY <2>1, <1>a, <1>n DEF Effort
  <1>8. CASE ReleaseConflict(c)
    <2>1. pc[c] = "releasing" /\ pc'[c] = "ended"
      BY <1>8, <1>t DEF ReleaseConflict, End, Goto
    <2> QED
      BY <2>1, <1>n DEF Effort
  <1> QED
    BY <1>1, <1>2, <1>3, <1>4, <1>5, <1>6, <1>7, <1>8 DEF Proceed

LEMMA EffortStep ==
    ASSUME CallInv, CallInv', Next
    PROVE  EffortFalls
  <1> SUFFICES ASSUME NEW c \in Call
               PROVE  /\ Effort(c)' <= Effort(c)
                      /\ Proceed(c) => Effort(c)' < Effort(c)
    BY DEF EffortFalls
  <1>t. LocalTypeOK /\ LocalTypeOK'
    BY DEF CallInv
  <1>e. Effort(c) \in Nat /\ Effort(c)' \in Nat
    BY <1>t, EffortType, EffortTypeAfter
  <1>1. CASE Proceed(c)
    BY <1>1, <1>t, <1>e, ProceedShrinks
  <1>2. CASE ~Proceed(c) /\ Invoke(c)
    <2>1. pc \in [Call -> PC] /\ Rest(c) \in Nat
      BY <1>t, EffortType DEF LocalTypeOK
    <2>2. pc[c] = "idle" /\ pc'[c] = "routing" /\ left' = left
      BY <1>2, <2>1 DEF Invoke, Goto
    <2>3. Rest(c)' = Rest(c)
      BY <2>2 DEF Rest
    <2>4. Effort(c)' < Effort(c)
      BY <2>1, <2>2, <2>3 DEF Effort
    <2> QED
      BY <2>4, <1>e, <1>2
  <1>3. CASE ~Proceed(c) /\ Crash(c)
    <2>1. pc \in [Call -> PC]
      BY <1>t DEF LocalTypeOK
    <2>2. pc'[c] = "crashed"
      BY <1>3, <2>1 DEF Crash, Goto
    <2>3. Effort(c)' = 0
      BY <2>2 DEF Effort
    <2> QED
      BY <2>3, <1>e, <1>3
  <1>4. CASE /\ ~Proceed(c)
             /\ pc'[c] = pc[c] /\ left'[c] = left[c] /\ attempt'[c] = attempt[c]
    <2>1. Effort(c)' = Effort(c)
      BY <1>4 DEF Effort, Rest, More
    <2> QED
      BY <2>1, <1>e, <1>4
  <1> QED
    BY <1>1, <1>2, <1>3, <1>4, OneCallMoves

\* No call runs for ever: each step of its code makes a natural number smaller that no
\* crash, lease, provider or other call makes larger, and that is 0 only where it is over.
\* So a call takes at most Effort(c) steps more, whatever it retries and falls back to.
THEOREM CallsRunDown ==
    Spec => /\ [](\A c \in Call : /\ Effort(c) \in Nat
                                  /\ pc[c] \notin {"ended", "crashed"} => Effort(c) > 0)
            /\ [][EffortFalls]_vars
  <1>1. Inv => \A c \in Call : /\ Effort(c) \in Nat
                               /\ pc[c] \notin {"ended", "crashed"} => Effort(c) > 0
    BY EffortType DEF Inv, CallInv
  <1>2. Inv /\ Inv' /\ [Next]_vars => [EffortFalls]_vars
    BY EffortStep DEF Inv
  <1> QED
    BY <1>1, <1>2, Invariant, PTL DEF Spec
=============================================================================
