------------------------- MODULE CostGatewayProofs -------------------------
(***************************************************************************)
(* Proofs about CostGateway.  CostTypeOK and CommittedIsBooked are         *)
(* inductive together, and every step from a state in which they hold      *)
(* keeps the ledger final.  The limits need sums: the second part proves   *)
(* what SumFunctionOnSet computes for every finite set, and the third that *)
(* no step takes a limit beyond its sunk cost.                             *)
(***************************************************************************)
EXTENDS CostGateway, FiniteSetTheorems, TLAPS

CostInv == CostTypeOK /\ CommittedIsBooked

\* A row of cost_reservations after each of the updates is a row.
LEMMA SettledType ==
    ASSUME NEW row \in Reservation
    PROVE  /\ [row EXCEPT !.status = "expired", !.lapsed = FALSE] \in Reservation
           /\ [row EXCEPT !.status = "expired", !.lapsed = FALSE].status = "expired"
           /\ [row EXCEPT !.status = "expired", !.lapsed = FALSE].lapsed = FALSE
           /\ [row EXCEPT !.status = "released", !.lapsed = FALSE] \in Reservation
           /\ [row EXCEPT !.status = "released", !.lapsed = FALSE].status = "released"
           /\ [row EXCEPT !.status = "released", !.lapsed = FALSE].lapsed = FALSE
           /\ [row EXCEPT !.lapsed = TRUE] \in Reservation
           /\ [row EXCEPT !.lapsed = TRUE].status = row.status
           /\ [row EXCEPT !.late = (row.status = "expired"),
                          !.status = "committed", !.lapsed = FALSE] \in Reservation
           /\ [row EXCEPT !.late = (row.status = "expired"),
                          !.status = "committed", !.lapsed = FALSE].status = "committed"
           /\ [row EXCEPT !.late = (row.status = "expired"),
                          !.status = "committed", !.lapsed = FALSE].lapsed = FALSE
  BY DEF Reservation

\* Rows that are updated without coming into or going out of "committed".
LEMMA UncommittedUpdate ==
    ASSUME CostInv, UNCHANGED actual,
           correction' \subseteq Correction, correction \subseteq correction',
           reservation' \in [Key -> Reservation],
           \A k \in Key : reservation'[k].lapsed => reservation'[k].status = "active",
           \A k \in Key : \/ reservation'[k] = reservation[k]
                          \/ /\ reservation[k].status # "committed"
                             /\ reservation'[k].status # "committed"
    PROVE  CostInv' /\ (\A k \in Key : reservation[k].status = "committed"
                                        => reservation'[k] = reservation[k])
  <1>1. CostTypeOK'
    BY DEF CostInv, CostTypeOK
  <1>2. CommittedIsBooked'
    BY DEF CostInv, CommittedIsBooked
  <1> QED
    BY <1>1, <1>2 DEF CostInv

\* What has lapsed was active, so what is marked expired was not committed.
LEMMA SweptRows ==
    ASSUME CostInv, NEW gone \in SUBSET Lapsed
    PROVE  /\ Swept(gone) \in [Key -> Reservation]
           /\ \A k \in Key : Swept(gone)[k].lapsed => Swept(gone)[k].status = "active"
           /\ \A k \in Key : \/ Swept(gone)[k] = reservation[k]
                             \/ /\ reservation[k].status # "committed"
                                /\ Swept(gone)[k].status # "committed"
  <1> SUFFICES ASSUME NEW k \in Key
               PROVE  /\ Swept(gone)[k] \in Reservation
                      /\ Swept(gone)[k].lapsed => Swept(gone)[k].status = "active"
                      /\ \/ Swept(gone)[k] = reservation[k]
                         \/ /\ reservation[k].status # "committed"
                            /\ Swept(gone)[k].status # "committed"
    BY DEF Swept
  <1>1. reservation[k] \in Reservation /\ (reservation[k].lapsed => reservation[k].status = "active")
    BY DEF CostInv, CostTypeOK
  <1>2. CASE k \in gone
    <2>1. Swept(gone)[k] = [reservation[k] EXCEPT !.status = "expired", !.lapsed = FALSE]
      BY <1>2 DEF Swept
    <2>2. reservation[k].status = "active"
      BY <1>1, <1>2 DEF Lapsed
    <2>3. /\ [reservation[k] EXCEPT !.status = "expired", !.lapsed = FALSE] \in Reservation
          /\ [reservation[k] EXCEPT !.status = "expired", !.lapsed = FALSE].status = "expired"
          /\ [reservation[k] EXCEPT !.status = "expired", !.lapsed = FALSE].lapsed = FALSE
      BY <1>1, SettledType
    <2> QED
      BY <2>1, <2>2, <2>3
  <1>3. CASE k \notin gone
    BY <1>1, <1>3 DEF Swept
  <1> QED
    BY <1>2, <1>3

\* Each row that a reserve writes.
LEMMA ReserveStep ==
    ASSUME CostInv, NEW k \in Key, Reserve(k)
    PROVE  /\ CostInv'
           /\ \A j \in Key : reservation[j].status = "committed"
                               => reservation'[j] = reservation[j]
           /\ UNCHANGED <<actual, correction>>
  <1>1. CASE Grant(k)
    <2>1. PICK gone \in SUBSET Lapsed :
              /\ Renewable(Swept(gone), k)
              /\ reservation' = [Swept(gone) EXCEPT ![k] = Reserved]
              /\ UNCHANGED <<actual, correction>>
      BY <1>1 DEF Grant
    <2>2. /\ Swept(gone) \in [Key -> Reservation]
          /\ \A j \in Key : Swept(gone)[j].lapsed => Swept(gone)[j].status = "active"
          /\ \A j \in Key : \/ Swept(gone)[j] = reservation[j]
                            \/ /\ reservation[j].status # "committed"
                               /\ Swept(gone)[j].status # "committed"
      BY SweptRows
    <2>3. /\ Reserved \in Reservation /\ Reserved.status = "active"
          /\ Swept(gone)[k].status # "committed"
      BY <2>1 DEF Reserved, Reservation, Renewable
    <2>4. reservation[k].status # "committed"
      BY <2>2, <2>3
    <2>5. reservation' \in [Key -> Reservation]
      BY <2>1, <2>2, <2>3
    <2>6. \A j \in Key : reservation'[j] = IF j = k THEN Reserved ELSE Swept(gone)[j]
      BY <2>1, <2>2
    <2>7. \A j \in Key : reservation'[j].lapsed => reservation'[j].status = "active"
      BY <2>2, <2>3, <2>6
    <2>8. \A j \in Key : \/ reservation'[j] = reservation[j]
                         \/ /\ reservation[j].status # "committed"
                            /\ reservation'[j].status # "committed"
      BY <2>2, <2>3, <2>4, <2>6
    <2> QED
      BY <2>1, <2>5, <2>7, <2>8, UncommittedUpdate DEF CostInv, CostTypeOK
  <1>2. CASE Rejoin(k)
    <2>1. PICK gone \in SUBSET Lapsed :
              reservation' = Swept(gone) /\ UNCHANGED <<actual, correction>>
      BY <1>2 DEF Rejoin
    <2> QED
      BY <2>1, SweptRows, UncommittedUpdate DEF CostInv, CostTypeOK
  <1> QED
    BY <1>1, <1>2 DEF Reserve

\* A commit books the one actual cost of the operation, or finds it booked.
LEMMA CommitStep ==
    ASSUME CostInv, NEW k \in Key, NEW fact \in Fact, fact.candidate = k[2], Commit(k, fact)
    PROVE  /\ CostInv'
           /\ \A j \in Key : reservation[j].status = "committed"
                               => reservation'[j] = reservation[j]
           /\ \A o \in Operation : actual[o] # None => actual'[o] = actual[o]
           /\ actual'[k[1]] = fact /\ UNCHANGED correction
  <1> DEFINE row == [reservation[k] EXCEPT !.late = (reservation[k].status = "expired"),
                                          !.status = "committed", !.lapsed = FALSE]
  <1>0. k[1] \in Operation /\ k[2] \in Candidate /\ k = <<k[1], k[2]>>
    BY DEF Key
  <1>a. fact # None
    BY RowAssumption
  <1>1. CASE Book(k, fact)
    <2>1. /\ reservation[k].status # "committed"
          /\ actual[k[1]] \in {None, fact}
          /\ actual' = [actual EXCEPT ![k[1]] = fact]
          /\ reservation' = [reservation EXCEPT ![k] = row]
          /\ UNCHANGED correction
      BY <1>1 DEF Book, Open, Bookable, Settled
    <2>2. reservation[k] \in Reservation /\ actual \in [Operation -> Fact \cup {None}]
          /\ reservation \in [Key -> Reservation]
      BY DEF CostInv, CostTypeOK
    <2>3. row \in Reservation /\ row.status = "committed" /\ row.lapsed = FALSE
      BY <2>2, SettledType
    <2> HIDE DEF row
    <2>4. /\ \A j \in Key : reservation'[j] = IF j = k THEN row ELSE reservation[j]
          /\ \A o \in Operation : actual'[o] = IF o = k[1] THEN fact ELSE actual[o]
      BY <1>0, <2>1, <2>2
    <2>5. actual[k[1]] = None
      BY <1>0, <2>1 DEF CostInv, CommittedIsBooked
    <2>6. CostTypeOK'
      <3>1. reservation' \in [Key -> Reservation]
        BY <2>1, <2>2, <2>3
      <3>2. actual' \in [Operation -> Fact \cup {None}]
        BY <2>1, <2>2
      <3>3. \A j \in Key : reservation'[j].lapsed => reservation'[j].status = "active"
        BY <2>3, <2>4 DEF CostInv, CostTypeOK
      <3> QED
        BY <2>1, <3>1, <3>2, <3>3 DEF CostInv, CostTypeOK
    <2>7. ASSUME NEW j \in Key
          PROVE  reservation'[j].status = "committed" <=>
                     (actual'[j[1]] # None /\ actual'[j[1]].candidate = j[2])
      <3>0. j[1] \in Operation /\ j[2] \in Candidate /\ j = <<j[1], j[2]>>
        BY DEF Key
      <3>1. CASE j = k
        BY <1>0, <1>a, <2>3, <2>4, <3>1
      <3>2. CASE j # k /\ j[1] = k[1]
        <4>1. reservation'[j] = reservation[j] /\ actual'[j[1]] = fact /\ j[2] # k[2]
          BY <1>0, <2>4, <3>0, <3>2
        <4>2. reservation[j].status # "committed"
          BY <2>5, <3>2 DEF CostInv, CommittedIsBooked
        <4> QED
          BY <4>1, <4>2
      <3>3. CASE j[1] # k[1]
        <4>1. reservation'[j] = reservation[j] /\ actual'[j[1]] = actual[j[1]]
          BY <2>4, <3>0, <3>3
        <4> QED
          BY <4>1 DEF CostInv, CommittedIsBooked
      <3> QED
        BY <3>1, <3>2, <3>3
    <2> QED
      BY <1>0, <2>1, <2>4, <2>5, <2>6, <2>7 DEF CostInv, CommittedIsBooked
  <1>2. CASE Rebook(k, fact)
    BY <1>2 DEF Rebook, costs, CostInv, CostTypeOK, CommittedIsBooked
  <1> QED
    BY <1>1, <1>2 DEF Commit

LEMMA ReleaseStep ==
    ASSUME CostInv, NEW k \in Key, Release(k) \/ Lapse(k)
    PROVE  /\ CostInv'
           /\ \A j \in Key : reservation[j].status = "committed"
                               => reservation'[j] = reservation[j]
           /\ UNCHANGED <<actual, correction>>
  <1>1. reservation \in [Key -> Reservation] /\ reservation[k] \in Reservation
        /\ \A j \in Key : reservation[j].lapsed => reservation[j].status = "active"
    BY DEF CostInv, CostTypeOK
  <1>2. PICK row \in Reservation :
            /\ row.status # "committed" /\ (row.lapsed => row.status = "active")
            /\ reservation[k].status # "committed"
            /\ reservation' = [reservation EXCEPT ![k] = row]
            /\ UNCHANGED <<actual, correction>>
    <2>1. CASE Release(k)
      <3>1. reservation' =
                [reservation EXCEPT ![k] =
                    [reservation[k] EXCEPT !.status = "released", !.lapsed = FALSE]]
        BY <1>1, <2>1 DEF Release
      <3>2. /\ [reservation[k] EXCEPT !.status = "released", !.lapsed = FALSE] \in Reservation
            /\ [reservation[k] EXCEPT !.status = "released", !.lapsed = FALSE].status = "released"
            /\ [reservation[k] EXCEPT !.status = "released", !.lapsed = FALSE].lapsed = FALSE
        BY <1>1, SettledType
      <3> QED
        BY <2>1, <3>1, <3>2 DEF Release
    <2>2. CASE Lapse(k)
      <3>1. reservation' = [reservation EXCEPT ![k] = [reservation[k] EXCEPT !.lapsed = TRUE]]
        BY <1>1, <2>2 DEF Lapse
      <3>2. /\ [reservation[k] EXCEPT !.lapsed = TRUE] \in Reservation
            /\ [reservation[k] EXCEPT !.lapsed = TRUE].status = reservation[k].status
        BY <1>1, SettledType
      <3> QED
        BY <2>2, <3>1, <3>2 DEF Lapse
    <2> QED
      BY <2>1, <2>2
  <1>3. \A j \in Key : reservation'[j] = IF j = k THEN row ELSE reservation[j]
    BY <1>1, <1>2
  <1>4. reservation' \in [Key -> Reservation]
    BY <1>1, <1>2
  <1> QED
    BY <1>1, <1>2, <1>3, <1>4, UncommittedUpdate DEF CostInv, CostTypeOK

\* The corrections only add rows.
LEMMA CorrectStep ==
    ASSUME CostInv, NEW row \in Correction, Correct(row)
    PROVE  CostInv' /\ correction \subseteq correction' /\ UNCHANGED <<reservation, actual>>
  BY DEF Correct, CostInv, CostTypeOK, CommittedIsBooked

Final ==
    /\ \A o \in Operation : actual[o] # None => actual'[o] = actual[o]
    /\ correction \subseteq correction'
    /\ \A k \in Key : reservation[k].status = "committed"
                        => reservation'[k] = reservation[k]

LEMMA CostStep ==
    ASSUME CostInv, CostNext
    PROVE  CostInv' /\ Final
  <1>1. ASSUME NEW k \in Key, Reserve(k)
        PROVE  CostInv' /\ Final
    BY <1>1, ReserveStep DEF Final
  <1>2. ASSUME NEW k \in Key, Release(k) \/ Lapse(k)
        PROVE  CostInv' /\ Final
    BY <1>2, ReleaseStep DEF Final
  <1>3. ASSUME NEW k \in Key, NEW fact \in Fact, fact.candidate = k[2], Commit(k, fact)
        PROVE  CostInv' /\ Final
    BY <1>3, CommitStep DEF Final
  <1>4. ASSUME NEW o \in Operation, NEW key \in CorrectionKey, NEW delta \in Delta,
               RecordAdjustment(o, key, delta)
        PROVE  CostInv' /\ Final
    <2>1. [operation |-> o, type |-> "adjustment", key |-> key,
           target |-> None, amount |-> delta] \in Correction
      BY CostAssumption DEF Correction
    <2> QED
      BY <1>4, <2>1, CorrectStep DEF RecordAdjustment, Final
  <1>5. ASSUME NEW o \in Operation, NEW key \in CorrectionKey, ReverseActual(o, key)
        PROVE  CostInv' /\ Final
    <2>1. actual[o] \in Fact
      BY <1>5 DEF ReverseActual, CostInv, CostTypeOK
    <2>2. actual[o].amount \in Int
      <3>1. actual[o].amount \in Amount
        BY <2>1 DEF Fact
      <3>2. Amount \subseteq Nat
        BY CostAssumption
      <3>3. actual[o].amount \in Nat
        BY <3>1, <3>2, Zenon
      <3> QED
        BY <3>3
    <2>3. [operation |-> o, type |-> "reversal", key |-> key,
           target |-> None, amount |-> -actual[o].amount] \in Correction
      BY <2>2 DEF Correction
    <2> QED
      BY <1>5, <2>3, CorrectStep DEF ReverseActual, Final
  <1>6. ASSUME NEW o \in Operation, NEW key \in CorrectionKey, ReverseAdjustment(o, key)
        PROVE  CostInv' /\ Final
    <2>1. PICK r \in correction :
              /\ r.operation = o /\ r.type = "adjustment"
              /\ Correct([operation |-> o, type |-> "reversal", key |-> key,
                          target |-> r.key, amount |-> -r.amount])
      BY <1>6 DEF ReverseAdjustment
    <2>2. r.key \in CorrectionKey /\ r.amount \in Int
      BY DEF CostInv, CostTypeOK, Correction
    <2>3. [operation |-> o, type |-> "reversal", key |-> key,
           target |-> r.key, amount |-> -r.amount] \in Correction
      BY <2>2 DEF Correction
    <2> QED
      BY <2>1, <2>3, CorrectStep DEF Final
  <1> QED
    BY <1>1, <1>2, <1>3, <1>4, <1>5, <1>6 DEF CostNext

LEMMA CostStart ==
    ASSUME CostInit
    PROVE  CostInv
  BY DEF CostInit, NoReservation, CostInv, CostTypeOK, CommittedIsBooked, Key, Reservation

LEMMA CostStutter ==
    ASSUME CostInv, UNCHANGED costs
    PROVE  CostInv'
  BY DEF costs, CostInv, CostTypeOK, CommittedIsBooked

-----------------------------------------------------------------------------
\* Every reachable state of the cost gateway satisfies the invariant.
THEOREM CostInvariant == CostSpec => []CostInv
  <1>1. CostInv /\ [CostNext]_costs => CostInv'
    BY CostStep, CostStutter
  <1> QED
    BY CostStart, <1>1, PTL DEF CostSpec

\* Type correctness: of the rows of cost_reservations and cost_ledger.
THEOREM CostTypeCorrect == CostSpec => []CostTypeOK
  <1>1. CostInv => CostTypeOK
    BY DEF CostInv
  <1> QED
    BY <1>1, CostInvariant, PTL

\* A reservation is committed exactly when the actual cost of its operation is its
\* candidate's: an operation is charged once, to one provider, for any number of
\* operations, candidates and limits.
THEOREM ChargedOnce == CostSpec => []CommittedIsBooked
  <1>1. CostInv => CommittedIsBooked
    BY DEF CostInv
  <1> QED
    BY <1>1, CostInvariant, PTL

\* No step of the cost gateway changes a booked cost or a correction, or takes back a
\* committed reservation.
THEOREM NothingBookedChanges == CostSpec => LedgerIsFinal
  <1>1. CostInv /\ [CostNext]_costs => [Final]_costs
    BY CostStep
  <1>2. CostInv /\ [CostNext]_costs =>
            [ /\ \A o \in Operation : actual[o] # None => actual'[o] = actual[o]
              /\ correction \subseteq correction'
              /\ \A k \in Key : reservation[k].status = "committed"
                                  => reservation'[k] = reservation[k] ]_costs
    BY <1>1 DEF Final
  <1> QED
    BY <1>2, CostInvariant, PTL DEF CostSpec, LedgerIsFinal

-----------------------------------------------------------------------------
(* Sums over finite sets: SumFunctionOnSet is a recursive function of the  *)
(* community modules, so what it computes is proved by induction over the  *)
(* subsets of a finite set.                                                *)

Pick(s) == CHOOSE x \in s : TRUE

IsSum(g, f, S) ==
    g = [s \in SUBSET S |-> IF s = {} THEN 0 ELSE f[Pick(s)] + g[s \ {Pick(s)}]]

SumOf(f, S) == CHOOSE g : IsSum(g, f, S)

\* Strict inclusion is well founded, so C holds every subset of S once it holds each of
\* which it holds the smaller ones.
LEMMA SetInduction ==
    ASSUME NEW S, IsFiniteSet(S), NEW C,
           \A T \in SUBSET S : (\A U \in SUBSET T : U # T => U \in C) => T \in C
    PROVE  \A T \in SUBSET S : T \in C
  <1> DEFINE Bad == {T \in SUBSET S : T \notin C}
  <1>1. IsWellFoundedOn(StrictSubsetOrdering(S), SUBSET S)
    BY FS_StrictSubsetOrderingWellFounded, FS_FiniteSubsetsOfFinite
  <1>2. ASSUME Bad # {} PROVE FALSE
    <2>0. Bad \subseteq SUBSET S
      OBVIOUS
    <2> HIDE DEF Bad
    <2>1. PICK T \in Bad : \A U \in Bad : <<U, T>> \notin StrictSubsetOrdering(S)
      BY <1>1, <1>2, <2>0, WFMin
    <2> USE DEF Bad
    <2>2. \A U \in SUBSET T : U # T => U \in C
      BY <2>1 DEF StrictSubsetOrdering
    <2> QED
      BY <2>1, <2>2
  <1> QED
    BY <1>2

\* What SumFunctionOnSet takes is a solution of its equation, if there is one.
LEMMA SumUnfolds ==
    ASSUME NEW f, NEW S
    PROVE  SumFunctionOnSet(f, S) = SumOf(f, S)[S]
  BY Zenon DEF SumFunctionOnSet, FoldFunctionOnSet, MapThenFoldSet, SumOf, IsSum, Pick

\* What is left without the picked element is a smaller set.
LEMMA PickIn ==
    ASSUME NEW s, s # {}
    PROVE  Pick(s) \in s /\ s \ {Pick(s)} \in SUBSET s /\ s \ {Pick(s)} # s
  <1>1. Pick(s) \in s
    BY DEF Pick
  <1> QED
    BY <1>1

\* Its equation, at a subset.
LEMMA SumEquation ==
    ASSUME NEW f, NEW S, NEW g, IsSum(g, f, S), NEW s \in SUBSET S
    PROVE  g[s] = IF s = {} THEN 0 ELSE f[Pick(s)] + g[s \ {Pick(s)}]
  BY DEF IsSum

\* Two solutions agree on the subsets that both are about.
LEMMA SumUnique ==
    ASSUME NEW f, NEW S, NEW T \in SUBSET S, IsFiniteSet(T),
           NEW g, NEW h, IsSum(g, f, S), IsSum(h, f, T)
    PROVE  g[T] = h[T]
  <1> DEFINE C == {s \in SUBSET T : g[s] = h[s]}
  <1>1. ASSUME NEW s \in SUBSET T, \A u \in SUBSET s : u # s => u \in C
        PROVE  s \in C
    <2>1. g[s] = IF s = {} THEN 0 ELSE f[Pick(s)] + g[s \ {Pick(s)}]
      BY SumEquation
    <2>2. h[s] = IF s = {} THEN 0 ELSE f[Pick(s)] + h[s \ {Pick(s)}]
      BY SumEquation
    <2>3. s # {} => g[s \ {Pick(s)}] = h[s \ {Pick(s)}]
      BY <1>1, PickIn
    <2> QED
      BY <2>1, <2>2, <2>3
  <1> HIDE DEF C
  <1>2. T \in C
    BY <1>1, SetInduction
  <1> QED
    BY <1>2 DEF C

\* There is a solution: on each subset it takes what the smaller ones have.
LEMMA SumExists ==
    ASSUME NEW f, NEW S, IsFiniteSet(S)
    PROVE  \A T \in SUBSET S : IsSum(SumOf(f, T), f, T)
  <1> DEFINE C == {T \in SUBSET S : IsSum(SumOf(f, T), f, T)}
  <1>1. ASSUME NEW T \in SUBSET S, \A U \in SUBSET T : U # T => U \in C
        PROVE  T \in C
    <2> DEFINE Less(s) == s \ {Pick(s)}
    <2> DEFINE g == [s \in SUBSET T |->
                        IF s = {} THEN 0 ELSE f[Pick(s)] + SumOf(f, Less(s))[Less(s)]]
    <2>1. ASSUME NEW s \in SUBSET T, s # {}
          PROVE  g[Less(s)] = SumOf(f, Less(s))[Less(s)]
      <3> DEFINE u == Less(s)
      <3>1. u \in SUBSET T /\ u # T
        BY <2>1, PickIn
      <3>2. IsSum(SumOf(f, u), f, u)
        BY <1>1, <3>1
      <3> HIDE DEF u
      <3>3. SumOf(f, u)[u] = IF u = {} THEN 0 ELSE f[Pick(u)] + SumOf(f, u)[u \ {Pick(u)}]
        BY <3>2, SumEquation
      <3>4. ASSUME u # {}
            PROVE  SumOf(f, u)[u \ {Pick(u)}] = SumOf(f, u \ {Pick(u)})[u \ {Pick(u)}]
        <4>1. u \ {Pick(u)} \in SUBSET u /\ u \ {Pick(u)} \in SUBSET T /\ u \ {Pick(u)} # T
          BY <3>1, <3>4, PickIn
        <4>2. IsSum(SumOf(f, u \ {Pick(u)}), f, u \ {Pick(u)})
          BY <1>1, <4>1
        <4>3. IsFiniteSet(u \ {Pick(u)})
          BY <4>1, FS_Subset
        <4> QED
          BY <3>2, <4>1, <4>2, <4>3, SumUnique
      <3>5. g[u] = IF u = {} THEN 0 ELSE f[Pick(u)] + SumOf(f, u \ {Pick(u)})[u \ {Pick(u)}]
        BY <3>1
      <3>6. g[u] = SumOf(f, u)[u]
        BY <3>3, <3>4, <3>5
      <3> QED
        BY <3>6 DEF u
    <2>2. g = [s \in SUBSET T |-> IF s = {} THEN 0 ELSE f[Pick(s)] + g[Less(s)]]
      BY <2>1
    <2>3. \E h : IsSum(h, f, T)
      BY <2>2 DEF IsSum
    <2>4. IsSum(SumOf(f, T), f, T)
      BY <2>3, Zenon DEF SumOf
    <2> QED
      BY <2>4
  <1> HIDE DEF C
  <1>2. \A T \in SUBSET S : T \in C
    BY <1>1, SetInduction
  <1> QED
    BY <1>2 DEF C

\* The sum of nothing is 0, and another is what it picks and the sum of the rest.
LEMMA SumStep ==
    ASSUME NEW f, NEW S, IsFiniteSet(S)
    PROVE  SumFunctionOnSet(f, S) =
               IF S = {} THEN 0 ELSE f[Pick(S)] + SumFunctionOnSet(f, S \ {Pick(S)})
  <1>1. IsSum(SumOf(f, S), f, S)
    BY SumExists
  <1>2. SumOf(f, S)[S] = IF S = {} THEN 0 ELSE f[Pick(S)] + SumOf(f, S)[S \ {Pick(S)}]
    BY <1>1, SumEquation
  <1>3. ASSUME S # {} PROVE SumOf(f, S)[S \ {Pick(S)}] = SumOf(f, S \ {Pick(S)})[S \ {Pick(S)}]
    <2>1. IsFiniteSet(S \ {Pick(S)}) /\ S \ {Pick(S)} \in SUBSET S
      BY FS_Subset, PickIn, <1>3
    <2>2. IsSum(SumOf(f, S \ {Pick(S)}), f, S \ {Pick(S)})
      BY <2>1, SumExists
    <2> QED
      BY <1>1, <2>1, <2>2, SumUnique
  <1> QED
    BY <1>2, <1>3, SumUnfolds

\* Nothing sums to nothing.
LEMMA SumEmpty ==
    ASSUME NEW f
    PROVE  SumFunctionOnSet(f, {}) = 0
  <1>1. IsFiniteSet({})
    BY FS_EmptySet
  <1> QED
    BY <1>1, SumStep

\* A sum of integers is an integer.
LEMMA SumType ==
    ASSUME NEW f, NEW S, IsFiniteSet(S), \A x \in S : f[x] \in Int
    PROVE  \A T \in SUBSET S : SumFunctionOnSet(f, T) \in Int
  <1> DEFINE C == {T \in SUBSET S : SumFunctionOnSet(f, T) \in Int}
  <1>1. ASSUME NEW T \in SUBSET S, \A U \in SUBSET T : U # T => U \in C
        PROVE  T \in C
    <2>1. SumFunctionOnSet(f, T) =
              IF T = {} THEN 0 ELSE f[Pick(T)] + SumFunctionOnSet(f, T \ {Pick(T)})
      BY SumStep, FS_Subset
    <2>2. T # {} => f[Pick(T)] \in Int /\ SumFunctionOnSet(f, T \ {Pick(T)}) \in Int
      BY <1>1, PickIn
    <2> QED
      BY <2>1, <2>2
  <1> HIDE DEF C
  <1>2. \A T \in SUBSET S : T \in C
    BY <1>1, SetInduction
  <1> QED
    BY <1>2 DEF C

\* It does not matter in which order the elements are picked.
LEMMA SumTakesOut ==
    ASSUME NEW f, NEW S, IsFiniteSet(S), \A x \in S : f[x] \in Int
    PROVE  \A T \in SUBSET S : \A x \in T :
               SumFunctionOnSet(f, T) = f[x] + SumFunctionOnSet(f, T \ {x})
  <1> DEFINE C == {T \in SUBSET S : \A x \in T :
                       SumFunctionOnSet(f, T) = f[x] + SumFunctionOnSet(f, T \ {x})}
  <1>1. ASSUME NEW T \in SUBSET S, \A U \in SUBSET T : U # T => U \in C
        PROVE  T \in C
    <2> SUFFICES ASSUME NEW x \in T
                 PROVE  SumFunctionOnSet(f, T) = f[x] + SumFunctionOnSet(f, T \ {x})
      OBVIOUS
    <2> DEFINE p == Pick(T)
    <2>1. p \in T /\ IsFiniteSet(T) /\ IsFiniteSet(T \ {x})
      BY PickIn, FS_Subset
    <2>2. SumFunctionOnSet(f, T) = f[p] + SumFunctionOnSet(f, T \ {p})
      BY <2>1, SumStep
    <2> HIDE DEF p
    <2>3. CASE x = p
      BY <2>2, <2>3
    <2>4. CASE x # p
      <3>1. T \ {p} \in C /\ T \ {x} \in C
        BY <1>1, <2>1
      <3>2. SumFunctionOnSet(f, T \ {p}) = f[x] + SumFunctionOnSet(f, (T \ {p}) \ {x})
        BY <2>4, <3>1
      <3>3. SumFunctionOnSet(f, T \ {x}) = f[p] + SumFunctionOnSet(f, (T \ {x}) \ {p})
        BY <2>1, <2>4, <3>1
      <3>4. (T \ {p}) \ {x} = (T \ {x}) \ {p}
        OBVIOUS
      <3>5. /\ f[x] \in Int /\ f[p] \in Int
            /\ SumFunctionOnSet(f, (T \ {p}) \ {x}) \in Int
        BY <2>1, SumType
      <3>6. SumFunctionOnSet(f, (T \ {p}) \ {x}) = SumFunctionOnSet(f, (T \ {x}) \ {p})
        BY <3>4, Zenon
      <3> HIDE DEF C
      <3> QED
        BY <2>2, <3>2, <3>3, <3>5, <3>6
    <2> QED
      BY <2>3, <2>4
  <1> HIDE DEF C
  <1>2. \A T \in SUBSET S : T \in C
    BY <1>1, SetInduction
  <1> QED
    BY <1>2 DEF C

\* The facts used below: the empty sum, its type, and one element more or less.
LEMMA SumFacts ==
    ASSUME NEW f, NEW S, IsFiniteSet(S), \A x \in S : f[x] \in Int
    PROVE  /\ SumFunctionOnSet(f, {}) = 0
           /\ SumFunctionOnSet(f, S) \in Int
           /\ \A x \in S : /\ SumFunctionOnSet(f, S) = f[x] + SumFunctionOnSet(f, S \ {x})
                           /\ SumFunctionOnSet(f, S \ {x}) \in Int
  <1>1. SumFunctionOnSet(f, {}) = 0
    BY SumEmpty
  <1>2. SumFunctionOnSet(f, S) \in Int /\ \A x \in S : SumFunctionOnSet(f, S \ {x}) \in Int
    BY SumType
  <1>3. \A x \in S : SumFunctionOnSet(f, S) = f[x] + SumFunctionOnSet(f, S \ {x})
    BY SumTakesOut
  <1> QED
    BY <1>1, <1>2, <1>3

\* What is less everywhere sums to less.
LEMMA SumLeq ==
    ASSUME NEW f, NEW g, NEW S, IsFiniteSet(S),
           \A x \in S : f[x] \in Int /\ g[x] \in Int /\ f[x] <= g[x]
    PROVE  SumFunctionOnSet(f, S) <= SumFunctionOnSet(g, S)
  <1> DEFINE C == {T \in SUBSET S : SumFunctionOnSet(f, T) <= SumFunctionOnSet(g, T)}
  <1>1. ASSUME NEW T \in SUBSET S, \A U \in SUBSET T : U # T => U \in C
        PROVE  T \in C
    <2>1. CASE T = {}
      <3>1. SumFunctionOnSet(f, T) = 0 /\ SumFunctionOnSet(g, T) = 0
        BY <2>1, SumEmpty
      <3> QED
        BY <3>1
    <2>2. CASE T # {}
      <3>1. PICK x : x \in T
        BY <2>2
      <3>2. T \ {x} \in C
        BY <1>1, <3>1
      <3>3. SumFunctionOnSet(f, T \ {x}) <= SumFunctionOnSet(g, T \ {x})
        BY <3>2
      <3>4. /\ SumFunctionOnSet(f, T) = f[x] + SumFunctionOnSet(f, T \ {x})
            /\ SumFunctionOnSet(g, T) = g[x] + SumFunctionOnSet(g, T \ {x})
        BY <3>1, SumTakesOut
      <3>5. /\ f[x] \in Int /\ g[x] \in Int /\ f[x] <= g[x]
            /\ SumFunctionOnSet(f, T \ {x}) \in Int /\ SumFunctionOnSet(g, T \ {x}) \in Int
        BY <3>1, SumType
      <3>6. SumFunctionOnSet(f, T) <= SumFunctionOnSet(g, T)
        BY <3>3, <3>4, <3>5
      <3> QED
        BY <3>6
    <2> QED
      BY <2>1, <2>2
  <1> HIDE DEF C
  <1>2. S \in C
    BY <1>1, SetInduction
  <1> QED
    BY <1>2 DEF C

\* What is equal on a set sums to the same.
LEMMA SumSame ==
    ASSUME NEW f, NEW g, NEW S, IsFiniteSet(S), \A x \in S : f[x] \in Int /\ f[x] = g[x]
    PROVE  SumFunctionOnSet(f, S) = SumFunctionOnSet(g, S)
  <1>1. /\ SumFunctionOnSet(f, S) <= SumFunctionOnSet(g, S)
        /\ SumFunctionOnSet(g, S) <= SumFunctionOnSet(f, S)
    BY SumLeq
  <1>2. SumFunctionOnSet(f, S) \in Int /\ SumFunctionOnSet(g, S) \in Int
    BY SumFacts
  <1> QED
    BY <1>1, <1>2

\* One value changes.
LEMMA SumUpdate ==
    ASSUME NEW f, NEW g, NEW S, IsFiniteSet(S), NEW x \in S,
           \A y \in S : f[y] \in Int, \A y \in S : g[y] \in Int,
           \A y \in S \ {x} : f[y] = g[y]
    PROVE  SumFunctionOnSet(g, S) = SumFunctionOnSet(f, S) - f[x] + g[x]
  <1>1. IsFiniteSet(S \ {x})
    BY FS_Subset
  <1>2. SumFunctionOnSet(f, S \ {x}) = SumFunctionOnSet(g, S \ {x})
    BY <1>1, SumSame
  <1>3. /\ SumFunctionOnSet(f, S) = f[x] + SumFunctionOnSet(f, S \ {x})
        /\ SumFunctionOnSet(f, S \ {x}) \in Int
    BY SumFacts
  <1>4. SumFunctionOnSet(g, S) = g[x] + SumFunctionOnSet(g, S \ {x})
    BY SumFacts
  <1> QED
    BY <1>2, <1>3, <1>4

\* What is not negative sums to no less over more.
LEMMA SumGrows ==
    ASSUME NEW f, NEW S, IsFiniteSet(S), \A x \in S : f[x] \in Nat
    PROVE  \A T \in SUBSET S : \A U \in SUBSET T :
               /\ SumFunctionOnSet(f, U) \in Nat /\ SumFunctionOnSet(f, T) \in Nat
               /\ SumFunctionOnSet(f, U) <= SumFunctionOnSet(f, T)
  <1> DEFINE C == {T \in SUBSET S : /\ SumFunctionOnSet(f, T) \in Nat
                                    /\ \A U \in SUBSET T :
                                         SumFunctionOnSet(f, U) <= SumFunctionOnSet(f, T)}
  <1>1. ASSUME NEW T \in SUBSET S, \A U \in SUBSET T : U # T => U \in C
        PROVE  T \in C
    <2>1. SumFunctionOnSet(f, T) \in Nat
      <3>1. CASE T = {}
        BY <3>1, SumEmpty
      <3>2. CASE T # {}
        <4>1. PICK x : x \in T
          BY <3>2
        <4>2. SumFunctionOnSet(f, T \ {x}) \in Nat
          BY <1>1, <4>1
        <4>3. SumFunctionOnSet(f, T) = f[x] + SumFunctionOnSet(f, T \ {x})
          BY <4>1, SumTakesOut
        <4> HIDE DEF C
        <4> QED
          BY <4>1, <4>2, <4>3
      <3> QED
        BY <3>1, <3>2
    <2>2. ASSUME NEW U \in SUBSET T PROVE SumFunctionOnSet(f, U) <= SumFunctionOnSet(f, T)
      <3>1. CASE U = T
        BY <2>1, <3>1
      <3>2. CASE U # T
        <4>1. PICK x : x \in T /\ x \notin U
          BY <3>2
        <4>2. T \ {x} \in C /\ U \in SUBSET (T \ {x}) /\ U \in C
          BY <1>1, <3>2, <4>1
        <4>3. /\ SumFunctionOnSet(f, U) <= SumFunctionOnSet(f, T \ {x})
              /\ SumFunctionOnSet(f, T \ {x}) \in Nat /\ SumFunctionOnSet(f, U) \in Nat
          BY <4>2
        <4>4. SumFunctionOnSet(f, T) = f[x] + SumFunctionOnSet(f, T \ {x})
          BY <4>1, SumTakesOut
        <4> HIDE DEF C
        <4> QED
          BY <4>1, <4>3, <4>4
      <3> QED
        BY <3>1, <3>2
    <2> QED
      BY <2>1, <2>2
  <1> HIDE DEF C
  <1>2. \A T \in SUBSET S : T \in C
    BY <1>1, SetInduction
  <1>3. ASSUME NEW T \in SUBSET S, NEW U \in SUBSET T
        PROVE  /\ SumFunctionOnSet(f, U) \in Nat /\ SumFunctionOnSet(f, T) \in Nat
               /\ SumFunctionOnSet(f, U) <= SumFunctionOnSet(f, T)
    BY <1>2 DEF C
  <1> QED
    BY <1>3

\* One element more.
LEMMA SumExtends ==
    ASSUME NEW f, NEW g, NEW S, IsFiniteSet(S), NEW x, x \notin S, g[x] \in Int,
           \A y \in S : f[y] \in Int /\ f[y] = g[y]
    PROVE  SumFunctionOnSet(g, S \cup {x}) = SumFunctionOnSet(f, S) + g[x]
  <1>1. IsFiniteSet(S \cup {x}) /\ (S \cup {x}) \ {x} = S
    BY FS_AddElement
  <1>2. \A y \in S \cup {x} : g[y] \in Int
    OBVIOUS
  <1>3. SumFunctionOnSet(g, S \cup {x}) = g[x] + SumFunctionOnSet(g, S)
    BY <1>1, <1>2, SumFacts
  <1>4. SumFunctionOnSet(f, S) = SumFunctionOnSet(g, S)
    BY SumSame
  <1>5. SumFunctionOnSet(f, S) \in Int
    BY SumFacts
  <1> QED
    BY <1>3, <1>4, <1>5

\* Zeros sum to zero.
LEMMA SumZero ==
    ASSUME NEW f, NEW S, IsFiniteSet(S), \A x \in S : f[x] = 0
    PROVE  SumFunctionOnSet(f, S) = 0
  <1> DEFINE C == {T \in SUBSET S : SumFunctionOnSet(f, T) = 0}
  <1>1. ASSUME NEW T \in SUBSET S, \A U \in SUBSET T : U # T => U \in C
        PROVE  T \in C
    <2>1. SumFunctionOnSet(f, T) =
              IF T = {} THEN 0 ELSE f[Pick(T)] + SumFunctionOnSet(f, T \ {Pick(T)})
      BY SumStep, FS_Subset
    <2>2. T # {} => f[Pick(T)] = 0 /\ SumFunctionOnSet(f, T \ {Pick(T)}) = 0
      BY <1>1, PickIn
    <2> QED
      BY <2>1, <2>2
  <1> HIDE DEF C
  <1>2. S \in C
    BY <1>1, SetInduction
  <1> QED
    BY <1>2 DEF C

-----------------------------------------------------------------------------
(* The limits. *)

\* The rows of corrections are finitely many, so the sums over them are sums.
LimitInv == IsFiniteSet(correction) /\ OnlySunkCostExceedsALimit

\* The sums are over finite sets.
LEMMA FiniteParts ==
    /\ IsFiniteSet(Key)
    /\ \A l \in Limit : IsFiniteSet(Scope[l]) /\ Scope[l] \subseteq Operation
    /\ \A keys \in SUBSET Key : IsFiniteSet(keys)
  <1>1. IsFiniteSet(Key)
    BY CostAssumption, FS_Product DEF Key
  <1>2. \A l \in Limit : IsFiniteSet(Scope[l]) /\ Scope[l] \subseteq Operation
    <2>1. \A l \in Limit : Scope[l] \in SUBSET Operation
      BY CostAssumption
    <2> QED
      BY <2>1, CostAssumption, FS_Subset
  <1>3. \A keys \in SUBSET Key : IsFiniteSet(keys)
    BY <1>1, FS_Subset
  <1> QED
    BY <1>1, <1>2, <1>3

\* Amounts are integers, those that are reserved or booked are not negative.
LEMMA Amounts ==
    ASSUME CostInv
    PROVE  /\ \A k \in Key : k[1] \in Operation /\ Estimate[k[2]] \in Nat
           /\ \A o \in Operation : actual[o] # None => actual[o].amount \in Nat
           /\ \A r \in correction : r.amount \in Int /\ r.operation \in Operation
  <1>1. ASSUME NEW k \in Key PROVE k[1] \in Operation /\ Estimate[k[2]] \in Nat
    BY CostAssumption DEF Key
  <1>2. ASSUME NEW o \in Operation, actual[o] # None PROVE actual[o].amount \in Nat
    <2>1. actual[o] \in Fact
      BY <1>2 DEF CostInv, CostTypeOK
    <2>2. actual[o].amount \in Amount
      BY <2>1 DEF Fact
    <2> QED
      BY <2>2, CostAssumption, Zenon
  <1>3. ASSUME NEW r \in correction PROVE r.amount \in Int /\ r.operation \in Operation
    BY DEF CostInv, CostTypeOK, Correction
  <1> QED
    BY <1>1, <1>2, <1>3

\* A surplus covers the difference.
LEMMA SurplusType ==
    \A a, b \in Int : Surplus(a, b) \in Nat /\ Surplus(a, b) >= a - b
  BY DEF Surplus

\* What a set of keys occupies.
LEMMA OccupiedFacts ==
    ASSUME CostInv, NEW keys \in SUBSET Key
    PROVE  /\ Occupied(keys) \in Nat
           /\ \A less \in SUBSET keys : Occupied(less) <= Occupied(keys)
           /\ \A k \in Key \ keys : Occupied(keys \cup {k}) = Occupied(keys) + Estimate[k[2]]
  <1> DEFINE f == [k \in Key |-> Estimate[k[2]]]
  <1>1. \A k \in Key : f[k] \in Nat /\ f[k] = Estimate[k[2]]
    BY Amounts
  <1> HIDE DEF f
  <1>2. \A s \in SUBSET Key : Occupied(s) = SumFunctionOnSet(f, s)
    BY DEF Occupied, f
  <1>3. \A s \in SUBSET Key : \A t \in SUBSET s :
            /\ SumFunctionOnSet(f, s) \in Nat
            /\ SumFunctionOnSet(f, t) <= SumFunctionOnSet(f, s)
    BY <1>1, FiniteParts, SumGrows
  <1>4. ASSUME NEW k \in Key \ keys
        PROVE  Occupied(keys \cup {k}) = Occupied(keys) + Estimate[k[2]]
    <2>1. IsFiniteSet(keys \cup {k}) /\ keys \cup {k} \in SUBSET Key
      BY FiniteParts
    <2>2. \A x \in keys \cup {k} : f[x] \in Int
      BY <1>1, <2>1
    <2>3. (keys \cup {k}) \ {k} = keys
      OBVIOUS
    <2>4. SumFunctionOnSet(f, keys \cup {k}) = f[k] + SumFunctionOnSet(f, keys)
      BY <2>1, <2>2, <2>3, SumFacts
    <2> QED
      BY <1>1, <1>2, <1>3, <2>1, <2>4
  <1> QED
    BY <1>2, <1>3, <1>4

\* Sums of corrections are integers, and so is what is spent.
LEMMA SpentFacts ==
    ASSUME CostInv, IsFiniteSet(correction)
    PROVE  /\ \A s : IsFiniteSet(Corrections(s))
           /\ \A o \in Operation : Corrected(o) \in Int /\ Charged(o) \in Int
           /\ \A l \in Limit : Spent(l) \in Int
  <1>1. \A s : IsFiniteSet(Corrections(s))
    BY FS_Subset DEF Corrections
  <1>2. ASSUME NEW o \in Operation PROVE Corrected(o) \in Int /\ Charged(o) \in Int
    <2> DEFINE f == [r \in Corrections({o}) |-> r.amount]
    <2>1. Corrections({o}) \subseteq correction
      BY DEF Corrections
    <2>2. \A r \in Corrections({o}) : f[r] \in Int
      BY <2>1, Amounts
    <2>3. DOMAIN f = Corrections({o})
      OBVIOUS
    <2> HIDE DEF f
    <2>4. SumFunctionOnSet(f, Corrections({o})) \in Int
      BY <1>1, <2>2, SumFacts
    <2>5. Corrected(o) \in Int
      BY <2>3, <2>4 DEF Corrected, SumFunction, f
    <2> QED
      BY <2>5, Amounts DEF Charged
  <1>3. ASSUME NEW l \in Limit PROVE Spent(l) \in Int
    <2> DEFINE f == [o \in Scope[l] |-> Charged(o)]
    <2>1. \A o \in Scope[l] : f[o] \in Int
      BY <1>2, FiniteParts
    <2>2. DOMAIN f = Scope[l]
      OBVIOUS
    <2> HIDE DEF f
    <2>3. SumFunctionOnSet(f, Scope[l]) \in Int
      BY <2>1, FiniteParts, SumFacts
    <2> QED
      BY <2>2, <2>3 DEF Spent, SumFunction, f
  <1> QED
    BY <1>1, <1>2, <1>3

SunkCosts(l) == SumFunction([k \in Committed(l) |-> Overrun(k)])

SunkCorrections(l) == SumFunction([r \in Corrections(Scope[l]) |-> Surplus(r.amount, 0)])

\* Sunk cost is not negative, and has two parts.
LEMMA SunkFacts ==
    ASSUME CostInv, IsFiniteSet(correction), NEW l \in Limit
    PROVE  /\ \A k \in Committed(l) : Overrun(k) \in Nat
           /\ SunkCosts(l) \in Nat /\ SunkCorrections(l) \in Nat
           /\ Sunk(l) = SunkCosts(l) + SunkCorrections(l)
  <1>1. ASSUME NEW k \in Committed(l) PROVE Overrun(k) \in Nat
    <2>1. k \in Key /\ reservation[k].status = "committed"
      BY DEF Committed
    <2>2. actual[k[1]].amount \in Int /\ Estimate[k[2]] \in Int
      BY <2>1, Amounts DEF CostInv, CommittedIsBooked
    <2> QED
      BY <2>2 DEF Overrun, Surplus
  <1>2. SunkCosts(l) \in Nat
    <2> DEFINE f == [k \in Committed(l) |-> Overrun(k)]
    <2>1. DOMAIN f = Committed(l) /\ \A k \in Committed(l) : f[k] \in Nat
      BY <1>1
    <2>2. IsFiniteSet(Committed(l))
      BY FiniteParts DEF Committed
    <2> HIDE DEF f
    <2>3. SumFunctionOnSet(f, Committed(l)) \in Nat
      BY <2>1, <2>2, SumGrows
    <2> QED
      BY <2>1, <2>3 DEF SunkCosts, SumFunction, f
  <1>3. SunkCorrections(l) \in Nat
    <2> DEFINE f == [r \in Corrections(Scope[l]) |-> Surplus(r.amount, 0)]
    <2>1. DOMAIN f = Corrections(Scope[l])
      OBVIOUS
    <2>2. \A r \in Corrections(Scope[l]) : f[r] \in Nat
      BY Amounts DEF Corrections, Surplus
    <2> HIDE DEF f
    <2>3. SumFunctionOnSet(f, Corrections(Scope[l])) \in Nat
      BY <2>2, SpentFacts, SumGrows
    <2> QED
      BY <2>1, <2>3 DEF SunkCorrections, SumFunction, f
  <1> QED
    BY <1>1, <1>2, <1>3 DEF Sunk, SunkCosts, SunkCorrections

Within(l) == Spent(l) + Occupied(Active(reservation, l)) <= Cap[l] + Sunk(l)

\* Costs of other scopes are not spent under l.
LEMMA SpentSame ==
    ASSUME NEW l \in Limit, UNCHANGED correction, \A o \in Scope[l] : actual'[o] = actual[o]
    PROVE  Spent(l)' = Spent(l) /\ SunkCorrections(l)' = SunkCorrections(l)
  <1>1. \A s : Corrections(s)' = Corrections(s)
    BY DEF Corrections
  <1>2. \A o \in Scope[l] : Charged(o)' = Charged(o)
    BY <1>1 DEF Charged, Corrected
  <1>3. [o \in Scope[l] |-> Charged(o)]' = [o \in Scope[l] |-> Charged(o)]
    BY <1>2
  <1>4. Spent(l)' = Spent(l)
    BY <1>3, Zenon DEF Spent
  <1>5. SunkCorrections(l)' = SunkCorrections(l)
    BY <1>1 DEF SunkCorrections
  <1> QED
    BY <1>4, <1>5

\* Nor are commits of other scopes sunk cost of l.
LEMMA SunkSame ==
    ASSUME NEW l \in Limit,
           \A k \in Key : k[1] \in Scope[l] =>
               /\ reservation'[k].status = "committed" <=> reservation[k].status = "committed"
               /\ reservation[k].status = "committed" =>
                      reservation'[k] = reservation[k] /\ actual'[k[1]] = actual[k[1]]
    PROVE  SunkCosts(l)' = SunkCosts(l)
  <1>1. Committed(l)' = Committed(l)
    BY DEF Committed
  <1>2. \A k \in Committed(l) : Overrun(k)' = Overrun(k)
    BY DEF Overrun, Committed
  <1>3. [k \in Committed(l) |-> Overrun(k)]' = [k \in Committed(l) |-> Overrun(k)]
    BY <1>1, <1>2
  <1> QED
    BY <1>3, Zenon DEF SunkCosts

\* A step that reserves nothing under l and books nothing.
LEMMA RowsWithin ==
    ASSUME CostInv, LimitInv, NEW l \in Limit, UNCHANGED <<actual, correction>>,
           \A k \in Key :
               /\ reservation'[k].status = "committed" <=> reservation[k].status = "committed"
               /\ reservation[k].status = "committed" => reservation'[k] = reservation[k],
           Active(reservation', l) \subseteq Active(reservation, l)
    PROVE  Within(l)'
  <1>1. /\ Spent(l)' = Spent(l) /\ SunkCorrections(l)' = SunkCorrections(l)
        /\ SunkCosts(l)' = SunkCosts(l)
    BY SpentSame, SunkSame
  <1>2. Sunk(l)' = Sunk(l)
    BY <1>1 DEF Sunk, SunkCosts, SunkCorrections
  <1>3. /\ Occupied(Active(reservation', l)) <= Occupied(Active(reservation, l))
        /\ Occupied(Active(reservation, l)) \in Nat
        /\ Occupied(Active(reservation', l)) \in Nat
    <2>1. Active(reservation, l) \in SUBSET Key /\ Active(reservation', l) \in SUBSET Key
      BY DEF Active
    <2> QED
      BY <2>1, OccupiedFacts
  <1>4. Spent(l) \in Int /\ Sunk(l) \in Nat /\ Cap[l] \in Nat
    BY SpentFacts, SunkFacts, CostAssumption DEF LimitInv
  <1>5. Within(l)
    BY DEF LimitInv, OnlySunkCostExceedsALimit, Within
  <1> QED
    BY <1>1, <1>2, <1>3, <1>4, <1>5 DEF Within

\* Marking as expired makes nothing active or committed.
LEMMA SweptStatus ==
    ASSUME CostInv, NEW gone \in SUBSET Lapsed, NEW j \in Key
    PROVE  /\ Swept(gone)[j].status = "active" => reservation[j].status = "active"
           /\ Swept(gone)[j].status = "committed" <=> reservation[j].status = "committed"
           /\ reservation[j].status = "committed" => Swept(gone)[j] = reservation[j]
  <1>1. CASE j \in gone
    <2>1. Swept(gone)[j].status = "expired"
      <3>1. Swept(gone)[j] = [reservation[j] EXCEPT !.status = "expired", !.lapsed = FALSE]
        BY <1>1 DEF Swept
      <3>2. reservation[j] \in Reservation
        BY DEF CostInv, CostTypeOK
      <3>3. [reservation[j] EXCEPT !.status = "expired", !.lapsed = FALSE].status = "expired"
        BY <3>2, SettledType
      <3> QED
        BY <3>1, <3>3, Zenon
    <2>2. reservation[j].status = "active"
      BY <1>1 DEF Lapsed, CostInv, CostTypeOK
    <2> QED
      BY <2>1, <2>2
  <1>2. CASE j \notin gone
    BY <1>2 DEF Swept
  <1> QED
    BY <1>1, <1>2

\* A reservation is granted within what is left after all that is spent and reserved.
LEMMA GrantWithin ==
    ASSUME CostInv, LimitInv, NEW k \in Key, Grant(k), NEW l \in Limit
    PROVE  Within(l)'
  <1>1. PICK gone \in SUBSET Lapsed :
            /\ PlatformAllows(Swept(gone), k)
            /\ Renewable(Swept(gone), k) /\ WithinLimits(Swept(gone), k)
            /\ reservation' = [Swept(gone) EXCEPT ![k] = Reserved]
            /\ UNCHANGED <<actual, correction>>
    BY DEF Grant
  <1> DEFINE rows == Swept(gone)
  <1>2. \A j \in Key : reservation'[j] = IF j = k THEN Reserved ELSE rows[j]
    BY <1>1 DEF Swept
  <1>3. \A j \in Key : /\ rows[j].status = "active" => reservation[j].status = "active"
                       /\ rows[j].status = "committed" <=> reservation[j].status = "committed"
                       /\ reservation[j].status = "committed" => rows[j] = reservation[j]
    BY SweptStatus
  <1>4. Reserved.status = "active" /\ rows[k].status \notin {"active", "committed"}
    BY <1>1 DEF Reserved, Renewable
  <1>5. \A j \in Key :
            /\ reservation'[j].status = "committed" <=> reservation[j].status = "committed"
            /\ reservation[j].status = "committed" => reservation'[j] = reservation[j]
    <2> HIDE DEF rows
    <2> QED
      BY <1>2, <1>3, <1>4
  <1>6. CASE k[1] \notin Scope[l]
    <2>1. Active(reservation', l) \subseteq Active(reservation, l)
      <3> HIDE DEF rows
      <3> QED
        BY <1>2, <1>3, <1>6 DEF Active
    <2> QED
      BY <1>1, <1>5, <2>1, RowsWithin
  <1>7. CASE k[1] \in Scope[l]
    <2> DEFINE taken == Active(rows, l)
    <2>1. k \notin taken /\ taken \in SUBSET Key
      BY <1>4 DEF Active
    <2>2. Active(reservation', l) = taken \cup {k}
      <3> HIDE DEF rows
      <3> QED
        BY <1>2, <1>4, <1>7 DEF Active
    <2>3. Spent(l) + Occupied(taken) + Estimate[k[2]] <= Cap[l]
      <3>1. CASE l = Platform
        BY <1>1, <3>1 DEF PlatformAllows
      <3>2. CASE l # Platform
        <4>1. Fits(rows, k, l)
          BY <1>1, <1>7, <3>2 DEF WithinLimits
        <4>2. taken \ {k} = taken
          BY <2>1
        <4> QED
          BY <4>1, <4>2 DEF Fits
      <3> QED
        BY <3>1, <3>2
    <2> HIDE DEF taken
    <2>4. Occupied(taken \cup {k}) = Occupied(taken) + Estimate[k[2]] /\ Occupied(taken) \in Nat
      BY <2>1, OccupiedFacts
    <2>5. /\ Spent(l)' = Spent(l) /\ SunkCorrections(l)' = SunkCorrections(l)
          /\ SunkCosts(l)' = SunkCosts(l)
      BY <1>1, <1>5, SpentSame, SunkSame
    <2>6. Sunk(l)' = Sunk(l)
      BY <2>5 DEF Sunk, SunkCosts, SunkCorrections
    <2>7. Spent(l) \in Int /\ Sunk(l) \in Nat /\ Cap[l] \in Nat /\ Estimate[k[2]] \in Nat
      BY SpentFacts, SunkFacts, Amounts, CostAssumption DEF LimitInv
    <2> QED
      BY <2>2, <2>3, <2>4, <2>5, <2>6, <2>7 DEF Within
  <1> QED
    BY <1>6, <1>7

\* Giving back, expiring and being handed what is there reserve nothing.
LEMMA ReleaseWithin ==
    ASSUME CostInv, LimitInv, NEW k \in Key, Rejoin(k) \/ Release(k) \/ Lapse(k),
           NEW l \in Limit
    PROVE  Within(l)'
  <1>t. reservation \in [Key -> Reservation] /\ \A j \in Key : reservation[j] \in Reservation
    BY DEF CostInv, CostTypeOK
  <1>1. CASE Rejoin(k)
    <2>1. PICK gone \in SUBSET Lapsed :
              reservation' = Swept(gone) /\ UNCHANGED <<actual, correction>>
      BY <1>1 DEF Rejoin
    <2>2. \A j \in Key :
              /\ reservation'[j].status = "active" => reservation[j].status = "active"
              /\ reservation'[j].status = "committed" <=> reservation[j].status = "committed"
              /\ reservation[j].status = "committed" => reservation'[j] = reservation[j]
      BY <2>1, SweptStatus
    <2>3. Active(reservation', l) \subseteq Active(reservation, l)
      BY <2>2 DEF Active
    <2> QED
      BY <2>1, <2>2, <2>3, RowsWithin
  <1>2. CASE Release(k)
    <2>1. /\ reservation[k].status # "committed" /\ UNCHANGED <<actual, correction>>
          /\ reservation' = [reservation EXCEPT ![k] =
                                [reservation[k] EXCEPT !.status = "released", !.lapsed = FALSE]]
      BY <1>t, <1>2 DEF Release
    <2>2. reservation'[k].status = "released"
      BY <1>t, <2>1, SettledType
    <2>3. \A j \in Key : j # k => reservation'[j] = reservation[j]
      BY <1>t, <2>1
    <2>4. Active(reservation', l) \subseteq Active(reservation, l)
      BY <2>2, <2>3 DEF Active
    <2>5. \A j \in Key :
              /\ reservation'[j].status = "committed" <=> reservation[j].status = "committed"
              /\ reservation[j].status = "committed" => reservation'[j] = reservation[j]
      BY <2>1, <2>2, <2>3, Zenon
    <2> QED
      BY <2>1, <2>4, <2>5, RowsWithin
  <1>3. CASE Lapse(k)
    <2>1. /\ reservation[k].status = "active" /\ UNCHANGED <<actual, correction>>
          /\ reservation' = [reservation EXCEPT ![k] = [reservation[k] EXCEPT !.lapsed = TRUE]]
      BY <1>t, <1>3 DEF Lapse
    <2>2. reservation'[k].status = "active"
      BY <1>t, <2>1, SettledType
    <2>3. \A j \in Key : j # k => reservation'[j] = reservation[j]
      BY <1>t, <2>1
    <2>4. Active(reservation', l) \subseteq Active(reservation, l)
      BY <2>1, <2>2, <2>3 DEF Active
    <2>5. \A j \in Key :
              /\ reservation'[j].status = "committed" <=> reservation[j].status = "committed"
              /\ reservation[j].status = "committed" => reservation'[j] = reservation[j]
      BY <2>1, <2>2, <2>3
    <2> QED
      BY <2>1, <2>4, <2>5, RowsWithin
  <1> QED
    BY <1>1, <1>2, <1>3

\* Only a first commit writes a row of the ledger, and the reservation with it.
LEMMA BookRows ==
    ASSUME CostInv, NEW k \in Key, NEW fact \in Fact, fact.candidate = k[2], Book(k, fact)
    PROVE  /\ UNCHANGED correction /\ actual[k[1]] = None /\ fact # None
           /\ \A o \in Operation : actual'[o] = IF o = k[1] THEN fact ELSE actual[o]
           /\ \A j \in Key : j # k => reservation'[j] = reservation[j]
           /\ reservation[k].status \in {"active", "expired"}
           /\ reservation'[k].status = "committed"
           /\ reservation'[k].late = (reservation[k].status = "expired")
  <1> DEFINE row == [reservation[k] EXCEPT !.late = (reservation[k].status = "expired"),
                                           !.status = "committed", !.lapsed = FALSE]
  <1>1. /\ reservation[k].status \in {"active", "expired"}
        /\ actual[k[1]] \in {None, fact}
        /\ actual' = [actual EXCEPT ![k[1]] = fact]
        /\ reservation' = [reservation EXCEPT ![k] = row]
        /\ UNCHANGED correction
    BY DEF Book, Open, Bookable, Settled
  <1>2. reservation[k] \in Reservation /\ reservation \in [Key -> Reservation]
        /\ actual \in [Operation -> Fact \cup {None}] /\ k[1] \in Operation
    BY DEF CostInv, CostTypeOK, Key
  <1>3. row.status = "committed" /\ row.late = (reservation[k].status = "expired")
    BY <1>2 DEF Reservation
  <1> HIDE DEF row
  <1>4. fact # None
    BY RowAssumption
  <1>5. actual[k[1]] = None
    BY <1>1, <1>4 DEF CostInv, CommittedIsBooked
  <1>6. \A o \in Operation : actual'[o] = IF o = k[1] THEN fact ELSE actual[o]
    BY <1>1, <1>2
  <1>7. \A j \in Key : j # k => reservation'[j] = reservation[j]
    BY <1>1, <1>2
  <1>8. reservation'[k] = row
    BY <1>1, <1>2
  <1> QED
    BY <1>1, <1>3, <1>4, <1>5, <1>6, <1>7, <1>8

\* What is booked is spent.
LEMMA BookSpends ==
    ASSUME CostInv, LimitInv, NEW l \in Limit,
           NEW k \in Key, NEW fact \in Fact, fact.candidate = k[2], Book(k, fact),
           k[1] \in Scope[l]
    PROVE  Spent(l)' = Spent(l) + fact.amount /\ SunkCorrections(l)' = SunkCorrections(l)
  <1> DEFINE f == [o \in Scope[l] |-> Charged(o)]
  <1> DEFINE g == [o \in Scope[l] |-> Charged(o)']
  <1>1. /\ UNCHANGED correction /\ actual[k[1]] = None /\ fact # None
        /\ \A o \in Operation : actual'[o] = IF o = k[1] THEN fact ELSE actual[o]
    BY BookRows
  <1>2. \A s : Corrections(s)' = Corrections(s)
    BY <1>1 DEF Corrections
  <1>3. \A o : Corrected(o)' = Corrected(o)
    BY <1>2 DEF Corrected
  <1>4. fact.amount \in Nat
    <2>1. fact.amount \in Amount
      BY DEF Fact
    <2> QED
      BY <2>1, CostAssumption, Zenon
  <1>5. \A o \in Scope[l] : o \in Operation /\ Corrected(o) \in Int /\ Charged(o) \in Int
    BY FiniteParts, SpentFacts DEF LimitInv
  <1>6. Charged(k[1]) = Corrected(k[1]) /\ Charged(k[1])' = fact.amount + Corrected(k[1])
    <2>1. Charged(k[1]) = 0 + Corrected(k[1])
      BY <1>1 DEF Charged
    <2>2. actual'[k[1]] = fact
      BY <1>1, <1>5
    <2>3. Charged(k[1])' = fact.amount + Corrected(k[1])
      BY <1>1, <1>3, <2>2 DEF Charged
    <2> QED
      BY <1>5, <2>1, <2>3
  <1>7. ASSUME NEW o \in Scope[l], o # k[1] PROVE Charged(o)' = Charged(o)
    <2>1. actual'[o] = actual[o]
      BY <1>1, <1>5, <1>7
    <2> QED
      BY <1>3, <2>1 DEF Charged
  <1>8. /\ \A o \in Scope[l] : f[o] \in Int
        /\ \A o \in Scope[l] : g[o] \in Int
        /\ \A o \in Scope[l] \ {k[1]} : f[o] = g[o]
        /\ f[k[1]] = Corrected(k[1]) /\ g[k[1]] = fact.amount + Corrected(k[1])
    BY <1>4, <1>5, <1>6, <1>7
  <1>9. Spent(l) = SumFunctionOnSet(f, Scope[l]) /\ Spent(l)' = SumFunctionOnSet(g, Scope[l])
    <2>1. DOMAIN f = Scope[l] /\ DOMAIN g = Scope[l]
      OBVIOUS
    <2>2. Spent(l) = SumFunction(f) /\ Spent(l)' = SumFunction(g)
      BY DEF Spent
    <2> HIDE DEF f, g
    <2> QED
      BY <2>1, <2>2, Zenon DEF SumFunction
  <1> HIDE DEF f, g
  <1>10. SumFunctionOnSet(g, Scope[l]) = SumFunctionOnSet(f, Scope[l]) - f[k[1]] + g[k[1]]
    BY <1>8, FiniteParts, SumUpdate
  <1>11. SumFunctionOnSet(f, Scope[l]) \in Int
    BY <1>8, FiniteParts, SumFacts
  <1>12. SunkCorrections(l)' = SunkCorrections(l)
    BY <1>2 DEF SunkCorrections
  <1> QED
    BY <1>4, <1>5, <1>8, <1>9, <1>10, <1>11, <1>12

\* And what of it had not been reserved is sunk.
LEMMA BookSinks ==
    ASSUME CostInv, LimitInv, NEW l \in Limit,
           NEW k \in Key, NEW fact \in Fact, fact.candidate = k[2], Book(k, fact),
           k[1] \in Scope[l]
    PROVE  SunkCosts(l)' = SunkCosts(l) +
               Surplus(fact.amount, IF reservation[k].status = "expired"
                                    THEN 0 ELSE Estimate[k[2]])
  <1> DEFINE f == [j \in Committed(l) |-> Overrun(j)]
  <1> DEFINE g == [j \in Committed(l)' |-> Overrun(j)']
  <1>1. /\ actual[k[1]] = None /\ fact # None
        /\ \A o \in Operation : actual'[o] = IF o = k[1] THEN fact ELSE actual[o]
        /\ \A j \in Key : j # k => reservation'[j] = reservation[j]
        /\ reservation[k].status \in {"active", "expired"}
        /\ reservation'[k].status = "committed"
        /\ reservation'[k].late = (reservation[k].status = "expired")
    BY BookRows
  <1>2. Committed(l)' = Committed(l) \cup {k} /\ k \notin Committed(l)
    BY <1>1 DEF Committed
  <1>3. \A j \in Key : j[1] \in Operation
    BY Amounts
  <1>4. ASSUME NEW j \in Committed(l) PROVE Overrun(j)' = Overrun(j)
    <2>1. j \in Key /\ j # k /\ j[1] # k[1]
      BY <1>1, <1>2 DEF Committed, CostInv, CommittedIsBooked
    <2>2. reservation'[j] = reservation[j] /\ actual'[j[1]] = actual[j[1]]
      BY <1>1, <1>3, <2>1
    <2> QED
      BY <2>2 DEF Overrun
  <1>5. Overrun(k)' = Surplus(fact.amount, IF reservation[k].status = "expired"
                                           THEN 0 ELSE Estimate[k[2]])
    <2>1. actual'[k[1]] = fact
      BY <1>1, <1>3
    <2> QED
      BY <1>1, <2>1 DEF Overrun
  <1>6. Overrun(k)' \in Int
    <2>1. fact.amount \in Amount
      BY DEF Fact
    <2>2. fact.amount \in Nat
      BY <2>1, CostAssumption, Zenon
    <2>3. Estimate[k[2]] \in Nat
      BY Amounts
    <2> QED
      BY <1>5, <2>2, <2>3 DEF Surplus
  <1>7. \A j \in Committed(l) : Overrun(j) \in Nat
    BY SunkFacts DEF LimitInv
  <1>8. /\ g[k] = Overrun(k)'
        /\ \A j \in Committed(l) : f[j] \in Int /\ f[j] = g[j]
    BY <1>2, <1>4, <1>7
  <1>9. /\ SunkCosts(l) = SumFunctionOnSet(f, Committed(l))
        /\ SunkCosts(l)' = SumFunctionOnSet(g, Committed(l) \cup {k})
    <2>1. DOMAIN f = Committed(l) /\ DOMAIN g = Committed(l) \cup {k}
      BY <1>2
    <2>2. SunkCosts(l) = SumFunction(f) /\ SunkCosts(l)' = SumFunction(g)
      BY DEF SunkCosts
    <2> HIDE DEF f, g
    <2> QED
      BY <2>1, <2>2, Zenon DEF SumFunction
  <1>10. IsFiniteSet(Committed(l))
    BY FiniteParts DEF Committed
  <1> HIDE DEF f, g
  <1>11. SumFunctionOnSet(g, Committed(l) \cup {k}) = SumFunctionOnSet(f, Committed(l)) + g[k]
    BY <1>2, <1>6, <1>8, <1>10, SumExtends
  <1> QED
    BY <1>5, <1>8, <1>9, <1>11

\* A commit moves what was reserved to what is spent; the rest of the cost is sunk, all of it
\* if the reservation had been marked expired.
LEMMA BookWithin ==
    ASSUME CostInv, LimitInv, NEW l \in Limit,
           NEW k \in Key, NEW fact \in Fact, fact.candidate = k[2], Book(k, fact)
    PROVE  Within(l)'
  <1>1. /\ UNCHANGED correction /\ actual[k[1]] = None
        /\ \A o \in Operation : actual'[o] = IF o = k[1] THEN fact ELSE actual[o]
        /\ \A j \in Key : j # k => reservation'[j] = reservation[j]
        /\ reservation[k].status \in {"active", "expired"}
        /\ reservation'[k].status = "committed"
    BY BookRows
  <1>2. Spent(l) \in Int /\ SunkCosts(l) \in Nat /\ SunkCorrections(l) \in Nat /\ Cap[l] \in Nat
    BY SpentFacts, SunkFacts, CostAssumption DEF LimitInv
  <1>3. Spent(l) + Occupied(Active(reservation, l)) <= Cap[l] + Sunk(l)
    BY DEF LimitInv, OnlySunkCostExceedsALimit
  <1>4. Sunk(l) = SunkCosts(l) + SunkCorrections(l)
        /\ Sunk(l)' = SunkCosts(l)' + SunkCorrections(l)'
    BY DEF Sunk, SunkCosts, SunkCorrections
  <1> DEFINE taken == Active(reservation', l)
  <1>5. taken \in SUBSET Key /\ k \notin taken
    BY <1>1 DEF Active
  <1>6. CASE k[1] \notin Scope[l]
    <2>1. taken = Active(reservation, l)
      BY <1>1, <1>6 DEF Active
    <2>2. \A o \in Scope[l] : actual'[o] = actual[o]
      BY <1>1, <1>6, FiniteParts
    <2>3. Spent(l)' = Spent(l) /\ SunkCorrections(l)' = SunkCorrections(l)
      BY <1>1, <2>2, SpentSame
    <2>4. SunkCosts(l)' = SunkCosts(l)
      <3>1. \A j \in Key : j[1] \in Scope[l] => j # k
        BY <1>6
      <3> QED
        BY <1>1, <2>2, <3>1, SunkSame
    <2> HIDE DEF taken
    <2>5. Spent(l)' + Occupied(taken) <= Cap[l] + Sunk(l)'
      BY <1>3, <1>4, <2>1, <2>3, <2>4
    <2> QED
      BY <2>5 DEF taken, Within
  <1>7. CASE k[1] \in Scope[l]
    <2> DEFINE held == IF reservation[k].status = "expired" THEN 0 ELSE Estimate[k[2]]
    <2>1. Occupied(Active(reservation, l)) = Occupied(taken) + held /\ Occupied(taken) \in Nat
      <3>1. CASE reservation[k].status = "active"
        <4>1. Active(reservation, l) = taken \cup {k}
          BY <1>1, <1>7, <3>1 DEF Active
        <4> HIDE DEF taken
        <4> QED
          BY <1>5, <3>1, <4>1, OccupiedFacts
      <3>2. CASE reservation[k].status = "expired"
        <4>1. Active(reservation, l) = taken
          BY <1>1, <3>2 DEF Active
        <4> HIDE DEF taken
        <4>2. Occupied(taken) \in Nat
          BY <1>5, OccupiedFacts
        <4> QED
          BY <3>2, <4>1, <4>2
      <3> QED
        BY <1>1, <3>1, <3>2
    <2>2. Spent(l)' = Spent(l) + fact.amount /\ SunkCorrections(l)' = SunkCorrections(l)
      BY <1>7, BookSpends
    <2>3. SunkCosts(l)' = SunkCosts(l) + Surplus(fact.amount, held)
      BY <1>7, BookSinks
    <2>4. fact.amount \in Nat /\ held \in Nat
      <3>1. fact.amount \in Amount
        BY DEF Fact
      <3>2. fact.amount \in Nat
        BY <3>1, CostAssumption, Zenon
      <3> QED
        BY <3>2, Amounts
    <2> HIDE DEF taken, held
    <2>5. /\ Surplus(fact.amount, held) \in Nat
          /\ Surplus(fact.amount, held) >= fact.amount - held
      BY <2>4 DEF Surplus
    <2>6. Spent(l)' + Occupied(taken) <= Cap[l] + Sunk(l)'
      BY <1>2, <1>3, <1>4, <2>1, <2>2, <2>3, <2>4, <2>5
    <2> QED
      BY <2>6 DEF taken, Within
  <1> QED
    BY <1>6, <1>7

\* A correction is spent under the limits of its operation, and upwards it is sunk.
LEMMA CorrectWithin ==
    ASSUME CostInv, CostInv', LimitInv, NEW row \in Correction, Correct(row), NEW l \in Limit
    PROVE  IsFiniteSet(correction)' /\ Within(l)'
  <1> DEFINE o == row.operation
  <1>1. /\ row \notin correction /\ correction' = correction \cup {row}
        /\ UNCHANGED <<reservation, actual>>
    BY DEF Correct, Recorded
  <1>2. IsFiniteSet(correction) /\ IsFiniteSet(correction')
    BY <1>1, FS_AddElement DEF LimitInv
  <1>3. row.amount \in Int /\ o \in Operation
    BY DEF Correction
  <1>4. \A s : IF o \in s
               THEN Corrections(s)' = Corrections(s) \cup {row} /\ row \notin Corrections(s)
               ELSE Corrections(s)' = Corrections(s)
    BY <1>1 DEF Corrections
  <1>5. SunkCosts(l)' = SunkCosts(l)
    BY <1>1, SunkSame
  <1>6. Spent(l) \in Int /\ SunkCosts(l) \in Nat /\ SunkCorrections(l) \in Nat /\ Cap[l] \in Nat
    BY SpentFacts, SunkFacts, CostAssumption DEF LimitInv
  <1>7. /\ Spent(l) + Occupied(Active(reservation, l)) <= Cap[l] + Sunk(l)
        /\ Occupied(Active(reservation, l)) \in Nat
        /\ Active(reservation', l) = Active(reservation, l)
    <2>1. Active(reservation, l) \in SUBSET Key
      BY DEF Active
    <2> QED
      BY <1>1, <2>1, OccupiedFacts DEF LimitInv, OnlySunkCostExceedsALimit
  <1>8. Sunk(l) = SunkCosts(l) + SunkCorrections(l)
        /\ Sunk(l)' = SunkCosts(l)' + SunkCorrections(l)'
    BY DEF Sunk, SunkCosts, SunkCorrections
  <1>9. \A p \in Operation : p # o => Charged(p)' = Charged(p)
    <2> HIDE DEF o
    <2>1. \A p \in Operation : p # o => Corrections({p})' = Corrections({p})
      BY <1>4
    <2> QED
      BY <1>1, <2>1 DEF Charged, Corrected
  <1>10. CASE o \notin Scope[l]
    <2> DEFINE f == [p \in Scope[l] |-> Charged(p)]
    <2> DEFINE g == [p \in Scope[l] |-> Charged(p)']
    <2>1. \A p \in Scope[l] : p \in Operation /\ p # o
      BY <1>10, FiniteParts
    <2>2. f = g
      BY <1>9, <2>1
    <2>3. Spent(l)' = Spent(l)
      BY <2>2, Zenon DEF Spent
    <2>4. SunkCorrections(l)' = SunkCorrections(l)
      <3>1. Corrections(Scope[l])' = Corrections(Scope[l])
        BY <1>4, <1>10
      <3> QED
        BY <3>1 DEF SunkCorrections
    <2> QED
      BY <1>2, <1>5, <1>7, <1>8, <2>3, <2>4 DEF Within
  <1>11. CASE o \in Scope[l]
    <2>1. Corrected(o)' = Corrected(o) + row.amount /\ Corrected(o) \in Int
      <3> DEFINE s == Corrections({o})
      <3> DEFINE f == [r \in s |-> r.amount]
      <3> DEFINE g == [r \in s' |-> r.amount]
      <3>1. s' = s \cup {row} /\ row \notin s
        BY <1>4
      <3>2. \A r \in s : r.amount \in Int
        BY Amounts DEF Corrections
      <3>3. /\ g[row] = row.amount
            /\ \A r \in s : f[r] \in Int /\ f[r] = g[r]
        BY <3>1, <3>2
      <3>4. /\ Corrected(o) = SumFunctionOnSet(f, s)
            /\ Corrected(o)' = SumFunctionOnSet(g, s \cup {row})
        <4>1. DOMAIN f = s /\ DOMAIN g = s \cup {row}
          BY <3>1
        <4>2. Corrected(o) = SumFunction(f) /\ Corrected(o)' = SumFunction(g)
          BY DEF Corrected
        <4> HIDE DEF f, g, s
        <4> QED
          BY <4>1, <4>2, Zenon DEF SumFunction
      <3>5. IsFiniteSet(s) /\ Corrected(o) \in Int
        BY <1>2, <1>3, SpentFacts
      <3>6. g[row] \in Int
        BY <1>3, <3>3
      <3> HIDE DEF f, g, s
      <3>7. SumFunctionOnSet(g, s \cup {row}) = SumFunctionOnSet(f, s) + g[row]
        BY <3>1, <3>3, <3>5, <3>6, SumExtends
      <3> QED
        BY <3>3, <3>4, <3>5, <3>7
    <2>2. Charged(o)' = Charged(o) + row.amount
      <3> DEFINE paid == IF actual[o] = None THEN 0 ELSE actual[o].amount
      <3>1. paid \in Int
        BY <1>3, Amounts
      <3>2. Charged(o) = paid + Corrected(o) /\ Charged(o)' = paid + Corrected(o)'
        BY <1>1 DEF Charged
      <3> HIDE DEF paid
      <3> QED
        BY <1>3, <2>1, <3>1, <3>2
    <2>3. Spent(l)' = Spent(l) + row.amount
      <3> DEFINE f == [p \in Scope[l] |-> Charged(p)]
      <3> DEFINE g == [p \in Scope[l] |-> Charged(p)']
      <3>1. \A p \in Scope[l] : p \in Operation /\ Charged(p) \in Int
        BY <1>2, FiniteParts, SpentFacts
      <3>2. /\ \A p \in Scope[l] : f[p] \in Int
            /\ \A p \in Scope[l] \ {o} : f[p] = g[p]
            /\ g[o] = f[o] + row.amount
        BY <1>9, <1>11, <2>2, <3>1
      <3>3. \A p \in Scope[l] : g[p] \in Int
        <4> HIDE DEF f, g, o
        <4> QED
          BY <1>3, <1>11, <3>2
      <3>4. Spent(l) = SumFunctionOnSet(f, Scope[l]) /\ Spent(l)' = SumFunctionOnSet(g, Scope[l])
        <4>1. DOMAIN f = Scope[l] /\ DOMAIN g = Scope[l]
          OBVIOUS
        <4>2. Spent(l) = SumFunction(f) /\ Spent(l)' = SumFunction(g)
          BY DEF Spent
        <4> HIDE DEF f, g
        <4> QED
          BY <4>1, <4>2, Zenon DEF SumFunction
      <3> HIDE DEF f, g
      <3>5. SumFunctionOnSet(g, Scope[l]) = SumFunctionOnSet(f, Scope[l]) - f[o] + g[o]
        BY <1>11, <3>2, <3>3, FiniteParts, SumUpdate
      <3> QED
        BY <1>3, <1>6, <1>11, <3>2, <3>4, <3>5
    <2>4. SunkCorrections(l)' = SunkCorrections(l) + Surplus(row.amount, 0)
      <3> DEFINE s == Corrections(Scope[l])
      <3> DEFINE f == [r \in s |-> Surplus(r.amount, 0)]
      <3> DEFINE g == [r \in s' |-> Surplus(r.amount, 0)]
      <3>1. s' = s \cup {row} /\ row \notin s
        BY <1>4, <1>11
      <3>2. \A r \in s \cup {row} : Surplus(r.amount, 0) \in Int
        BY <1>3, Amounts DEF Corrections, Surplus
      <3>3. /\ g[row] = Surplus(row.amount, 0)
            /\ \A r \in s : f[r] \in Int /\ f[r] = g[r]
        BY <3>1, <3>2
      <3>4. /\ SunkCorrections(l) = SumFunctionOnSet(f, s)
            /\ SunkCorrections(l)' = SumFunctionOnSet(g, s \cup {row})
        <4>1. DOMAIN f = s /\ DOMAIN g = s \cup {row}
          BY <3>1
        <4>2. SunkCorrections(l) = SumFunction(f) /\ SunkCorrections(l)' = SumFunction(g)
          BY DEF SunkCorrections
        <4> HIDE DEF f, g, s
        <4> QED
          BY <4>1, <4>2, Zenon DEF SumFunction
      <3>5. IsFiniteSet(s)
        BY <1>2, SpentFacts
      <3>6. g[row] \in Int
        BY <3>2, <3>3
      <3> HIDE DEF f, g, s
      <3>7. SumFunctionOnSet(g, s \cup {row}) = SumFunctionOnSet(f, s) + g[row]
        BY <3>1, <3>3, <3>5, <3>6, SumExtends
      <3> QED
        BY <3>3, <3>4, <3>7
    <2>5. Surplus(row.amount, 0) \in Nat /\ Surplus(row.amount, 0) >= row.amount
      BY <1>3 DEF Surplus
    <2> HIDE DEF o
    <2>6. Spent(l)' + Occupied(Active(reservation', l)) <= Cap[l] + Sunk(l)'
      BY <1>3, <1>5, <1>6, <1>7, <1>8, <2>3, <2>4, <2>5
    <2> QED
      BY <1>2, <2>6 DEF Within
  <1> QED
    BY <1>10, <1>11

\* A step of somebody else.
LEMMA LimitStutter ==
    ASSUME LimitInv, UNCHANGED costs
    PROVE  LimitInv'
  <1>1. UNCHANGED <<reservation, actual, correction>>
    BY DEF costs
  <1>2. \A s : Corrections(s)' = Corrections(s)
    BY <1>1 DEF Corrections
  <1>3. ASSUME NEW l \in Limit PROVE Within(l)' = Within(l)
    <2>1. Spent(l)' = Spent(l) /\ SunkCorrections(l)' = SunkCorrections(l)
          /\ SunkCosts(l)' = SunkCosts(l)
      BY <1>1, SpentSame, SunkSame
    <2> QED
      BY <1>1, <2>1 DEF Within, Sunk, SunkCosts, SunkCorrections
  <1> QED
    BY <1>1, <1>3 DEF LimitInv, OnlySunkCostExceedsALimit, Within

\* Every step of the gateway keeps every limit.
LEMMA LimitStep ==
    ASSUME CostInv, CostInv', LimitInv, CostNext
    PROVE  LimitInv'
  <1>a. ASSUME UNCHANGED correction, \A l \in Limit : Within(l)' PROVE LimitInv'
    BY <1>a DEF LimitInv, OnlySunkCostExceedsALimit, Within
  <1>b. ASSUME NEW row \in Correction, Correct(row) PROVE LimitInv'
    <2>1. Limit # {}
      BY CostAssumption
    <2>2. \A l \in Limit : IsFiniteSet(correction)' /\ Within(l)'
      BY <1>b, CorrectWithin
    <2> QED
      BY <2>1, <2>2 DEF LimitInv, OnlySunkCostExceedsALimit, Within
  <1>1. ASSUME NEW k \in Key, Reserve(k) \/ Release(k) \/ Lapse(k) PROVE LimitInv'
    <2>1. \A l \in Limit : Within(l)'
      BY <1>1, GrantWithin, ReleaseWithin DEF Reserve
    <2>2. UNCHANGED correction
      BY <1>1, ReserveStep, ReleaseStep
    <2> QED
      BY <1>a, <2>1, <2>2
  <1>2. ASSUME NEW k \in Key, NEW fact \in Fact, fact.candidate = k[2], Commit(k, fact)
        PROVE  LimitInv'
    <2>1. CASE Book(k, fact)
      <3>1. \A l \in Limit : Within(l)'
        BY <1>2, <2>1, BookWithin
      <3> QED
        BY <1>a, <2>1, <3>1 DEF Book
    <2>2. CASE Rebook(k, fact)
      BY <2>2, LimitStutter DEF Rebook
    <2> QED
      BY <1>2, <2>1, <2>2 DEF Commit
  <1>3. ASSUME NEW o \in Operation, NEW key \in CorrectionKey, NEW delta \in Delta,
               RecordAdjustment(o, key, delta)
        PROVE  LimitInv'
    <2>1. [operation |-> o, type |-> "adjustment", key |-> key,
           target |-> None, amount |-> delta] \in Correction
      BY CostAssumption DEF Correction
    <2> QED
      BY <1>3, <1>b, <2>1 DEF RecordAdjustment
  <1>4. ASSUME NEW o \in Operation, NEW key \in CorrectionKey, ReverseActual(o, key)
        PROVE  LimitInv'
    <2>1. actual[o].amount \in Int
      BY <1>4, Amounts DEF ReverseActual
    <2>2. [operation |-> o, type |-> "reversal", key |-> key,
           target |-> None, amount |-> -actual[o].amount] \in Correction
      BY <2>1 DEF Correction
    <2> QED
      BY <1>4, <1>b, <2>2 DEF ReverseActual
  <1>5. ASSUME NEW o \in Operation, NEW key \in CorrectionKey, ReverseAdjustment(o, key)
        PROVE  LimitInv'
    <2>1. PICK r \in correction :
              /\ r.operation = o /\ r.type = "adjustment"
              /\ Correct([operation |-> o, type |-> "reversal", key |-> key,
                          target |-> r.key, amount |-> -r.amount])
      BY <1>5 DEF ReverseAdjustment
    <2>2. r.key \in CorrectionKey /\ r.amount \in Int
      BY DEF CostInv, CostTypeOK, Correction
    <2>3. [operation |-> o, type |-> "reversal", key |-> key,
           target |-> r.key, amount |-> -r.amount] \in Correction
      BY <2>2 DEF Correction
    <2> QED
      BY <1>b, <2>1, <2>3
  <1> QED
    BY <1>1, <1>2, <1>3, <1>4, <1>5 DEF CostNext

\* Nothing is spent, reserved or sunk yet, and no limit is negative.
LEMMA LimitStart ==
    ASSUME CostInit
    PROVE  LimitInv
  <1>1. CostInv
    BY CostStart
  <1>2. IsFiniteSet(correction)
    BY FS_EmptySet DEF CostInit
  <1>3. ASSUME NEW l \in Limit
        PROVE  Spent(l) + Occupied(Active(reservation, l)) <= Cap[l] + Sunk(l)
    <2>1. Active(reservation, l) = {}
      BY DEF CostInit, NoReservation, Active
    <2>2. Occupied({}) = 0
      BY SumEmpty DEF Occupied
    <2>3. ASSUME NEW o \in Operation PROVE Charged(o) = 0
      <3>1. Corrections({o}) = {}
        BY DEF CostInit, Corrections
      <3>2. DOMAIN [r \in Corrections({o}) |-> r.amount] = {}
        BY <3>1
      <3>3. Corrected(o) = 0
        BY <3>2, SumEmpty DEF Corrected, SumFunction
      <3> QED
        BY <3>3 DEF CostInit, Charged
    <2>4. Spent(l) = 0
      <3> DEFINE f == [o \in Scope[l] |-> Charged(o)]
      <3> DEFINE none == [o \in Scope[l] |-> 0]
      <3>1. f = none
        BY <2>3, FiniteParts
      <3>2. DOMAIN none = Scope[l] /\ \A o \in Scope[l] : none[o] = 0
        OBVIOUS
      <3>3. Spent(l) = SumFunctionOnSet(none, Scope[l])
        BY <3>1, <3>2, Zenon DEF Spent, SumFunction
      <3> HIDE DEF none
      <3>4. SumFunctionOnSet(none, Scope[l]) = 0
        BY <3>2, FiniteParts, SumZero
      <3> QED
        BY <3>3, <3>4
    <2>5. Sunk(l) \in Nat /\ Cap[l] \in Nat
      <3>1. SunkCosts(l) \in Nat /\ SunkCorrections(l) \in Nat
            /\ Sunk(l) = SunkCosts(l) + SunkCorrections(l)
        BY <1>1, <1>2, SunkFacts
      <3> QED
        BY <3>1, CostAssumption
    <2> QED
      BY <2>1, <2>2, <2>4, <2>5
  <1> QED
    BY <1>2, <1>3 DEF LimitInv, OnlySunkCostExceedsALimit

-----------------------------------------------------------------------------
\* No limit is exceeded but by sunk cost, for any number of operations, candidates, limits
\* and corrections: what is reserved is bounded by what the limit leaves when it is granted,
\* and every later step moves an amount from what is reserved to what is spent, gives it
\* back, or sinks it.
THEOREM LimitsHold == CostSpec => []OnlySunkCostExceedsALimit
  <1>1. CostInv /\ CostInv' /\ LimitInv /\ [CostNext]_costs => LimitInv'
    BY LimitStep, LimitStutter
  <1>2. LimitInv => OnlySunkCostExceedsALimit
    BY DEF LimitInv
  <1> QED
    BY LimitStart, <1>1, <1>2, CostInvariant, PTL DEF CostSpec
=============================================================================
