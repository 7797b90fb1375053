------------------------- MODULE EventRuntimeProofs -------------------------
(***************************************************************************)
(* Proofs about EventRuntime, for any events, consumers, processes,        *)
(* dispatchers and operators, batch limit and bounds.                      *)
(***************************************************************************)
EXTENDS EventRuntime, SequenceTheorems, TLAPS

\* Dispatchers lock unpublished rows, each for itself, and mark what they have tried.
Locks ==
    \A d \in Dispatchers :
        /\ \A e \in dispatcher[d].batch : outbox[e].state = "unpublished"
        /\ dispatcher[d].tried \subseteq dispatcher[d].batch
        /\ dispatcher[d].sent \subseteq dispatcher[d].tried
        /\ \A b \in Dispatchers \ {d} : dispatcher[d].batch \cap dispatcher[b].batch = {}

\* An event counts as sent once it is marked, in an open transaction or for good.
Out(e) == outbox[e].state = "published" \/ \E d \in Dispatchers : e \in dispatcher[d].sent
SentAccount == \A e \in Events : history.sent[e] = history.cut[e] + (IF Out(e) THEN 1 ELSE 0)

OutboxInv == Locks /\ SentAccount /\ AttemptsAreEvidence

\* Of the processes of a consumer, one at most handles an event, and only before its inbox row.
Handlers ==
    \A p \in Processes :
        /\ At(p, "handling") => Key(p) \notin inbox
        /\ At(p, "handling") => \A q \in Processes \ {p} : At(q, "handling") => Key(q) # Key(p)
        /\ At(p, "answered") => Key(p) \in inbox

InboxInv == Handlers /\ HandledOnce

\* Operators replay letters that were not replayed, each its own.
Replays ==
    \A o \in Operators : operator[o].pc # "idle" =>
        /\ operator[o].letter \in DOMAIN letters
        /\ ~letters[operator[o].letter].replayed
        /\ \A q \in Operators \ {o} :
              operator[q].pc # "idle" => operator[q].letter # operator[o].letter

Sending(i) == \E o \in Operators : operator[o].pc = "sent" /\ operator[o].letter = i
LetterAccount ==
    \A i \in DOMAIN letters :
        letters[i].sends = letters[i].cuts + (IF letters[i].replayed \/ Sending(i) THEN 1 ELSE 0)

LettersInv == Replays /\ LetterAccount

\* What is out can be traced at every consumer, before the mark is committed, too.
Traced == \A e \in Events, c \in Consumers : Out(e) => Traceable(c, e)

\* What was raised has a name.
Blamed == \A p \in Processes : At(p, "raised") => process[p].error # "none"

Typed == TypeOK /\ Blamed
Inv == Typed /\ OutboxInv /\ InboxInv /\ LettersInv /\ Traced

-----------------------------------------------------------------------------
(* Types. *)

\* The records and counters that the actions write have their types.
LEMMA RecordTypes ==
    ASSUME TypeOK
    PROVE  /\ Closed \in Transaction
           /\ Idle \in ProcessState
           /\ Off \in OperatorState
           /\ \A e \in Events : Published(e) \in [Consumers -> [Events -> Nat]]
           /\ \A p \in Processes : Requeued(p) \in [Consumers -> [Events -> Nat]]
           /\ \A f \in [Events -> Nat], S \in SUBSET Events : Count(f, S) \in [Events -> Nat]
<1>1. Closed \in Transaction
  BY DEF Closed, Transaction
<1>2. Idle \in ProcessState
  <2>1. \E e \in Events : TRUE
    BY EventsAssumption
  <2>2. (CHOOSE e \in Events : TRUE) \in Events
    BY <2>1
  <2> QED BY <2>2 DEF Idle, ProcessState
<1>3. Off \in OperatorState
  BY DEF Off, OperatorState
<1>4. \A e \in Events : Published(e) \in [Consumers -> [Events -> Nat]]
  BY DEF TypeOK, Published
<1>5. \A p \in Processes : Requeued(p) \in [Consumers -> [Events -> Nat]]
  <2> TAKE p \in Processes
  <2>1. ConsumerOf[p] \in Consumers
    BY EventsAssumption
  <2>2. process[p].event \in Events /\ queue \in [Consumers -> [Events -> Nat]]
    BY DEF TypeOK, ProcessState
  <2>3. queue[ConsumerOf[p]][process[p].event] + 1 \in Nat
    BY <2>1, <2>2
  <2> QED BY <2>1, <2>2, <2>3 DEF Requeued
<1>6. \A f \in [Events -> Nat], S \in SUBSET Events : Count(f, S) \in [Events -> Nat]
  BY DEF Count
<1> QED BY <1>1, <1>2, <1>3, <1>4, <1>5, <1>6

\* The counters of the history keep their types.
LEMMA HistoryTypes ==
    ASSUME TypeOK
    PROVE  /\ \A e \in Events :
                 /\ [history EXCEPT !.sent[e] = @ + 1] \in HistoryType
                 /\ [history EXCEPT !.sent[e] = @ + 1, !.cut[e] = @ + 1] \in HistoryType
           /\ \A S \in SUBSET Events :
                 /\ [history EXCEPT !.raised = Count(@, S)] \in HistoryType
                 /\ [history EXCEPT !.cut = Count(@, S)] \in HistoryType
           /\ \A c \in Consumers, e \in Events :
                 [history EXCEPT !.effects[c][e] = @ + 1] \in HistoryType
<1>1. /\ history \in HistoryType
      /\ history.sent \in [Events -> Nat] /\ history.cut \in [Events -> Nat]
      /\ history.raised \in [Events -> Nat]
      /\ history.effects \in [Consumers -> [Events -> Nat]]
  BY DEF TypeOK, HistoryType
<1>2. ASSUME NEW e \in Events
      PROVE  /\ [history EXCEPT !.sent[e] = @ + 1] \in HistoryType
             /\ [history EXCEPT !.sent[e] = @ + 1, !.cut[e] = @ + 1] \in HistoryType
  <2>1. /\ [history.sent EXCEPT ![e] = @ + 1] \in [Events -> Nat]
        /\ [history.cut EXCEPT ![e] = @ + 1] \in [Events -> Nat]
    BY <1>1
  <2>2. \A f, g \in [Events -> Nat] : /\ [history EXCEPT !.sent = f] \in HistoryType
                                      /\ [history EXCEPT !.sent = f, !.cut = g] \in HistoryType
    BY <1>1 DEF HistoryType
  <2>3. /\ [history EXCEPT !.sent[e] = @ + 1]
             = [history EXCEPT !.sent = [history.sent EXCEPT ![e] = @ + 1]]
        /\ [history EXCEPT !.sent[e] = @ + 1, !.cut[e] = @ + 1]
             = [history EXCEPT !.sent = [history.sent EXCEPT ![e] = @ + 1],
                               !.cut = [history.cut EXCEPT ![e] = @ + 1]]
    BY <1>1 DEF HistoryType
  <2> QED BY <2>1, <2>2, <2>3
<1>3. ASSUME NEW S \in SUBSET Events
      PROVE  /\ [history EXCEPT !.raised = Count(@, S)] \in HistoryType
             /\ [history EXCEPT !.cut = Count(@, S)] \in HistoryType
  <2>1. Count(history.raised, S) \in [Events -> Nat] /\ Count(history.cut, S) \in [Events -> Nat]
    BY <1>1, RecordTypes
  <2> QED BY <1>1, <2>1 DEF HistoryType
<1>4. ASSUME NEW c \in Consumers, NEW e \in Events
      PROVE  [history EXCEPT !.effects[c][e] = @ + 1] \in HistoryType
  <2>1. [history.effects EXCEPT ![c][e] = @ + 1] \in [Consumers -> [Events -> Nat]]
    <3>1. history.effects[c] \in [Events -> Nat]
      BY <1>1
    <3>2. [history.effects[c] EXCEPT ![e] = @ + 1] \in [Events -> Nat]
      BY <3>1
    <3> QED BY <1>1, <3>2
  <2>2. \A f \in [Consumers -> [Events -> Nat]] : [history EXCEPT !.effects = f] \in HistoryType
    BY <1>1 DEF HistoryType
  <2>3. [history EXCEPT !.effects[c][e] = @ + 1]
          = [history EXCEPT !.effects = [history.effects EXCEPT ![c][e] = @ + 1]]
    BY <1>1 DEF HistoryType
  <2> QED BY <2>1, <2>2, <2>3
<1> QED BY <1>1, <1>2, <1>3, <1>4

\* The bounds keep their type.
LEMMA BoundsTypes ==
    ASSUME TypeOK, Fault \/ Crash
    PROVE  bounds' \in [replays : 0 .. MaxReplays, faults : 0 .. MaxFaults,
                        crashes : 0 .. MaxCrashes]
<1>1. /\ bounds \in [replays : 0 .. MaxReplays, faults : 0 .. MaxFaults, crashes : 0 .. MaxCrashes]
      /\ MaxFaults \in Nat /\ MaxCrashes \in Nat
  BY EventsAssumption DEF TypeOK
<1>2. CASE Fault
  <2>1. bounds.faults + 1 \in 0 .. MaxFaults
    BY <1>1, <1>2 DEF Fault
  <2> QED BY <1>1, <1>2, <2>1 DEF Fault
<1>3. CASE Crash
  <2>1. bounds.crashes + 1 \in 0 .. MaxCrashes
    BY <1>1, <1>3 DEF Crash
  <2> QED BY <1>1, <1>3, <2>1 DEF Crash
<1> QED BY <1>2, <1>3

\* The effect of an event is committed with its inbox row.
LEMMA EffectTypes ==
    ASSUME TypeOK, NEW p \in Processes, Effect(p)
    PROVE  inbox' \subseteq Consumers \X Events /\ history' \in HistoryType
<1>1. ConsumerOf[p] \in Consumers /\ process[p].event \in Events
  BY EventsAssumption DEF TypeOK, ProcessState
<1>2. inbox' \subseteq Consumers \X Events
  BY <1>1 DEF Effect, TypeOK, Key
<1>3. [history EXCEPT !.effects[ConsumerOf[p]][process[p].event] = @ + 1] \in HistoryType
  BY <1>1, HistoryTypes
<1> QED BY <1>2, <1>3 DEF Effect

\* The places of letters, and what an update of one of them leaves alone.
LEMMA LetterUpdates ==
    ASSUME TypeOK, NEW i \in DOMAIN letters, NEW r \in Letter
    PROVE  /\ DOMAIN letters = 1 .. Len(letters)
           /\ letters[i] \in Letter
           /\ [letters EXCEPT ![i] = r] \in Seq(Letter)
           /\ DOMAIN [letters EXCEPT ![i] = r] = DOMAIN letters
<1>1. letters \in Seq(Letter)
  BY DEF TypeOK
<1>2. DOMAIN letters = 1 .. Len(letters) /\ letters[i] \in Letter
  BY <1>1
<1>3. [letters EXCEPT ![i] = r] \in Seq(Letter)
  BY <1>1, <1>2, ExceptSeq
<1> QED BY <1>2, <1>3

\* What a replay writes into a letter leaves it one.
LEMMA LetterFields ==
    ASSUME NEW r \in Letter
    PROVE  /\ [r EXCEPT !.sends = @ + 1] \in Letter
           /\ [r EXCEPT !.replayed = TRUE] \in Letter
           /\ [r EXCEPT !.cuts = @ + 1] \in Letter
<1>1. r.sends + 1 \in Nat /\ r.cuts + 1 \in Nat
  BY DEF Letter
<1>2. \A n \in Nat : [r EXCEPT !.sends = n] \in Letter /\ [r EXCEPT !.cuts = n] \in Letter
  BY DEF Letter
<1>3. [r EXCEPT !.replayed = TRUE] \in Letter
  BY DEF Letter
<1> QED BY <1>1, <1>2, <1>3

\* A new letter stands behind the old ones.
LEMMA LetterAppended ==
    ASSUME TypeOK, NEW r \in Letter, letters' = Append(letters, r)
    PROVE  /\ letters' \in Seq(Letter)
           /\ DOMAIN letters = 1 .. Len(letters)
           /\ DOMAIN letters' = 1 .. (Len(letters) + 1)
           /\ \A i \in DOMAIN letters : i \in DOMAIN letters' /\ letters'[i] = letters[i]
           /\ letters'[Len(letters) + 1] = r
<1>1. letters \in Seq(Letter) /\ Len(letters) \in Nat
  BY DEF TypeOK
<1>2. DOMAIN letters = 1 .. Len(letters)
  BY <1>1
<1>3. /\ letters' \in Seq(Letter) /\ Len(letters') = Len(letters) + 1
      /\ \A i \in 1 .. Len(letters) : letters'[i] = letters[i]
      /\ letters'[Len(letters) + 1] = r
  BY <1>1, AppendProperties
<1>4. DOMAIN letters' = 1 .. (Len(letters) + 1)
  BY <1>3
<1> QED BY <1>1, <1>2, <1>3, <1>4

\* The record that buries the message of a process is a letter.
Buried(p) == [consumer |-> ConsumerOf[p], event |-> process[p].event,
              replayed |-> FALSE, sends |-> 0, cuts |-> 0]

LEMMA BuriedType ==
    ASSUME TypeOK, NEW p \in Processes, RecordDeadLetter(p), process[p].error # "none"
    PROVE  Buried(p) \in Letter /\ letters' = Append(letters, Buried(p))
BY EventsAssumption DEF TypeOK, RecordDeadLetter, Buried, Letter, ProcessState

-----------------------------------------------------------------------------
\* Each dispatcher step keeps the types.
LEMMA DispatcherTypes ==
    ASSUME Typed, NEW d \in Dispatchers, NEW accepted \in BOOLEAN,
           BeginBatch(d) \/ PublishRow(d) \/ PublishFails(d, accepted)
             \/ CommitBatch(d) \/ DispatcherCrash(d)
    PROVE  Typed'
<1> USE RecordTypes DEF Typed
<1>1. CASE BeginBatch(d)
  <2>1. Free \subseteq Events
    BY DEF Free
  <2>2. PICK rows \in SUBSET Free : dispatcher' = [dispatcher EXCEPT ![d].batch = rows]
    BY <1>1 DEF BeginBatch
  <2>3. dispatcher' \in [Dispatchers -> Transaction]
    BY <2>1, <2>2 DEF TypeOK, Transaction
  <2> QED BY <1>1, <2>3 DEF BeginBatch, TypeOK, Blamed, At
<1>2. CASE PublishRow(d)
  <2>1. PICK e \in Turn(d) :
          /\ queue' = Published(e)
          /\ dispatcher' = [dispatcher EXCEPT ![d].sent = @ \cup {e}, ![d].tried = @ \cup {e}]
          /\ history' = [history EXCEPT !.sent[e] = @ + 1]
    BY <1>2 DEF PublishRow
  <2>2. e \in Events
    BY DEF Turn, TypeOK, Transaction
  <2>3. dispatcher' \in [Dispatchers -> Transaction]
    BY <2>1, <2>2 DEF TypeOK, Transaction
  <2>4. history' \in HistoryType
    BY <2>1, <2>2, HistoryTypes DEF TypeOK
  <2> QED BY <1>2, <2>1, <2>2, <2>3, <2>4 DEF PublishRow, TypeOK, Blamed, At
<1>3. CASE PublishFails(d, accepted)
  <2>1. PICK e \in Turn(d) :
          /\ queue' = IF accepted THEN Published(e) ELSE queue
          /\ dispatcher' = [dispatcher EXCEPT ![d].tried = @ \cup {e}, ![d].failed = TRUE]
          /\ history' = IF accepted THEN [history EXCEPT !.sent[e] = @ + 1, !.cut[e] = @ + 1]
                        ELSE history
    BY <1>3 DEF PublishFails
  <2>2. e \in Events
    BY DEF Turn, TypeOK, Transaction
  <2>3. dispatcher' \in [Dispatchers -> Transaction]
    BY <2>1, <2>2 DEF TypeOK, Transaction
  <2>4. history' \in HistoryType
    BY <2>1, <2>2, HistoryTypes DEF TypeOK
  <2>5. bounds' \in [replays : 0 .. MaxReplays, faults : 0 .. MaxFaults, crashes : 0 .. MaxCrashes]
    BY <1>3, BoundsTypes DEF PublishFails
  <2> QED BY <1>3, <2>1, <2>2, <2>3, <2>4, <2>5 DEF PublishFails, TypeOK, Blamed, At
<1>4. CASE CommitBatch(d)
  <2>1. outbox' \in [Events -> Row]
    <3>1. \A e \in Events : outbox[e].attempts \in Nat /\ outbox[e].state \in {"absent", "unpublished", "published"}
      BY DEF TypeOK, Row
    <3> QED BY <1>4, <3>1 DEF CommitBatch, Row
  <2>2. dispatcher[d].tried \ dispatcher[d].sent \in SUBSET Events
    BY DEF TypeOK, Transaction
  <2>3. history' \in HistoryType
    BY <1>4, <2>2, HistoryTypes DEF CommitBatch
  <2> QED BY <1>4, <2>1, <2>3 DEF CommitBatch, TypeOK, Blamed, At
<1>5. CASE DispatcherCrash(d)
  <2>1. dispatcher[d].sent \in SUBSET Events
    BY DEF TypeOK, Transaction
  <2>2. history' \in HistoryType
    BY <1>5, <2>1, HistoryTypes DEF DispatcherCrash
  <2>3. bounds' \in [replays : 0 .. MaxReplays, faults : 0 .. MaxFaults, crashes : 0 .. MaxCrashes]
    BY <1>5, BoundsTypes DEF DispatcherCrash
  <2> QED BY <1>5, <2>2, <2>3 DEF DispatcherCrash, TypeOK, Blamed, At
<1> QED BY <1>1, <1>2, <1>3, <1>4, <1>5

\* What the rest of a step of a consumer needs, once its process is typed.
LEMMA ConsumerTypes ==
    ASSUME Typed, NEW p \in Processes, Consume(p)
    PROVE  Typed'
<1> USE RecordTypes DEF Typed
<1>1. ASSUME NEW e \in Events, Receive(p, e) PROVE Typed'
  <2>1. ConsumerOf[p] \in Consumers
    BY EventsAssumption
  <2>2. queue[ConsumerOf[p]][e] - 1 \in Nat
    BY <1>1, <2>1 DEF Receive, TypeOK
  <2>3. queue' \in [Consumers -> [Events -> Nat]]
    BY <1>1, <2>1, <2>2 DEF Receive, TypeOK
  <2>4. process' \in [Processes -> ProcessState]
    BY <1>1 DEF Receive, TypeOK, ProcessState
  <2>5. Blamed'
    BY <1>1 DEF Receive, TypeOK, Blamed, At
  <2> QED BY <1>1, <2>3, <2>4, <2>5 DEF Receive, TypeOK
<1>2. CASE Reject(p)
  BY <1>2 DEF Reject, Raise, TypeOK, ProcessState, Errors, Blamed, At
<1>3. CASE InsertInbox(p)
  BY <1>3 DEF InsertInbox, Goto, TypeOK, ProcessState, Blamed, At
<1>4. CASE CommitEffect(p)
  <2>2. inbox' \subseteq Consumers \X Events /\ history' \in HistoryType
    BY <1>4, EffectTypes DEF CommitEffect
  <2> QED BY <1>4, <2>2 DEF CommitEffect, Goto, TypeOK, ProcessState, Blamed, At
<1>5. CASE Ack(p)
  BY <1>5 DEF Ack, Done, TypeOK, Blamed, At, Idle
<1>6. CASE RejectRequeue(p)
  BY <1>6 DEF RejectRequeue, Done, TypeOK, Blamed, At, Idle
<1>7. CASE RecordDeadLetter(p)
  <2>1. process[p].error # "none"
    BY <1>7 DEF RecordDeadLetter, Blamed
  <2>2. letters' \in Seq(Letter)
    BY <1>7, <2>1, BuriedType, LetterAppended
  <2> QED BY <1>7, <2>2 DEF RecordDeadLetter, TypeOK, ProcessState, Blamed, At
<1>8. CASE RejectDead(p)
  BY <1>8 DEF RejectDead, Done, TypeOK, Blamed, At, Idle
<1> QED BY <1>1, <1>2, <1>3, <1>4, <1>5, <1>6, <1>7, <1>8 DEF Consume

\* The faults of a consumer keep the types.
LEMMA ConsumerFaultTypes ==
    ASSUME Typed, NEW p \in Processes, NEW error \in Errors, NEW committed \in BOOLEAN,
           ConsumerCrash(p) \/ Redeliver(p) \/ HandlerRaises(p, error)
             \/ DatabaseFault(p, committed)
    PROVE  Typed'
<1> USE RecordTypes DEF Typed
<1>0. bounds' \in [replays : 0 .. MaxReplays, faults : 0 .. MaxFaults, crashes : 0 .. MaxCrashes]
  BY BoundsTypes DEF ConsumerCrash, Redeliver, HandlerRaises, DatabaseFault
<1>1. CASE ConsumerCrash(p)
  BY <1>0, <1>1 DEF ConsumerCrash, Done, TypeOK, Blamed, At, Idle
<1>2. CASE Redeliver(p)
  BY <1>0, <1>2 DEF Redeliver, TypeOK, ProcessState, Blamed, At
<1>3. CASE HandlerRaises(p, error)
  BY <1>0, <1>3 DEF HandlerRaises, Raise, TypeOK, ProcessState, Errors, Blamed, At
<1>4. CASE DatabaseFault(p, committed)
  <2>2. inbox' \subseteq Consumers \X Events /\ history' \in HistoryType
    BY <1>4, EffectTypes DEF DatabaseFault, TypeOK
  <2>3. process' \in [Processes -> ProcessState] /\ Blamed'
    BY <1>4 DEF DatabaseFault, Raise, TypeOK, ProcessState, Errors, Blamed, At
  <2> QED BY <1>0, <1>4, <2>2, <2>3 DEF DatabaseFault, TypeOK
<1> QED BY <1>1, <1>2, <1>3, <1>4

\* The steps of an operator keep the types, and his letter is the only one they write.
LEMMA OperatorTypes ==
    ASSUME Typed, Replays, NEW o \in Operators,
           \/ \E i \in DOMAIN letters : LockLetter(o, i)
           \/ PublishReplay(o) \/ MarkReplayed(o) \/ ReplayCrash(o)
    PROVE  Typed' /\ DOMAIN letters' = DOMAIN letters
<1> USE RecordTypes DEF Typed
<1>1. ASSUME NEW i \in DOMAIN letters, LockLetter(o, i)
      PROVE  Typed' /\ DOMAIN letters' = DOMAIN letters
  <2>1. DOMAIN letters \subseteq Nat
    BY DEF TypeOK
  <2>2. operator' \in [Operators -> OperatorState]
    BY <1>1, <2>1 DEF LockLetter, TypeOK, OperatorState
  <2>3. bounds' \in [replays : 0 .. MaxReplays, faults : 0 .. MaxFaults, crashes : 0 .. MaxCrashes]
    <3>1. bounds.replays + 1 \in 0 .. MaxReplays
      BY <1>1, EventsAssumption DEF LockLetter, TypeOK
    <3> QED BY <1>1, <3>1 DEF LockLetter, TypeOK
  <2> QED BY <1>1, <2>2, <2>3 DEF LockLetter, TypeOK, Blamed, At
<1>2. ASSUME operator[o].pc # "idle"
      PROVE  /\ operator[o].letter \in DOMAIN letters
             /\ letters[operator[o].letter] \in Letter
             /\ letters[operator[o].letter].event \in Events
             /\ \A r \in Letter :
                   /\ [letters EXCEPT ![operator[o].letter] = r] \in Seq(Letter)
                   /\ DOMAIN [letters EXCEPT ![operator[o].letter] = r] = DOMAIN letters
  <2>1. operator[o].letter \in DOMAIN letters
    BY <1>2 DEF Replays
  <2>2. letters[operator[o].letter] \in Letter
    BY <2>1 DEF TypeOK
  <2>3. letters[operator[o].letter].event \in Events
    BY <2>2 DEF Letter
  <2> QED BY <2>1, <2>2, <2>3, LetterUpdates
<1> DEFINE mine == letters[operator[o].letter]
<1>3. ASSUME operator[o].pc # "idle"
      PROVE  /\ [mine EXCEPT !.sends = @ + 1] \in Letter
             /\ [mine EXCEPT !.replayed = TRUE] \in Letter
             /\ [mine EXCEPT !.cuts = @ + 1] \in Letter
  <2>1. mine \in Letter
    BY <1>2, <1>3
  <2> QED BY <2>1, LetterFields
<1>4. CASE PublishReplay(o)
  <2>1. letters' = [letters EXCEPT ![operator[o].letter] = [mine EXCEPT !.sends = @ + 1]]
    BY <1>4 DEF PublishReplay
  <2>2. letters' \in Seq(Letter) /\ DOMAIN letters' = DOMAIN letters
    BY <1>2, <1>3, <1>4, <2>1 DEF PublishReplay
  <2>3. operator' \in [Operators -> OperatorState]
    BY <1>4 DEF PublishReplay, TypeOK, OperatorState
  <2> QED BY <1>2, <1>4, <2>2, <2>3 DEF PublishReplay, TypeOK, Blamed, At
<1>5. CASE MarkReplayed(o)
  <2>1. letters' = [letters EXCEPT ![operator[o].letter] = [mine EXCEPT !.replayed = TRUE]]
    BY <1>5 DEF MarkReplayed
  <2>2. letters' \in Seq(Letter) /\ DOMAIN letters' = DOMAIN letters
    BY <1>2, <1>3, <1>5, <2>1 DEF MarkReplayed
  <2> QED BY <1>5, <2>2 DEF MarkReplayed, TypeOK, Blamed, At
<1>6. CASE ReplayCrash(o)
  <2>1. letters' = [letters EXCEPT ![operator[o].letter] = [mine EXCEPT !.cuts = @ + 1]]
          \/ letters' = letters
    BY <1>6 DEF ReplayCrash
  <2>2. letters' \in Seq(Letter) /\ DOMAIN letters' = DOMAIN letters
    BY <1>2, <1>3, <1>6, <2>1 DEF ReplayCrash, TypeOK
  <2> QED BY <1>6, <2>2, BoundsTypes DEF ReplayCrash, TypeOK, Blamed, At
<1> QED BY <1>1, <1>4, <1>5, <1>6

-----------------------------------------------------------------------------
(* The outbox. *)

\* Steps that leave the outbox, its transactions and its counters alone.
LEMMA OutboxStays ==
    ASSUME OutboxInv, UNCHANGED <<outbox, dispatcher>>, history'.sent = history.sent,
           history'.cut = history.cut, history'.raised = history.raised
    PROVE  OutboxInv' /\ \A e \in Events : Out(e)' = Out(e)
BY DEF OutboxInv, Locks, SentAccount, AttemptsAreEvidence, Out

\* A commit of an effect is counted, and nothing else of the history.
LEMMA EffectCounts ==
    ASSUME TypeOK, NEW p \in Processes, Effect(p)
    PROVE  /\ history'.sent = history.sent /\ history'.cut = history.cut
           /\ history'.raised = history.raised
BY DEF TypeOK, HistoryType, Effect

\* New rows are unpublished.
LEMMA OutboxGrows ==
    ASSUME Typed, OutboxInv, NEW e \in Events, CreateEvent(e)
    PROVE  OutboxInv' /\ \A f \in Events : Out(f)' = Out(f)
<1>1. \A f \in Events : /\ outbox'[f].attempts = outbox[f].attempts
                        /\ outbox[f].state = "unpublished" => outbox'[f].state = "unpublished"
                        /\ (outbox'[f].state = "published") <=> (outbox[f].state = "published")
  BY DEF CreateEvent, Typed, TypeOK, Row
<1>2. UNCHANGED <<dispatcher, history>>
  BY DEF CreateEvent
<1>3. \A f \in Events : Out(f)' = Out(f)
  BY <1>1, <1>2 DEF Out
<1>4. Locks'
  BY <1>1, <1>2 DEF OutboxInv, Locks, Typed, TypeOK, Transaction
<1>5. SentAccount'
  BY <1>2, <1>3 DEF OutboxInv, SentAccount
<1>6. AttemptsAreEvidence'
  BY <1>1, <1>2 DEF OutboxInv, AttemptsAreEvidence
<1> QED BY <1>3, <1>4, <1>5, <1>6 DEF OutboxInv

\* A batch takes rows that nobody has locked.
LEMMA OutboxLocked ==
    ASSUME Typed, OutboxInv, NEW d \in Dispatchers, BeginBatch(d)
    PROVE  OutboxInv' /\ \A e \in Events : Out(e)' = Out(e)
<1>1. PICK rows \in SUBSET Free : dispatcher' = [dispatcher EXCEPT ![d].batch = rows]
  BY DEF BeginBatch
<1>2. UNCHANGED <<outbox, history>> /\ dispatcher[d] = Closed
  BY DEF BeginBatch
<1>3. \A b \in Dispatchers : /\ dispatcher'[b].batch = IF b = d THEN rows ELSE dispatcher[b].batch
                             /\ dispatcher'[b].sent = dispatcher[b].sent
                             /\ dispatcher'[b].tried = dispatcher[b].tried
  BY <1>1 DEF Typed, TypeOK, Transaction
<1>4. \A e \in rows : /\ outbox[e].state = "unpublished"
                      /\ \A b \in Dispatchers : e \notin dispatcher[b].batch
  BY DEF Free
<1>5. Locks'
  BY <1>2, <1>3, <1>4 DEF OutboxInv, Locks, Closed
<1>6. \A e \in Events : Out(e)' = Out(e)
  BY <1>2, <1>3 DEF Out
<1> QED BY <1>2, <1>5, <1>6 DEF OutboxInv, SentAccount, AttemptsAreEvidence

\* The row whose turn it is has not been sent by anyone.
LEMMA TurnIsNew ==
    ASSUME Typed, OutboxInv, NEW d \in Dispatchers, NEW e \in Turn(d)
    PROVE  /\ e \in Events /\ e \in dispatcher[d].batch /\ e \notin dispatcher[d].tried
           /\ ~Out(e)
<1>1. e \in dispatcher[d].batch /\ e \notin dispatcher[d].tried
  BY DEF Turn
<1>2. e \in Events
  BY <1>1 DEF Typed, TypeOK, Transaction
<1>3. outbox[e].state = "unpublished" /\ e \notin dispatcher[d].sent
  BY <1>1 DEF OutboxInv, Locks
<1>4. \A b \in Dispatchers \ {d} : e \notin dispatcher[b].sent
  BY <1>1 DEF OutboxInv, Locks
<1> QED BY <1>1, <1>2, <1>3, <1>4 DEF Out

\* A publish that returns sends the row for the first time that counts.
LEMMA OutboxPublished ==
    ASSUME Typed, OutboxInv, NEW d \in Dispatchers, PublishRow(d)
    PROVE  OutboxInv' /\ \E f \in Events : /\ \A e \in Events : Out(e)' => e = f \/ Out(e)
                                           /\ queue' = Published(f)
<1>1. PICK f \in Turn(d) :
        /\ queue' = Published(f)
        /\ dispatcher' = [dispatcher EXCEPT ![d].sent = @ \cup {f}, ![d].tried = @ \cup {f}]
        /\ history' = [history EXCEPT !.sent[f] = @ + 1]
  BY DEF PublishRow
<1>2. f \in Events /\ f \in dispatcher[d].batch /\ ~Out(f)
  BY TurnIsNew
<1>3. \A b \in Dispatchers :
        /\ dispatcher'[b].batch = dispatcher[b].batch
        /\ dispatcher'[b].sent = IF b = d THEN dispatcher[b].sent \cup {f} ELSE dispatcher[b].sent
        /\ dispatcher'[b].tried = IF b = d THEN dispatcher[b].tried \cup {f}
                                  ELSE dispatcher[b].tried
  BY <1>1 DEF Typed, TypeOK, Transaction
<1>4. UNCHANGED outbox
  BY DEF PublishRow
<1>5. /\ \A e \in Events : history'.sent[e] = history.sent[e] + (IF e = f THEN 1 ELSE 0)
      /\ history'.cut = history.cut /\ history'.raised = history.raised
      /\ \A e \in Events : history.sent[e] \in Nat /\ history.cut[e] \in Nat
  BY <1>1, <1>2 DEF Typed, TypeOK, HistoryType
<1>6. \A e \in Events : Out(e)' <=> (e = f \/ Out(e))
  BY <1>2, <1>3, <1>4 DEF Out
<1>7. Locks'
  <2>1. \A b \in Dispatchers :
          /\ \A e \in dispatcher'[b].batch : outbox'[e].state = "unpublished"
          /\ \A a \in Dispatchers \ {b} : dispatcher'[b].batch \cap dispatcher'[a].batch = {}
    BY <1>3, <1>4 DEF OutboxInv, Locks
  <2>2. \A b \in Dispatchers : /\ dispatcher'[b].tried \subseteq dispatcher'[b].batch
                               /\ dispatcher'[b].sent \subseteq dispatcher'[b].tried
    <3>1. \A b \in Dispatchers : /\ dispatcher[b].tried \subseteq dispatcher[b].batch
                                 /\ dispatcher[b].sent \subseteq dispatcher[b].tried
      BY DEF OutboxInv, Locks
    <3> QED BY <1>2, <1>3, <3>1
  <2> QED BY <2>1, <2>2 DEF Locks
<1>8. SentAccount'
  <2> SUFFICES ASSUME NEW e \in Events
               PROVE  history'.sent[e] = history'.cut[e] + (IF Out(e)' THEN 1 ELSE 0)
    BY DEF SentAccount
  <2>1. history.sent[e] = history.cut[e] + (IF Out(e) THEN 1 ELSE 0)
    BY DEF OutboxInv, SentAccount
  <2>2. CASE e = f
    <3>1. ~Out(e) /\ Out(e)'
      BY <1>2, <1>6, <2>2
    <3> QED BY <1>5, <2>1, <2>2, <3>1
  <2>3. CASE e # f
    <3>1. Out(e)' <=> Out(e)
      BY <1>6, <2>3
    <3> QED BY <1>5, <2>1, <2>3, <3>1
  <2> QED BY <2>2, <2>3
<1>9. AttemptsAreEvidence'
  BY <1>4, <1>5 DEF OutboxInv, AttemptsAreEvidence
<1> QED BY <1>1, <1>2, <1>6, <1>7, <1>8, <1>9 DEF OutboxInv

\* A publish that raises is tried; the message that was taken all the same is cut off.
LEMMA OutboxRaised ==
    ASSUME Typed, OutboxInv, NEW d \in Dispatchers, NEW accepted \in BOOLEAN,
           PublishFails(d, accepted)
    PROVE  /\ OutboxInv' /\ \A e \in Events : Out(e)' = Out(e)
           /\ queue' = queue \/ \E f \in Events : queue' = Published(f)
<1>1. PICK f \in Turn(d) :
        /\ queue' = IF accepted THEN Published(f) ELSE queue
        /\ dispatcher' = [dispatcher EXCEPT ![d].tried = @ \cup {f}, ![d].failed = TRUE]
        /\ history' = IF accepted THEN [history EXCEPT !.sent[f] = @ + 1, !.cut[f] = @ + 1]
                      ELSE history
  BY DEF PublishFails
<1>2. f \in Events /\ f \in dispatcher[d].batch /\ ~Out(f)
  BY TurnIsNew
<1>3. \A b \in Dispatchers :
        /\ dispatcher'[b].batch = dispatcher[b].batch
        /\ dispatcher'[b].sent = dispatcher[b].sent
        /\ dispatcher'[b].tried = IF b = d THEN dispatcher[b].tried \cup {f}
                                  ELSE dispatcher[b].tried
  BY <1>1 DEF Typed, TypeOK, Transaction
<1>4. UNCHANGED outbox
  BY DEF PublishFails
<1>5. \A e \in Events :
        /\ history.sent[e] \in Nat /\ history.cut[e] \in Nat
        /\ \E n \in Nat : /\ history'.sent[e] = history.sent[e] + n
                          /\ history'.cut[e] = history.cut[e] + n
  <2>1. \A e \in Events : history.sent[e] \in Nat /\ history.cut[e] \in Nat
    BY DEF Typed, TypeOK, HistoryType
  <2>2. CASE accepted
    <3>1. /\ history'.sent = [history.sent EXCEPT ![f] = @ + 1]
          /\ history'.cut = [history.cut EXCEPT ![f] = @ + 1]
      BY <1>1, <2>2 DEF Typed, TypeOK, HistoryType
    <3>2. history.sent \in [Events -> Nat] /\ history.cut \in [Events -> Nat]
      BY DEF Typed, TypeOK, HistoryType
    <3>3. \A e \in Events : LET n == IF e = f THEN 1 ELSE 0
                            IN  /\ history'.sent[e] = history.sent[e] + n
                                /\ history'.cut[e] = history.cut[e] + n
      BY <3>1, <3>2
    <3> QED BY <2>1, <3>3
  <2>3. CASE ~accepted
    <3>1. \A e \in Events : /\ history'.sent[e] = history.sent[e] + 0
                            /\ history'.cut[e] = history.cut[e] + 0
      BY <1>1, <2>1, <2>3
    <3> QED BY <2>1, <3>1
  <2> QED BY <2>2, <2>3
<1>6. history'.raised = history.raised
  BY <1>1 DEF Typed, TypeOK, HistoryType
<1>7. \A e \in Events : Out(e)' = Out(e)
  BY <1>3, <1>4 DEF Out
<1>8. Locks'
  <2>1. \A b \in Dispatchers :
          /\ \A e \in dispatcher'[b].batch : outbox'[e].state = "unpublished"
          /\ \A a \in Dispatchers \ {b} : dispatcher'[b].batch \cap dispatcher'[a].batch = {}
    BY <1>3, <1>4 DEF OutboxInv, Locks
  <2>2. \A b \in Dispatchers : /\ dispatcher'[b].tried \subseteq dispatcher'[b].batch
                               /\ dispatcher'[b].sent \subseteq dispatcher'[b].tried
    <3>1. \A b \in Dispatchers : /\ dispatcher[b].tried \subseteq dispatcher[b].batch
                                 /\ dispatcher[b].sent \subseteq dispatcher[b].tried
      BY DEF OutboxInv, Locks
    <3> QED BY <1>2, <1>3, <3>1
  <2> QED BY <2>1, <2>2 DEF Locks
<1>9. SentAccount'
  <2> SUFFICES ASSUME NEW e \in Events
               PROVE  history'.sent[e] = history'.cut[e] + (IF Out(e) THEN 1 ELSE 0)
    BY <1>7 DEF SentAccount
  <2>1. history.sent[e] = history.cut[e] + (IF Out(e) THEN 1 ELSE 0)
    BY DEF OutboxInv, SentAccount
  <2> QED BY <1>5, <2>1
<1>10. AttemptsAreEvidence'
  BY <1>4, <1>6 DEF OutboxInv, AttemptsAreEvidence
<1> QED BY <1>1, <1>2, <1>7, <1>8, <1>9, <1>10 DEF OutboxInv

\* Closing a transaction gives its rows free and touches no other transaction.
LEMMA ClosedTransaction ==
    ASSUME Typed, OutboxInv, NEW d \in Dispatchers, dispatcher' = [dispatcher EXCEPT ![d] = Closed]
    PROVE  /\ \A b \in Dispatchers \ {d} : dispatcher'[b] = dispatcher[b]
           /\ dispatcher'[d].batch = {} /\ dispatcher'[d].tried = {}
           /\ dispatcher'[d].sent = {}
           /\ \A b \in Dispatchers \ {d}, e \in dispatcher[d].batch : e \notin dispatcher[b].batch
           /\ \A b \in Dispatchers \ {d}, e \in dispatcher[d].sent : e \notin dispatcher[b].sent
<1>1. \A b \in Dispatchers : dispatcher[b].sent \subseteq dispatcher[b].batch
  BY DEF OutboxInv, Locks
<1>2. \A b \in Dispatchers \ {d}, e \in dispatcher[d].batch : e \notin dispatcher[b].batch
  BY DEF OutboxInv, Locks
<1>3. dispatcher'[d] = Closed /\ \A b \in Dispatchers \ {d} : dispatcher'[b] = dispatcher[b]
  BY DEF Typed, TypeOK
<1>4. dispatcher'[d].batch = {} /\ dispatcher'[d].tried = {} /\ dispatcher'[d].sent = {}
  BY <1>3 DEF Closed
<1> QED BY <1>1, <1>2, <1>3, <1>4

\* The commit marks what was sent and counts what was tried.
LEMMA OutboxCommitted ==
    ASSUME Typed, OutboxInv, NEW d \in Dispatchers, CommitBatch(d)
    PROVE  OutboxInv' /\ \A e \in Events : Out(e)' => Out(e)
<1>1. dispatcher' = [dispatcher EXCEPT ![d] = Closed]
  BY DEF CommitBatch
<1>2. \A e \in Events :
        /\ outbox'[e].state = IF e \in dispatcher[d].sent THEN "published" ELSE outbox[e].state
        /\ outbox'[e].attempts = outbox[e].attempts + (IF e \in dispatcher[d].tried THEN 1 ELSE 0)
  BY DEF CommitBatch, Marked, Tried
<1>3. /\ history'.sent = history.sent /\ history'.cut = history.cut
      /\ \A e \in Events : history'.raised[e] =
            history.raised[e] + (IF e \in dispatcher[d].tried \ dispatcher[d].sent THEN 1 ELSE 0)
  <2>1. /\ history'.sent = history.sent /\ history'.cut = history.cut
        /\ history'.raised = Count(history.raised, dispatcher[d].tried \ dispatcher[d].sent)
    BY DEF CommitBatch, Typed, TypeOK, HistoryType
  <2>2. history.raised \in [Events -> Nat]
    BY DEF Typed, TypeOK, HistoryType
  <2> QED BY <2>1, <2>2 DEF Count
<1>4. dispatcher[d].sent \subseteq dispatcher[d].tried /\ dispatcher[d].tried \subseteq dispatcher[d].batch
  BY DEF OutboxInv, Locks
<1>5. \A e \in Events : Out(e)' = Out(e)
  BY <1>1, <1>2, ClosedTransaction DEF Out
<1>6. Locks'
  <2>1. ASSUME NEW b \in Dispatchers, NEW e \in dispatcher'[b].batch
        PROVE  outbox'[e].state = "unpublished"
    <3>1. b # d /\ e \in dispatcher[b].batch
      BY <1>1, ClosedTransaction
    <3>2. e \in Events /\ outbox[e].state = "unpublished"
      <4>1. dispatcher[b].batch \subseteq Events
        BY DEF Typed, TypeOK, Transaction
      <4>2. \A f \in dispatcher[b].batch : outbox[f].state = "unpublished"
        BY DEF OutboxInv, Locks
      <4> QED BY <3>1, <4>1, <4>2
    <3>3. e \notin dispatcher[d].batch
      BY <1>1, <3>1, ClosedTransaction
    <3> QED BY <1>2, <1>4, <3>2, <3>3
  <2>2. \A b \in Dispatchers \ {d} : dispatcher'[b] = dispatcher[b]
    BY <1>1, ClosedTransaction
  <2>3. dispatcher'[d].batch = {} /\ dispatcher'[d].tried = {} /\ dispatcher'[d].sent = {}
    BY <1>1, ClosedTransaction
  <2>4. \A b \in Dispatchers : /\ dispatcher'[b].tried \subseteq dispatcher'[b].batch
                               /\ dispatcher'[b].sent \subseteq dispatcher'[b].tried
    BY <2>2, <2>3 DEF OutboxInv, Locks
  <2>5. \A b \in Dispatchers, a \in Dispatchers :
          a # b => dispatcher'[b].batch \cap dispatcher'[a].batch = {}
    <3>1. \A b \in Dispatchers, a \in Dispatchers :
            a # b => dispatcher[b].batch \cap dispatcher[a].batch = {}
      BY DEF OutboxInv, Locks
    <3> QED BY <2>2, <2>3, <3>1
  <2> QED BY <2>1, <2>4, <2>5 DEF Locks
<1>7. SentAccount'
  BY <1>3, <1>5 DEF OutboxInv, SentAccount
<1>8. AttemptsAreEvidence'
  <2> SUFFICES ASSUME NEW e \in Events
               PROVE  outbox'[e].attempts = history'.raised[e]
                        + (IF outbox'[e].state = "published" THEN 1 ELSE 0)
    BY DEF AttemptsAreEvidence
  <2>1. /\ outbox[e].attempts = history.raised[e]
             + (IF outbox[e].state = "published" THEN 1 ELSE 0)
        /\ outbox[e].attempts \in Nat /\ history.raised[e] \in Nat
    BY DEF OutboxInv, AttemptsAreEvidence, Typed, TypeOK, HistoryType, Row
  <2>2. e \in dispatcher[d].tried => outbox[e].state # "published"
    BY <1>4 DEF OutboxInv, Locks
  <2> QED BY <1>2, <1>3, <1>4, <2>1, <2>2
<1> QED BY <1>5, <1>6, <1>7, <1>8 DEF OutboxInv

\* A crash takes the marks back: what was sent is cut off.
LEMMA OutboxRolledBack ==
    ASSUME Typed, OutboxInv, NEW d \in Dispatchers, DispatcherCrash(d)
    PROVE  OutboxInv' /\ \A e \in Events : Out(e)' => Out(e)
<1>1. dispatcher' = [dispatcher EXCEPT ![d] = Closed] /\ outbox' = outbox
  BY DEF DispatcherCrash
<1>2. /\ history'.sent = history.sent /\ history'.raised = history.raised
      /\ \A e \in Events : history'.cut[e] =
            history.cut[e] + (IF e \in dispatcher[d].sent THEN 1 ELSE 0)
  <2>1. /\ history'.sent = history.sent /\ history'.raised = history.raised
        /\ history'.cut = Count(history.cut, dispatcher[d].sent)
    BY DEF DispatcherCrash, Typed, TypeOK, HistoryType
  <2>2. history.cut \in [Events -> Nat]
    BY DEF Typed, TypeOK, HistoryType
  <2> QED BY <2>1, <2>2 DEF Count
<1>3. \A e \in dispatcher[d].sent : outbox[e].state = "unpublished"
  BY DEF OutboxInv, Locks
<1>4. \A e \in Events : /\ e \in dispatcher[d].sent => Out(e) /\ ~Out(e)'
                        /\ e \notin dispatcher[d].sent => Out(e)' = Out(e)
  <2>1. \A b \in Dispatchers \ {d} : dispatcher'[b] = dispatcher[b]
    BY <1>1, ClosedTransaction
  <2>2. dispatcher'[d].sent = {}
    BY <1>1, ClosedTransaction
  <2>3. \A b \in Dispatchers \ {d}, e \in dispatcher[d].sent : e \notin dispatcher[b].sent
    BY <1>1, ClosedTransaction
  <2> QED BY <1>1, <1>3, <2>1, <2>2, <2>3 DEF Out
<1>5. Locks'
  <2>1. \A b \in Dispatchers \ {d} : dispatcher'[b] = dispatcher[b]
    BY <1>1, ClosedTransaction
  <2>2. dispatcher'[d].batch = {} /\ dispatcher'[d].tried = {} /\ dispatcher'[d].sent = {}
    BY <1>1, ClosedTransaction
  <2>3. \A b \in Dispatchers : /\ \A e \in dispatcher'[b].batch : outbox'[e].state = "unpublished"
                               /\ dispatcher'[b].tried \subseteq dispatcher'[b].batch
                               /\ dispatcher'[b].sent \subseteq dispatcher'[b].tried
    BY <1>1, <2>1, <2>2 DEF OutboxInv, Locks
  <2>4. \A b \in Dispatchers, a \in Dispatchers :
          a # b => dispatcher'[b].batch \cap dispatcher'[a].batch = {}
    <3>1. \A b \in Dispatchers, a \in Dispatchers :
            a # b => dispatcher[b].batch \cap dispatcher[a].batch = {}
      BY DEF OutboxInv, Locks
    <3> QED BY <2>1, <2>2, <3>1
  <2> QED BY <2>3, <2>4 DEF Locks
<1>6. SentAccount'
  <2> SUFFICES ASSUME NEW e \in Events
               PROVE  history'.sent[e] = history'.cut[e] + (IF Out(e)' THEN 1 ELSE 0)
    BY DEF SentAccount
  <2>1. /\ history.sent[e] = history.cut[e] + (IF Out(e) THEN 1 ELSE 0)
        /\ history.cut[e] \in Nat
    BY DEF OutboxInv, SentAccount, Typed, TypeOK, HistoryType
  <2> QED BY <1>2, <1>4, <2>1
<1>7. AttemptsAreEvidence'
  BY <1>1, <1>2 DEF OutboxInv, AttemptsAreEvidence
<1> QED BY <1>4, <1>5, <1>6, <1>7 DEF OutboxInv

-----------------------------------------------------------------------------
(* The inbox. *)

\* Steps that commit no effect and begin no handling.
LEMMA InboxStays ==
    ASSUME InboxInv, inbox' = inbox, history'.effects = history.effects,
           \A p \in Processes :
              /\ At(p, "handling")' => At(p, "handling") /\ process'[p].event = process[p].event
              /\ At(p, "answered")' => At(p, "answered") /\ process'[p].event = process[p].event
    PROVE  InboxInv'
<1>1. \A p \in Processes : At(p, "handling")' \/ At(p, "answered")' => Key(p)' = Key(p)
  BY DEF Key
<1>2. Handlers'
  BY <1>1 DEF InboxInv, Handlers
<1>3. HandledOnce'
  BY DEF InboxInv, HandledOnce
<1> QED BY <1>2, <1>3 DEF InboxInv

\* The insert waits for other handlers and refuses what the inbox has.
LEMMA InboxInserted ==
    ASSUME Typed, InboxInv, NEW p \in Processes, InsertInbox(p)
    PROVE  InboxInv'
<1>1. /\ process' = [process EXCEPT ![p].pc = IF Duplicate(p) THEN "answered" ELSE "handling"]
      /\ inbox' = inbox /\ history' = history
      /\ ~InsertWaits(p) /\ At(p, "received")
  BY DEF InsertInbox, Goto
<1>2. \A q \in Processes : /\ q # p => process'[q] = process[q]
                           /\ process'[q].event = process[q].event /\ Key(q)' = Key(q)
  BY <1>1 DEF Typed, TypeOK, ProcessState, Key
<1>3. process'[p].pc = IF Duplicate(p) THEN "answered" ELSE "handling"
  BY <1>1 DEF Typed, TypeOK, ProcessState
<1>4. \A q \in Processes \ {p} : At(q, "handling") => Key(q) # Key(p)
  BY <1>1 DEF InsertWaits
<1>5. Handlers'
  <2> SUFFICES ASSUME NEW q \in Processes
               PROVE  /\ At(q, "handling")' => Key(q)' \notin inbox'
                      /\ At(q, "handling")' => \A r \in Processes \ {q} :
                            At(r, "handling")' => Key(r)' # Key(q)'
                      /\ At(q, "answered")' => Key(q)' \in inbox'
    BY DEF Handlers
  <2>1. CASE q = p
    BY <1>1, <1>2, <1>3, <1>4, <2>1 DEF Duplicate, At
  <2>2. CASE q # p
    <3>1. /\ At(q, "handling")' = At(q, "handling") /\ At(q, "answered")' = At(q, "answered")
          /\ Key(q)' = Key(q)
      BY <1>2, <2>2 DEF At
    <3>2. ASSUME At(q, "handling"), NEW r \in Processes \ {q}, At(r, "handling")'
          PROVE  Key(r)' # Key(q)'
      <4>1. CASE r = p
        BY <1>2, <1>4, <3>1, <3>2, <4>1, <2>2
      <4>2. CASE r # p
        BY <1>2, <3>2, <4>2 DEF InboxInv, Handlers, At
      <4> QED BY <4>1, <4>2
    <3> QED BY <1>1, <3>1, <3>2 DEF InboxInv, Handlers
  <2> QED BY <2>1, <2>2
<1>6. HandledOnce'
  BY <1>1 DEF InboxInv, HandledOnce
<1> QED BY <1>5, <1>6 DEF InboxInv

\* The commit of the one handler is the first effect of its key.
LEMMA InboxCommitted ==
    ASSUME Typed, InboxInv, NEW p \in Processes, At(p, "handling"), Effect(p),
           \A q \in Processes \ {p} : process'[q] = process[q],
           process'[p].event = process[p].event, process'[p].pc \in {"answered", "raised"}
    PROVE  InboxInv'
<1>1. inbox' = inbox \cup {Key(p)} /\ Key(p) \notin inbox
  BY DEF Effect, InboxInv, Handlers
<1>2. \A q \in Processes : Key(q)' = Key(q)
  BY DEF Key
<1>3. ConsumerOf[p] \in Consumers /\ process[p].event \in Events
  BY EventsAssumption DEF Typed, TypeOK, ProcessState
<1>4. \A c \in Consumers, e \in Events :
        history'.effects[c][e] = history.effects[c][e] + (IF <<c, e>> = Key(p) THEN 1 ELSE 0)
  <2>1. history.effects \in [Consumers -> [Events -> Nat]]
    BY DEF Typed, TypeOK, HistoryType
  <2>2. history'.effects
          = [history.effects EXCEPT ![ConsumerOf[p]][process[p].event] = @ + 1]
    BY DEF Effect, Typed, TypeOK, HistoryType
  <2>3. \A c \in Consumers, e \in Events :
          <<c, e>> = Key(p) <=> (c = ConsumerOf[p] /\ e = process[p].event)
    BY DEF Key
  <2> QED BY <1>3, <2>1, <2>2, <2>3
<1>5. HandledOnce'
  <2> SUFFICES ASSUME NEW c \in Consumers, NEW e \in Events
               PROVE  history'.effects[c][e] = IF <<c, e>> \in inbox' THEN 1 ELSE 0
    BY DEF HandledOnce
  <2>1. history.effects[c][e] = IF <<c, e>> \in inbox THEN 1 ELSE 0
    BY DEF InboxInv, HandledOnce
  <2> QED BY <1>1, <1>4, <2>1
<1>6. Handlers'
  <2> SUFFICES ASSUME NEW q \in Processes
               PROVE  /\ At(q, "handling")' => Key(q)' \notin inbox'
                      /\ At(q, "handling")' => \A r \in Processes \ {q} :
                            At(r, "handling")' => Key(r)' # Key(q)'
                      /\ At(q, "answered")' => Key(q)' \in inbox'
    BY DEF Handlers
  <2>1. CASE q = p
    BY <1>1, <1>2, <2>1 DEF At
  <2>2. CASE q # p
    <3>1. /\ At(q, "handling")' = At(q, "handling") /\ At(q, "answered")' = At(q, "answered")
          /\ \A r \in Processes : At(r, "handling")' => At(r, "handling")
      BY <2>2 DEF At
    <3>2. At(q, "handling") => Key(q) # Key(p)
      BY <2>2 DEF InboxInv, Handlers
    <3> QED BY <1>1, <1>2, <3>1, <3>2 DEF InboxInv, Handlers
  <2> QED BY <2>1, <2>2
<1> QED BY <1>5, <1>6 DEF InboxInv

-----------------------------------------------------------------------------
(* The letters. *)

\* Steps that leave the letters and the operators alone.
LEMMA LettersStay ==
    ASSUME LettersInv, UNCHANGED <<letters, operator>>
    PROVE  LettersInv'
BY DEF LettersInv, Replays, LetterAccount, Sending

\* A new letter was never replayed.
LEMMA LettersGrow ==
    ASSUME Typed, LettersInv, NEW p \in Processes, RecordDeadLetter(p)
    PROVE  /\ LettersInv' /\ operator' = operator
           /\ \A i \in DOMAIN letters : i \in DOMAIN letters' /\ letters'[i] = letters[i]
           /\ \E i \in DOMAIN letters' : /\ letters'[i].consumer = ConsumerOf[p]
                                         /\ letters'[i].event = process[p].event
                                         /\ Resting(i)'
<1>1. Buried(p) \in Letter /\ letters' = Append(letters, Buried(p)) /\ operator' = operator
  BY BuriedType DEF Typed, Blamed, RecordDeadLetter
<1>0. PICK new \in Nat : new = Len(letters) + 1
  <2>1. Len(letters) + 1 \in Nat
    BY DEF Typed, TypeOK
  <2> QED BY <2>1
<1>2. /\ DOMAIN letters = 1 .. Len(letters) /\ DOMAIN letters' = 1 .. new
      /\ \A i \in DOMAIN letters : i \in DOMAIN letters' /\ letters'[i] = letters[i]
      /\ letters'[new] = Buried(p)
      /\ Len(letters) \in Nat
  BY <1>0, <1>1, LetterAppended DEF Typed, TypeOK
<1>3. new \notin DOMAIN letters /\ new \in DOMAIN letters'
  BY <1>0, <1>2
<1>4. \A i \in DOMAIN letters' : i = new \/ i \in DOMAIN letters
  BY <1>0, <1>2
<1>5. Replays'
  BY <1>1, <1>2 DEF LettersInv, Replays
<1>6. /\ letters'[new].consumer = ConsumerOf[p] /\ letters'[new].event = process[p].event
      /\ ~letters'[new].replayed /\ letters'[new].sends = 0 /\ letters'[new].cuts = 0
  BY <1>2 DEF Buried
<1>7. \A o \in Operators : operator[o].pc # "idle" => operator[o].letter # new
  BY <1>3 DEF LettersInv, Replays
<1>8. LetterAccount'
  <2> SUFFICES ASSUME NEW i \in DOMAIN letters'
               PROVE  letters'[i].sends = letters'[i].cuts
                        + (IF letters'[i].replayed \/ Sending(i)' THEN 1 ELSE 0)
    BY DEF LetterAccount
  <2>1. Sending(i)' = Sending(i)
    BY <1>1 DEF Sending
  <2>2. CASE i = new
    <3>1. ~Sending(i)
      BY <1>7, <2>2 DEF Sending
    <3> QED BY <1>6, <2>1, <2>2, <3>1
  <2>3. CASE i \in DOMAIN letters
    BY <1>2, <2>1, <2>3 DEF LettersInv, LetterAccount
  <2> QED BY <1>4, <2>2, <2>3
<1>9. Resting(new)'
  BY <1>1, <1>6, <1>7 DEF Resting
<1> QED BY <1>1, <1>2, <1>3, <1>5, <1>6, <1>8, <1>9 DEF LettersInv

\* Another operator cannot take the letter that one has locked.
LEMMA LettersLocked ==
    ASSUME Typed, LettersInv, NEW o \in Operators, NEW i \in DOMAIN letters, LockLetter(o, i)
    PROVE  /\ LettersInv' /\ UNCHANGED letters
           /\ \A j \in DOMAIN letters : Resting(j)' = Resting(j)
<1>1. /\ operator[o] = Off /\ MayReplay(i) /\ UNCHANGED letters
      /\ operator' = [operator EXCEPT ![o] = [pc |-> "locked", letter |-> i]]
  BY DEF LockLetter
<1>2. \A q \in Operators :
        operator'[q] = IF q = o THEN [pc |-> "locked", letter |-> i] ELSE operator[q]
  BY <1>1 DEF Typed, TypeOK
<1>3. \A q \in Operators \ {o} : operator[q].pc # "idle" => operator[q].letter # i
  BY <1>1 DEF MayReplay
<1>4. Replays'
  <2> SUFFICES ASSUME NEW q \in Operators, operator'[q].pc # "idle"
               PROVE  /\ operator'[q].letter \in DOMAIN letters
                      /\ ~letters[operator'[q].letter].replayed
                      /\ \A r \in Operators \ {q} :
                            operator'[r].pc # "idle" => operator'[r].letter # operator'[q].letter
    BY <1>1 DEF Replays
  <2>1. CASE q = o
    BY <1>1, <1>2, <1>3, <2>1 DEF MayReplay
  <2>2. CASE q # o
    BY <1>2, <1>3, <2>2 DEF LettersInv, Replays
  <2> QED BY <2>1, <2>2
<1>5. operator[o].pc = "idle"
  BY <1>1 DEF Off
<1>6. \A j \in DOMAIN letters : Sending(j)' = Sending(j) /\ Resting(j)' = Resting(j)
  BY <1>1, <1>2, <1>5 DEF Sending, Resting
<1>7. LetterAccount'
  BY <1>1, <1>6 DEF LettersInv, LetterAccount
<1> QED BY <1>1, <1>4, <1>6, <1>7 DEF LettersInv

\* What a step of an operator does to his letter, and to no other.
LEMMA LetterOf ==
    ASSUME Typed, LettersInv, NEW o \in Operators,
           PublishReplay(o) \/ MarkReplayed(o) \/ ReplayCrash(o)
    PROVE  \E n \in DOMAIN letters :
              /\ operator[o].pc # "idle" /\ operator[o].letter = n
              /\ letters[n] \in Letter /\ ~letters[n].replayed
              /\ \A q \in Operators \ {o} : operator[q].pc # "idle" => operator[q].letter # n
              /\ \A q \in Operators \ {o} : operator'[q] = operator[q]
              /\ \A i \in DOMAIN letters \ {n} : letters'[i] = letters[i]
              /\ letters'[n].consumer = letters[n].consumer
              /\ letters'[n].event = letters[n].event
              /\ PublishReplay(o) => /\ operator'[o].pc = "sent" /\ operator'[o].letter = n
                                     /\ letters'[n].sends = letters[n].sends + 1
                                     /\ letters'[n].cuts = letters[n].cuts
                                     /\ ~letters'[n].replayed
              /\ MarkReplayed(o) => /\ operator'[o].pc = "idle" /\ letters'[n].replayed
                                    /\ letters'[n].sends = letters[n].sends
                                    /\ letters'[n].cuts = letters[n].cuts
              /\ ReplayCrash(o) => /\ operator'[o].pc = "idle" /\ ~letters'[n].replayed
                                   /\ letters'[n].sends = letters[n].sends
                                   /\ letters'[n].cuts = letters[n].cuts
                                        + (IF operator[o].pc = "sent" THEN 1 ELSE 0)
<1>1. operator[o].pc # "idle"
  BY DEF PublishReplay, MarkReplayed, ReplayCrash
<1>2. PICK n \in DOMAIN letters : operator[o].letter = n /\ ~letters[n].replayed
  BY <1>1 DEF LettersInv, Replays
<1>3. \A q \in Operators \ {o} : operator[q].pc # "idle" => operator[q].letter # n
  BY <1>1, <1>2 DEF LettersInv, Replays
<1>4. letters[n] \in Letter
  BY DEF Typed, TypeOK
<1>5. letters[n].cuts \in Nat
  BY <1>4 DEF Letter
<1>6. \A q \in Operators \ {o} : operator'[q] = operator[q]
  BY DEF PublishReplay, MarkReplayed, ReplayCrash, Typed, TypeOK
<1>7. CASE PublishReplay(o)
  <2>1. /\ letters' = [letters EXCEPT ![n] = [letters[n] EXCEPT !.sends = @ + 1]]
        /\ operator' = [operator EXCEPT ![o].pc = "sent"]
    BY <1>2, <1>7 DEF PublishReplay
  <2>2. operator'[o].pc = "sent" /\ operator'[o].letter = n
    BY <1>2, <2>1 DEF Typed, TypeOK, OperatorState
  <2>3. letters'[n] = [letters[n] EXCEPT !.sends = @ + 1]
    BY <2>1
  <2>4. \A i \in DOMAIN letters \ {n} : letters'[i] = letters[i]
    BY <2>1
  <2>5. ~MarkReplayed(o) /\ ~ReplayCrash(o)
    BY <1>7, <2>2 DEF PublishReplay, MarkReplayed, ReplayCrash, Off, Typed, TypeOK
  <2> QED BY <1>1, <1>2, <1>3, <1>4, <1>6, <2>2, <2>3, <2>4, <2>5 DEF Letter
<1>8. CASE MarkReplayed(o)
  <2>1. /\ letters' = [letters EXCEPT ![n] = [letters[n] EXCEPT !.replayed = TRUE]]
        /\ operator' = [operator EXCEPT ![o] = Off]
    BY <1>2, <1>8 DEF MarkReplayed
  <2>2. operator'[o].pc = "idle"
    BY <2>1 DEF Typed, TypeOK, Off
  <2>3. letters'[n] = [letters[n] EXCEPT !.replayed = TRUE]
    BY <2>1
  <2>4. \A i \in DOMAIN letters \ {n} : letters'[i] = letters[i]
    BY <2>1
  <2>5. letters'[n].replayed /\ letters'[n].sends = letters[n].sends
          /\ letters'[n].cuts = letters[n].cuts
    BY <1>4, <2>3 DEF Letter
  <2>6. ~PublishReplay(o)
    BY <1>8 DEF PublishReplay, MarkReplayed
  <2>7. ~ReplayCrash(o)
    <3>1. letters # letters'
      BY <1>2, <2>5
    <3>2. ASSUME ReplayCrash(o) PROVE ~letters'[n].replayed
      BY <1>2, <1>4, <3>2 DEF ReplayCrash, Letter
    <3> QED BY <2>5, <3>2
  <2> QED BY <1>1, <1>2, <1>3, <1>4, <1>6, <2>2, <2>3, <2>4, <2>5, <2>6, <2>7 DEF Letter
<1>9. CASE ReplayCrash(o)
  <2>1. /\ letters' = IF operator[o].pc = "sent"
                      THEN [letters EXCEPT ![n] = [letters[n] EXCEPT !.cuts = @ + 1]] ELSE letters
        /\ operator' = [operator EXCEPT ![o] = Off]
    BY <1>2, <1>9 DEF ReplayCrash
  <2>2. operator'[o].pc = "idle"
    BY <2>1 DEF Typed, TypeOK, Off
  <2>3. letters'[n] = IF operator[o].pc = "sent" THEN [letters[n] EXCEPT !.cuts = @ + 1]
                      ELSE letters[n]
    BY <2>1
  <2>4. \A i \in DOMAIN letters \ {n} : letters'[i] = letters[i]
    BY <2>1
  <2>5. /\ ~letters'[n].replayed /\ letters'[n].sends = letters[n].sends
        /\ letters'[n].cuts = letters[n].cuts + (IF operator[o].pc = "sent" THEN 1 ELSE 0)
        /\ letters'[n].consumer = letters[n].consumer /\ letters'[n].event = letters[n].event
    BY <1>2, <1>4, <1>5, <2>3 DEF Letter
  <2>6. ~MarkReplayed(o)
    <3>1. ASSUME MarkReplayed(o) PROVE letters'[n].replayed
      BY <1>2, <1>4, <3>1 DEF MarkReplayed, Letter
    <3> QED BY <2>5, <3>1
  <2>7. ~PublishReplay(o)
    <3>1. ASSUME PublishReplay(o) PROVE operator'[o].pc = "sent"
      BY <3>1 DEF PublishReplay, Typed, TypeOK, OperatorState
    <3> QED BY <2>2, <3>1
  <2> QED BY <1>1, <1>2, <1>3, <1>4, <1>6, <2>2, <2>4, <2>5, <2>6, <2>7
<1> QED BY <1>7, <1>8, <1>9

\* A letter rests until a replay of it is published; a replay that is cut off rests again.
LEMMA LettersReplayed ==
    ASSUME Typed, LettersInv, NEW o \in Operators,
           PublishReplay(o) \/ MarkReplayed(o) \/ ReplayCrash(o)
    PROVE  /\ LettersInv'
           /\ \E n \in DOMAIN letters :
                 /\ \A i \in DOMAIN letters :
                       /\ i \in DOMAIN letters'
                       /\ letters'[i].consumer = letters[i].consumer
                       /\ letters'[i].event = letters[i].event
                       /\ i # n => (Resting(i) => Resting(i)')
                 /\ letters[n].event \in Events
                 /\ \/ queue' = Published(letters[n].event)
                    \/ queue' = queue /\ (Resting(n) => Resting(n)')
<1>1. DOMAIN letters' = DOMAIN letters
  BY OperatorTypes DEF LettersInv
<1>2. PICK n \in DOMAIN letters :
        /\ operator[o].pc # "idle" /\ operator[o].letter = n
        /\ letters[n] \in Letter /\ ~letters[n].replayed
        /\ \A q \in Operators \ {o} : operator[q].pc # "idle" => operator[q].letter # n
        /\ \A q \in Operators \ {o} : operator'[q] = operator[q]
        /\ \A i \in DOMAIN letters \ {n} : letters'[i] = letters[i]
        /\ letters'[n].consumer = letters[n].consumer
        /\ letters'[n].event = letters[n].event
        /\ PublishReplay(o) => /\ operator'[o].pc = "sent" /\ operator'[o].letter = n
                               /\ letters'[n].sends = letters[n].sends + 1
                               /\ letters'[n].cuts = letters[n].cuts
                               /\ ~letters'[n].replayed
        /\ MarkReplayed(o) => /\ operator'[o].pc = "idle" /\ letters'[n].replayed
                              /\ letters'[n].sends = letters[n].sends
                              /\ letters'[n].cuts = letters[n].cuts
        /\ ReplayCrash(o) => /\ operator'[o].pc = "idle" /\ ~letters'[n].replayed
                             /\ letters'[n].sends = letters[n].sends
                             /\ letters'[n].cuts = letters[n].cuts
                                  + (IF operator[o].pc = "sent" THEN 1 ELSE 0)
  BY LetterOf
<1>3. \A q \in Operators \ {o} : operator'[q].pc # "idle" => operator'[q].letter # n
  BY <1>2
<1>4. \A i \in DOMAIN letters \ {n} : Sending(i)' = Sending(i) /\ Resting(i)' = Resting(i)
  <2> TAKE i \in DOMAIN letters \ {n}
  <2>1. (operator'[o].pc = "sent" => operator'[o].letter # i) /\ operator[o].letter # i
    BY <1>2
  <2>2. letters'[i] = letters[i]
    BY <1>2
  <2>3. \A q \in Operators : (operator'[q].pc = "sent" /\ operator'[q].letter = i)
                               <=> (operator[q].pc = "sent" /\ operator[q].letter = i)
    BY <1>2, <2>1
  <2> QED BY <2>2, <2>3 DEF Sending, Resting
<1>5. /\ Sending(n) <=> operator[o].pc = "sent"
      /\ Sending(n)' <=> operator'[o].pc = "sent"
  BY <1>2, <1>3 DEF Sending
<1>6. Replays'
  <2> SUFFICES ASSUME NEW q \in Operators, operator'[q].pc # "idle"
               PROVE  /\ operator'[q].letter \in DOMAIN letters'
                      /\ ~letters'[operator'[q].letter].replayed
                      /\ \A r \in Operators \ {q} :
                            operator'[r].pc # "idle" => operator'[r].letter # operator'[q].letter
    BY DEF Replays
  <2>1. CASE q = o
    BY <1>1, <1>2, <1>3, <2>1
  <2>2. CASE q # o
    <3>1. operator'[q] = operator[q] /\ operator[q].letter # n
      BY <1>2, <2>2
    <3>2. /\ operator[q].letter \in DOMAIN letters
          /\ ~letters[operator[q].letter].replayed
          /\ \A r \in Operators \ {q} :
                operator[r].pc # "idle" => operator[r].letter # operator[q].letter
      BY <3>1 DEF LettersInv, Replays
    <3>3. \A r \in Operators \ {q} :
            operator'[r].pc # "idle" => operator'[r].letter # operator[q].letter
      BY <1>2, <3>1, <3>2
    <3> QED BY <1>1, <1>2, <3>1, <3>2, <3>3
  <2> QED BY <2>1, <2>2
<1>7. LetterAccount'
  <2> SUFFICES ASSUME NEW i \in DOMAIN letters
               PROVE  letters'[i].sends = letters'[i].cuts
                        + (IF letters'[i].replayed \/ Sending(i)' THEN 1 ELSE 0)
    BY <1>1 DEF LetterAccount
  <2>1. letters[i].sends = letters[i].cuts + (IF letters[i].replayed \/ Sending(i) THEN 1 ELSE 0)
    BY DEF LettersInv, LetterAccount
  <2>2. CASE i # n
    BY <1>2, <1>4, <2>1, <2>2
  <2>3. CASE i = n
    <3>1. letters[n].sends \in Nat /\ letters[n].cuts \in Nat
      BY <1>2 DEF Letter
    <3>2. PublishReplay(o) => operator[o].pc = "locked"
      BY DEF PublishReplay
    <3>3. MarkReplayed(o) => operator[o].pc = "sent"
      BY DEF MarkReplayed
    <3> QED BY <1>2, <1>5, <2>1, <2>3, <3>1, <3>2, <3>3
  <2> QED BY <2>2, <2>3
<1>8. \/ queue' = Published(letters[n].event)
      \/ queue' = queue /\ (Resting(n) => Resting(n)')
  <2>1. CASE PublishReplay(o)
    BY <1>2, <2>1 DEF PublishReplay
  <2>2. CASE MarkReplayed(o)
    BY <1>2, <2>2 DEF MarkReplayed, Resting
  <2>3. CASE ReplayCrash(o)
    <3>1. Resting(n)'
      BY <1>2, <1>3, <2>3 DEF Resting
    <3> QED BY <2>3, <3>1 DEF ReplayCrash
  <2> QED BY <2>1, <2>2, <2>3
<1>9. letters[n].event \in Events
  BY <1>2 DEF Letter
<1> QED BY <1>1, <1>2, <1>4, <1>6, <1>7, <1>8, <1>9 DEF LettersInv

-----------------------------------------------------------------------------
(* The trace. *)

\* A process stands for the message it holds, a letter that rests for its event.
Holds(p, c, e) == /\ process[p].pc \in {"received", "handling", "raised"}
                  /\ process[p].held /\ Key(p) = <<c, e>>
Rests(c, e) ==
    \E i \in DOMAIN letters : letters[i].consumer = c /\ letters[i].event = e /\ Resting(i)

\* What has to be shown of a step, one kind of trace after the other.
LEMMA TraceKept ==
    ASSUME Traced, inbox \subseteq inbox',
           \A e \in Events, c \in Consumers :
              /\ Out(e)' => Out(e) \/ Traceable(c, e)'
              /\ queue[c][e] > 0 => Traceable(c, e)'
              /\ Rests(c, e) => Traceable(c, e)'
              /\ \A p \in Processes : Holds(p, c, e) => Traceable(c, e)'
    PROVE  Traced'
<1> SUFFICES ASSUME NEW e \in Events, NEW c \in Consumers, Out(e)'
             PROVE  Traceable(c, e)'
  BY DEF Traced
<1>1. CASE Out(e)
  <2>1. Traceable(c, e)
    BY <1>1 DEF Traced
  <2>2. <<c, e>> \in inbox => Traceable(c, e)'
    BY DEF Traceable
  <2> QED BY <2>1, <2>2 DEF Traceable, Holds, Rests
<1>2. CASE ~Out(e)
  BY <1>2
<1> QED BY <1>1, <1>2

\* A publish gives every consumer a message and takes none away.
LEMMA PublishedGrows ==
    ASSUME Typed, NEW f \in Events, queue' = Published(f)
    PROVE  \A c \in Consumers, e \in Events : queue[c][e] > 0 \/ e = f => queue'[c][e] > 0
BY DEF Typed, TypeOK, Published

\* What goes back to the queue is there, and no other message is lost.
LEMMA RequeuedGrows ==
    ASSUME Typed, NEW p \in Processes, queue' = Requeued(p)
    PROVE  \A c \in Consumers, e \in Events :
              queue[c][e] > 0 \/ Holds(p, c, e) => queue'[c][e] > 0
<1>1. ConsumerOf[p] \in Consumers /\ process[p].event \in Events
  BY EventsAssumption DEF Typed, TypeOK, ProcessState
<1>2. queue \in [Consumers -> [Events -> Nat]]
  BY DEF Typed, TypeOK
<1>3. TAKE c \in Consumers, e \in Events
<1>4. CASE ~process[p].held
  BY <1>4 DEF Requeued, Holds
<1>5. CASE process[p].held
  <2>1. queue'[c][e] = IF c = ConsumerOf[p] /\ e = process[p].event THEN queue[c][e] + 1
                       ELSE queue[c][e]
    BY <1>1, <1>2, <1>5 DEF Requeued
  <2>2. queue[c][e] \in Nat
    BY <1>2
  <2>3. Holds(p, c, e) => c = ConsumerOf[p] /\ e = process[p].event
    BY DEF Holds, Key
  <2> QED BY <2>1, <2>2, <2>3
<1> QED BY <1>4, <1>5

\* Steps of producers and dispatchers: what is out from now on is in every queue.
LEMMA TraceOfOutbox ==
    ASSUME Typed, Traced, UNCHANGED <<process, inbox, letters, operator>>,
           NEW f \in Events,
           \A e \in Events : Out(e)' => Out(e) \/ (e = f /\ queue' = Published(f)),
           queue' = queue \/ \E g \in Events : queue' = Published(g)
    PROVE  Traced'
<1>1. \A c \in Consumers, e \in Events : queue[c][e] > 0 => queue'[c][e] > 0
  BY PublishedGrows
<1>2. \A c \in Consumers, e \in Events : queue'[c][e] > 0 => Traceable(c, e)'
  BY DEF Traceable
<1>3. \A c \in Consumers, e \in Events : Rests(c, e) => Traceable(c, e)'
  BY DEF Rests, Traceable, Resting
<1>4. \A c \in Consumers, e \in Events, p \in Processes : Holds(p, c, e) => Traceable(c, e)'
  BY DEF Holds, Traceable, Key
<1>5. \A c \in Consumers, e \in Events : Out(e)' => Out(e) \/ Traceable(c, e)'
  <2>1. ASSUME queue' = Published(f) PROVE \A c \in Consumers : queue'[c][f] > 0
    BY <2>1, PublishedGrows
  <2> QED BY <1>2, <2>1
<1> QED BY <1>1, <1>2, <1>3, <1>4, <1>5, TraceKept

\* Steps of one process: it hands on what it holds, and takes only what it holds afterwards.
LEMMA TraceOfProcess ==
    ASSUME Typed, Traced, UNCHANGED <<outbox, dispatcher>>, inbox \subseteq inbox',
           NEW p \in Processes, \A q \in Processes \ {p} : process'[q] = process[q],
           \A c \in Consumers, e \in Events :
              /\ queue[c][e] > 0 => queue'[c][e] > 0 \/ Holds(p, c, e)'
              /\ Rests(c, e) => Rests(c, e)'
              /\ Holds(p, c, e) => \/ Holds(p, c, e)' \/ <<c, e>> \in inbox'
                                   \/ queue'[c][e] > 0 \/ Rests(c, e)'
    PROVE  Traced'
<1>1. \A c \in Consumers, e \in Events :
        /\ (queue'[c][e] > 0) \/ (<<c, e>> \in inbox') \/ Rests(c, e)' => Traceable(c, e)'
        /\ \A q \in Processes : Holds(q, c, e)' => Traceable(c, e)'
  BY DEF Traceable, Rests, Holds
<1>2. \A c \in Consumers, e \in Events, q \in Processes \ {p} :
        Holds(q, c, e) => Holds(q, c, e)'
  BY DEF Holds, Key
<1>3. \A e \in Events : Out(e)' = Out(e)
  BY DEF Out
<1> QED BY <1>1, <1>2, <1>3, TraceKept

-----------------------------------------------------------------------------
(* The steps. *)

\* The steps of the dispatchers.
LEMMA OutboxSteps ==
    ASSUME Inv, NEW d \in Dispatchers, NEW accepted \in BOOLEAN,
           BeginBatch(d) \/ PublishRow(d) \/ PublishFails(d, accepted)
             \/ CommitBatch(d) \/ DispatcherCrash(d)
    PROVE  Inv'
<1>1. Typed /\ OutboxInv /\ InboxInv /\ LettersInv /\ Traced
  BY DEF Inv
<1>2. UNCHANGED <<process, inbox, letters, operator>>
  BY DEF BeginBatch, PublishRow, PublishFails, CommitBatch, DispatcherCrash
<1>3. history'.effects = history.effects
  BY <1>1 DEF BeginBatch, PublishRow, PublishFails, CommitBatch, DispatcherCrash,
              Typed, TypeOK, HistoryType
<1>4. InboxInv'
  BY <1>1, <1>2, <1>3, InboxStays DEF At
<1>5. LettersInv'
  BY <1>1, <1>2, LettersStay
<1>6. Typed'
  BY <1>1, DispatcherTypes
<1>7. PICK any \in Events : TRUE
  BY EventsAssumption
<1>8. OutboxInv' /\ Traced'
  <2>1. CASE BeginBatch(d)
    <3>1. queue' = queue
      BY <2>1 DEF BeginBatch
    <3> QED BY <1>1, <1>2, <1>7, <2>1, <3>1, OutboxLocked, TraceOfOutbox
  <2>2. CASE PublishRow(d)
    <3>1. OutboxInv'
      BY <1>1, <2>2, OutboxPublished
    <3>2. PICK f \in Events : /\ \A g \in Events : Out(g)' => g = f \/ Out(g)
                              /\ queue' = Published(f)
      BY <1>1, <2>2, OutboxPublished
    <3> QED BY <1>1, <1>2, <1>7, <3>1, <3>2, TraceOfOutbox
  <2>3. CASE PublishFails(d, accepted)
    BY <1>1, <1>2, <1>7, <2>3, OutboxRaised, TraceOfOutbox
  <2>4. CASE CommitBatch(d)
    <3>1. queue' = queue
      BY <2>4 DEF CommitBatch
    <3> QED BY <1>1, <1>2, <1>7, <2>4, <3>1, OutboxCommitted, TraceOfOutbox
  <2>5. CASE DispatcherCrash(d)
    <3>1. queue' = queue
      BY <2>5 DEF DispatcherCrash
    <3> QED BY <1>1, <1>2, <1>7, <2>5, <3>1, OutboxRolledBack, TraceOfOutbox
  <2> QED BY <2>1, <2>2, <2>3, <2>4, <2>5
<1> QED BY <1>4, <1>5, <1>6, <1>8 DEF Inv

\* A step of a process, as far as the outbox and the other processes go.
LEMMA ProcessAlone ==
    ASSUME Typed, OutboxInv, NEW p \in Processes, NEW error \in Errors, NEW committed \in BOOLEAN,
           Consume(p) \/ ConsumerCrash(p) \/ Redeliver(p) \/ HandlerRaises(p, error)
             \/ DatabaseFault(p, committed)
    PROVE  /\ UNCHANGED <<outbox, dispatcher, operator>>
           /\ \A q \in Processes \ {p} : process'[q] = process[q]
           /\ OutboxInv'
<1>1. UNCHANGED <<outbox, dispatcher, operator>>
  BY DEF Consume, Receive, Reject, InsertInbox, CommitEffect, Ack, RejectRequeue,
         RecordDeadLetter, RejectDead, ConsumerCrash, Redeliver, HandlerRaises, DatabaseFault
<1>2. \A q \in Processes \ {p} : process'[q] = process[q]
  BY DEF Consume, Receive, Reject, InsertInbox, CommitEffect, Ack, RejectRequeue,
         RecordDeadLetter, RejectDead, ConsumerCrash, Redeliver, HandlerRaises, DatabaseFault,
         Goto, Raise, Done, Typed, TypeOK
<1>3. history' = history \/ Effect(p)
  BY DEF Consume, Receive, Reject, InsertInbox, CommitEffect, Ack, RejectRequeue,
         RecordDeadLetter, RejectDead, ConsumerCrash, Redeliver, HandlerRaises, DatabaseFault
<1>4. /\ history'.sent = history.sent /\ history'.cut = history.cut
      /\ history'.raised = history.raised
  BY <1>3, EffectCounts DEF Typed
<1>5. OutboxInv'
  BY <1>1, <1>4, OutboxStays
<1> QED BY <1>1, <1>2, <1>5

\* The steps of consume_one.
LEMMA ConsumerSteps ==
    ASSUME Inv, NEW p \in Processes, Consume(p)
    PROVE  Inv'
<1>1. Typed /\ OutboxInv /\ InboxInv /\ LettersInv /\ Traced
  BY DEF Inv
<1>2. Typed'
  BY <1>1, ConsumerTypes
<1>3. /\ UNCHANGED <<outbox, dispatcher, operator>>
      /\ \A q \in Processes \ {p} : process'[q] = process[q]
      /\ OutboxInv'
  <2>1. "none" # "invalid" /\ "invalid" \in Errors /\ TRUE \in BOOLEAN
    BY DEF Errors
  <2> QED BY <1>1, <2>1, ProcessAlone
<1>4. process \in [Processes -> ProcessState]
  BY <1>1 DEF Typed, TypeOK
<1>5. letters' = letters => \A c \in Consumers, f \in Events : Rests(c, f) => Rests(c, f)'
  BY <1>3 DEF Rests, Resting
<1> SUFFICES InboxInv' /\ LettersInv' /\ Traced'
  BY <1>2, <1>3 DEF Inv
<1>6. ASSUME NEW e \in Events, Receive(p, e) PROVE InboxInv' /\ LettersInv' /\ Traced'
  <2>1. /\ process[p].pc = "idle" /\ UNCHANGED <<inbox, letters, history>>
        /\ process'[p] = [pc |-> "received", event |-> e, held |-> TRUE, error |-> "none"]
        /\ queue' = [queue EXCEPT ![ConsumerOf[p]][e] = @ - 1]
    BY <1>4, <1>6 DEF Receive, At
  <2>2. InboxInv'
    BY <1>1, <1>3, <2>1, InboxStays DEF At
  <2>3. \A c \in Consumers, f \in Events : ~Holds(p, c, f)
    BY <2>1 DEF Holds
  <2>4. \A c \in Consumers, f \in Events :
          queue[c][f] > 0 => queue'[c][f] > 0 \/ Holds(p, c, f)'
    <3> TAKE c \in Consumers, f \in Events
    <3>1. ConsumerOf[p] \in Consumers /\ queue \in [Consumers -> [Events -> Nat]]
      BY <1>1, EventsAssumption DEF Typed, TypeOK
    <3>2. CASE c = ConsumerOf[p] /\ f = e
      BY <2>1, <3>2 DEF Holds, Key
    <3>3. CASE ~(c = ConsumerOf[p] /\ f = e)
      BY <2>1, <3>1, <3>3
    <3> QED BY <3>2, <3>3
  <2> QED BY <1>1, <1>3, <1>5, <2>1, <2>2, <2>3, <2>4, LettersStay, TraceOfProcess
<1>7. CASE Reject(p)
  <2>1. /\ process[p].pc = "received" /\ UNCHANGED <<queue, inbox, letters, history>>
        /\ process'[p] = [process[p] EXCEPT !.pc = "raised", !.error = "invalid"]
    BY <1>4, <1>7 DEF Reject, Raise, At
  <2>2. /\ process'[p].pc = "raised" /\ process'[p].event = process[p].event
        /\ process'[p].held = process[p].held
    BY <1>4, <2>1 DEF ProcessState
  <2>3. InboxInv'
    BY <1>1, <1>3, <2>1, <2>2, InboxStays DEF At
  <2>4. \A c \in Consumers, f \in Events : Holds(p, c, f) => Holds(p, c, f)'
    BY <2>2 DEF Holds, Key
  <2> QED BY <1>1, <1>3, <1>5, <2>1, <2>3, <2>4, LettersStay, TraceOfProcess
<1>8. CASE InsertInbox(p)
  <2>1. /\ process[p].pc = "received" /\ UNCHANGED <<queue, inbox, letters, history>>
        /\ process'[p] = [process[p] EXCEPT !.pc = IF Duplicate(p) THEN "answered" ELSE "handling"]
    BY <1>4, <1>8 DEF InsertInbox, Goto, At
  <2>2. /\ process'[p].pc = IF Duplicate(p) THEN "answered" ELSE "handling"
        /\ process'[p].event = process[p].event /\ process'[p].held = process[p].held
    BY <1>4, <2>1 DEF ProcessState
  <2>3. InboxInv'
    BY <1>1, <1>8, InboxInserted
  <2>4. \A c \in Consumers, f \in Events :
          Holds(p, c, f) => Holds(p, c, f)' \/ <<c, f>> \in inbox'
    BY <2>1, <2>2 DEF Holds, Key, Duplicate
  <2> QED BY <1>1, <1>3, <1>5, <2>1, <2>3, <2>4, LettersStay, TraceOfProcess
<1>9. CASE CommitEffect(p)
  <2>1. /\ At(p, "handling") /\ Effect(p) /\ UNCHANGED <<queue, letters>>
        /\ process'[p] = [process[p] EXCEPT !.pc = "answered"]
    BY <1>4, <1>9 DEF CommitEffect, Goto
  <2>2. process'[p].pc = "answered" /\ process'[p].event = process[p].event
    BY <1>4, <2>1 DEF ProcessState
  <2>3. InboxInv'
    BY <1>1, <1>3, <2>1, <2>2, InboxCommitted
  <2>4. inbox' = inbox \cup {Key(p)}
    BY <2>1 DEF Effect
  <2>5. \A c \in Consumers, f \in Events : Holds(p, c, f) => <<c, f>> \in inbox'
    BY <2>4 DEF Holds
  <2> QED BY <1>1, <1>3, <1>5, <2>1, <2>3, <2>4, <2>5, LettersStay, TraceOfProcess
<1>10. CASE Ack(p) \/ RejectDead(p)
  <2>1. /\ process[p].pc \in {"answered", "recorded"}
        /\ UNCHANGED <<queue, inbox, letters, history>> /\ process'[p] = Idle
    BY <1>4, <1>10 DEF Ack, RejectDead, Done, At
  <2>2. InboxInv'
    BY <1>1, <1>3, <2>1, InboxStays DEF At, Idle
  <2>3. \A c \in Consumers, f \in Events : ~Holds(p, c, f)
    BY <2>1 DEF Holds
  <2> QED BY <1>1, <1>3, <1>5, <2>1, <2>2, <2>3, LettersStay, TraceOfProcess
<1>11. CASE RejectRequeue(p)
  <2>1. /\ UNCHANGED <<inbox, letters, history>> /\ process'[p] = Idle /\ queue' = Requeued(p)
    BY <1>4, <1>11 DEF RejectRequeue, Done
  <2>2. InboxInv'
    BY <1>1, <1>3, <2>1, InboxStays DEF At, Idle
  <2> QED BY <1>1, <1>3, <1>5, <2>1, <2>2, LettersStay, RequeuedGrows, TraceOfProcess
<1>12. CASE RecordDeadLetter(p)
  <2>1. /\ UNCHANGED <<queue, inbox, history>>
        /\ process'[p] = [process[p] EXCEPT !.pc = "recorded", !.error = "none"]
    BY <1>4, <1>12 DEF RecordDeadLetter
  <2>2. process'[p].pc = "recorded"
    BY <1>4, <2>1 DEF ProcessState
  <2>3. InboxInv'
    BY <1>1, <1>3, <2>1, <2>2, InboxStays DEF At
  <2>4. LettersInv'
    BY <1>1, <1>12, LettersGrow
  <2>5. \A c \in Consumers, f \in Events : Rests(c, f) => Rests(c, f)'
    <3>1. \A i \in DOMAIN letters : i \in DOMAIN letters' /\ letters'[i] = letters[i]
      BY <1>1, <1>12, LettersGrow
    <3> QED BY <1>3, <3>1 DEF Rests, Resting
  <2>6. \A c \in Consumers, f \in Events : Holds(p, c, f) => Rests(c, f)'
    <3>1. \E i \in DOMAIN letters' : /\ letters'[i].consumer = ConsumerOf[p]
                                     /\ letters'[i].event = process[p].event /\ Resting(i)'
      BY <1>1, <1>12, LettersGrow
    <3> QED BY <3>1 DEF Holds, Key, Rests
  <2> QED BY <1>1, <1>3, <2>1, <2>3, <2>4, <2>5, <2>6, TraceOfProcess
<1> QED BY <1>6, <1>7, <1>8, <1>9, <1>10, <1>11, <1>12 DEF Consume

\* Handlers that raise, statements that time out, crashes and lost connections.
LEMMA ConsumerFaults ==
    ASSUME Inv, NEW p \in Processes, NEW error \in Errors, NEW committed \in BOOLEAN,
           ConsumerCrash(p) \/ Redeliver(p) \/ HandlerRaises(p, error)
             \/ DatabaseFault(p, committed)
    PROVE  Inv'
<1>1. Typed /\ OutboxInv /\ InboxInv /\ LettersInv /\ Traced
  BY DEF Inv
<1>2. Typed'
  BY <1>1, ConsumerFaultTypes
<1>3. /\ UNCHANGED <<outbox, dispatcher, operator>>
      /\ \A q \in Processes \ {p} : process'[q] = process[q]
      /\ OutboxInv'
  BY <1>1, ProcessAlone
<1>4. process \in [Processes -> ProcessState] /\ UNCHANGED letters
  BY <1>1 DEF Typed, TypeOK, ConsumerCrash, Redeliver, HandlerRaises, DatabaseFault
<1>5. LettersInv' /\ \A c \in Consumers, f \in Events : Rests(c, f) => Rests(c, f)'
  BY <1>1, <1>3, <1>4, LettersStay DEF Rests, Resting
<1> SUFFICES InboxInv' /\ Traced'
  BY <1>2, <1>3, <1>5 DEF Inv
<1>6. CASE ConsumerCrash(p)
  <2>1. /\ UNCHANGED <<inbox, history>> /\ process'[p] = Idle /\ queue' = Requeued(p)
    BY <1>4, <1>6 DEF ConsumerCrash, Done
  <2>2. InboxInv'
    BY <1>1, <1>3, <2>1, InboxStays DEF At, Idle
  <2> QED BY <1>1, <1>3, <1>5, <2>1, <2>2, RequeuedGrows, TraceOfProcess
<1>7. CASE Redeliver(p)
  <2>1. /\ UNCHANGED <<inbox, history>> /\ queue' = Requeued(p)
        /\ process'[p] = [process[p] EXCEPT !.held = FALSE]
    BY <1>4, <1>7 DEF Redeliver
  <2>2. process'[p].pc = process[p].pc /\ process'[p].event = process[p].event
    BY <1>4, <2>1 DEF ProcessState
  <2>3. InboxInv'
    BY <1>1, <1>3, <2>1, <2>2, InboxStays DEF At
  <2> QED BY <1>1, <1>3, <1>5, <2>1, <2>3, RequeuedGrows, TraceOfProcess
<1>8. ASSUME HandlerRaises(p, error) \/ DatabaseFault(p, committed)
      PROVE  /\ UNCHANGED queue
             /\ process[p].pc \in {"received", "handling"} /\ process'[p].pc = "raised"
             /\ process'[p].event = process[p].event /\ process'[p].held = process[p].held
             /\ \/ UNCHANGED <<inbox, history>>
                \/ At(p, "handling") /\ Effect(p)
  <2>1. \E name \in Errors :
          process'[p] = [process[p] EXCEPT !.pc = "raised", !.error = name]
    BY <1>4, <1>8 DEF HandlerRaises, DatabaseFault, Raise, Errors
  <2>2. /\ process'[p].pc = "raised"
        /\ process'[p].event = process[p].event /\ process'[p].held = process[p].held
    BY <1>4, <2>1 DEF ProcessState
  <2> QED BY <1>8, <2>2 DEF HandlerRaises, DatabaseFault, At
<1>9. CASE HandlerRaises(p, error) \/ DatabaseFault(p, committed)
  <2>1. InboxInv'
    <3>1. CASE UNCHANGED <<inbox, history>>
      BY <1>1, <1>3, <1>8, <1>9, <3>1, InboxStays DEF At
    <3>2. CASE At(p, "handling") /\ Effect(p)
      BY <1>1, <1>3, <1>8, <1>9, <3>2, InboxCommitted
    <3> QED BY <1>8, <1>9, <3>1, <3>2
  <2>2. inbox \subseteq inbox'
    BY <1>8, <1>9 DEF Effect
  <2>3. \A c \in Consumers, f \in Events : Holds(p, c, f) => Holds(p, c, f)'
    BY <1>8, <1>9 DEF Holds, Key
  <2>4. UNCHANGED queue
    BY <1>8, <1>9
  <2> QED BY <1>1, <1>3, <1>5, <2>1, <2>2, <2>3, <2>4, TraceOfProcess
<1> QED BY <1>6, <1>7, <1>8, <1>9

\* The steps of a replay: the event is in every queue before its letter stops resting.
LEMMA OperatorSteps ==
    ASSUME Inv, NEW o \in Operators,
           \/ \E i \in DOMAIN letters : LockLetter(o, i)
           \/ PublishReplay(o) \/ MarkReplayed(o) \/ ReplayCrash(o)
    PROVE  Inv'
<1>1. Typed /\ OutboxInv /\ InboxInv /\ LettersInv /\ Traced
  BY DEF Inv
<1>2. UNCHANGED <<outbox, dispatcher, process, inbox, history>>
  BY DEF LockLetter, PublishReplay, MarkReplayed, ReplayCrash
<1>3. Typed'
  BY <1>1, OperatorTypes DEF LettersInv
<1>4. OutboxInv' /\ \A e \in Events : Out(e)' = Out(e)
  BY <1>1, <1>2, OutboxStays
<1>5. InboxInv'
  BY <1>1, <1>2, InboxStays DEF At
<1>6. \A c \in Consumers, e \in Events, p \in Processes : Holds(p, c, e) => Traceable(c, e)'
  BY <1>2 DEF Holds, Traceable, Key
<1> SUFFICES LettersInv' /\ Traced'
  BY <1>3, <1>4, <1>5 DEF Inv
<1>7. ASSUME NEW i \in DOMAIN letters, LockLetter(o, i) PROVE LettersInv' /\ Traced'
  <2>1. /\ LettersInv' /\ UNCHANGED letters
        /\ \A j \in DOMAIN letters : Resting(j)' = Resting(j)
    BY <1>1, <1>7, LettersLocked
  <2>2. \A c \in Consumers, e \in Events : Rests(c, e) => Traceable(c, e)'
    BY <2>1 DEF Rests, Traceable
  <2>3. \A c \in Consumers, e \in Events : queue[c][e] > 0 => Traceable(c, e)'
    BY <1>7 DEF LockLetter, Traceable
  <2> QED BY <1>1, <1>2, <1>4, <1>6, <2>1, <2>2, <2>3, TraceKept
<1>8. CASE PublishReplay(o) \/ MarkReplayed(o) \/ ReplayCrash(o)
  <2>1. LettersInv'
    BY <1>1, <1>8, LettersReplayed
  <2>2. PICK n \in DOMAIN letters :
          /\ \A i \in DOMAIN letters :
                /\ i \in DOMAIN letters'
                /\ letters'[i].consumer = letters[i].consumer
                /\ letters'[i].event = letters[i].event
                /\ i # n => (Resting(i) => Resting(i)')
          /\ letters[n].event \in Events
          /\ \/ queue' = Published(letters[n].event)
             \/ queue' = queue /\ (Resting(n) => Resting(n)')
    BY <1>1, <1>8, LettersReplayed
  <2>3. \A c \in Consumers, e \in Events :
          queue[c][e] > 0 \/ (queue' # queue /\ e = letters[n].event) => queue'[c][e] > 0
    BY <1>1, <2>2, PublishedGrows
  <2>4. \A c \in Consumers, e \in Events : queue'[c][e] > 0 => Traceable(c, e)'
    BY DEF Traceable
  <2>5. \A c \in Consumers, e \in Events : Rests(c, e) => Traceable(c, e)'
    <3> TAKE c \in Consumers, e \in Events
    <3> HAVE Rests(c, e)
    <3>1. PICK i \in DOMAIN letters :
            letters[i].consumer = c /\ letters[i].event = e /\ Resting(i)
      BY DEF Rests
    <3>2. CASE Resting(i)'
      BY <2>2, <3>1, <3>2 DEF Traceable
    <3>3. CASE ~Resting(i)'
      <4>1. i = n /\ queue' = Published(letters[n].event)
        BY <2>2, <3>1, <3>3
      <4>2. queue'[c][e] > 0
        BY <1>1, <2>2, <3>1, <4>1, PublishedGrows
      <4> QED BY <2>4, <4>2
    <3> QED BY <3>2, <3>3
  <2> QED BY <1>1, <1>2, <1>4, <1>6, <2>1, <2>3, <2>4, <2>5, TraceKept
<1> QED BY <1>7, <1>8

\* Before the first event there is nothing to account for.
LEMMA InitInv == Init => Inv
<1> SUFFICES ASSUME Init PROVE Inv
  OBVIOUS
<1>1. Closed \in Transaction /\ Off \in OperatorState
  BY DEF Closed, Transaction, Off, OperatorState
<1>2. Idle \in ProcessState
  <2>1. \E e \in Events : TRUE
    BY EventsAssumption
  <2>2. (CHOOSE e \in Events : TRUE) \in Events
    BY <2>1
  <2> QED BY <2>2 DEF Idle, ProcessState
<1>3. TypeOK
  <2>1. letters \in Seq(Letter)
    BY DEF Init
  <2>2. history \in HistoryType
    BY DEF Init, HistoryType
  <2>3. bounds \in [replays : 0 .. MaxReplays, faults : 0 .. MaxFaults, crashes : 0 .. MaxCrashes]
    BY EventsAssumption DEF Init
  <2> QED BY <1>1, <1>2, <2>1, <2>2, <2>3 DEF Init, TypeOK, Row
<1>4. Blamed
  BY DEF Init, Blamed, At, Idle
<1>5. OutboxInv
  BY DEF Init, OutboxInv, Locks, SentAccount, AttemptsAreEvidence, Out, Closed
<1>6. InboxInv
  BY DEF Init, InboxInv, Handlers, HandledOnce, At, Idle
<1>7. LettersInv
  BY DEF Init, LettersInv, Replays, LetterAccount, Off
<1>8. Traced
  BY DEF Init, Traced, Out, Closed
<1> QED BY <1>3, <1>4, <1>5, <1>6, <1>7, <1>8 DEF Inv, Typed

\* Every step keeps the invariant.
LEMMA NextInv == Inv /\ [Next]_vars => Inv'
<1> SUFFICES ASSUME Inv, [Next]_vars PROVE Inv'
  OBVIOUS
<1>0. (\E f \in Events : TRUE) /\ TRUE \in BOOLEAN /\ "invalid" \in Errors
  BY EventsAssumption DEF Errors
<1>1. ASSUME NEW e \in Events, CreateEvent(e) PROVE Inv'
  <2>1. Typed /\ OutboxInv /\ InboxInv /\ LettersInv /\ Traced
    BY DEF Inv
  <2>2. UNCHANGED <<dispatcher, queue, process, inbox, letters, operator, bounds, history>>
    BY <1>1 DEF CreateEvent
  <2>3. Typed'
    BY <1>1, <2>1, <2>2 DEF CreateEvent, Typed, TypeOK, Row, Blamed, At
  <2>4. OutboxInv' /\ \A f \in Events : Out(f)' = Out(f)
    BY <1>1, <2>1, OutboxGrows
  <2>5. InboxInv'
    BY <2>1, <2>2, InboxStays DEF At
  <2>6. Traced'
    BY <2>1, <2>2, <2>4, TraceOfOutbox
  <2> QED BY <2>1, <2>2, <2>3, <2>4, <2>5, <2>6, LettersStay DEF Inv
<1>2. ASSUME NEW d \in Dispatchers, Dispatch(d) \/ DispatcherCrash(d) PROVE Inv'
  BY <1>0, <1>2, OutboxSteps DEF Dispatch
<1>3. ASSUME NEW d \in Dispatchers, NEW accepted \in BOOLEAN, PublishFails(d, accepted)
      PROVE  Inv'
  BY <1>0, <1>3, OutboxSteps
<1>4. ASSUME NEW p \in Processes, Consume(p) \/ ConsumerCrash(p) \/ Redeliver(p) PROVE Inv'
  BY <1>0, <1>4, ConsumerSteps, ConsumerFaults
<1>5. ASSUME NEW p \in Processes, NEW error \in Errors, HandlerRaises(p, error) PROVE Inv'
  BY <1>0, <1>5, ConsumerFaults
<1>6. ASSUME NEW p \in Processes, NEW committed \in BOOLEAN, DatabaseFault(p, committed)
      PROVE  Inv'
  BY <1>0, <1>6, ConsumerFaults
<1>7. ASSUME NEW o \in Operators,
             \/ \E i \in DOMAIN letters : LockLetter(o, i)
             \/ PublishReplay(o) \/ MarkReplayed(o) \/ ReplayCrash(o)
      PROVE  Inv'
  BY <1>7, OperatorSteps
<1>8. CASE UNCHANGED vars
  BY <1>8 DEF vars, Inv, Typed, TypeOK, Blamed, OutboxInv, Locks, SentAccount,
              AttemptsAreEvidence, Out, InboxInv, Handlers, HandledOnce, At, Key, LettersInv,
              Replays, LetterAccount, Sending, Traced, Traceable, Resting
<1> QED BY <1>1, <1>2, <1>3, <1>4, <1>5, <1>6, <1>7, <1>8 DEF Next

LEMMA SpecInv == Spec => []Inv
BY InitInv, NextInv, PTL DEF Spec

-----------------------------------------------------------------------------
(* The theorems. *)

\* Rows, transactions, messages, letters and counters keep their types.
THEOREM TypeCorrect == Spec => []TypeOK
<1>1. Inv => TypeOK
  BY DEF Inv, Typed
<1> QED BY <1>1, SpecInv, PTL

\* The effect of an event is committed once at each consumer, with its inbox row.
THEOREM EffectsHappenOnce == Spec => []HandledOnce
<1>1. Inv => HandledOnce
  BY DEF Inv, InboxInv
<1> QED BY <1>1, SpecInv, PTL

\* What counts as published can be found again at every consumer.
THEOREM NoEventIsLost == Spec => []NothingIsLost
<1>1. Inv => NothingIsLost
  BY DEF Inv, Traced, Out, NothingIsLost
<1> QED BY <1>1, SpecInv, PTL

\* Two dispatchers never publish the same row, but for what a crash or a failure cut off.
THEOREM RowsArePublishedOnce == Spec => []PublishedOnce
<1>1. ASSUME Inv PROVE PublishedOnce
  <2> SUFFICES ASSUME NEW e \in Events PROVE history.sent[e] <= history.cut[e] + 1
    BY DEF PublishedOnce
  <2>1. history.sent[e] = history.cut[e] + (IF Out(e) THEN 1 ELSE 0) /\ history.cut[e] \in Nat
    BY <1>1 DEF Inv, OutboxInv, SentAccount, Typed, TypeOK, HistoryType
  <2> QED BY <2>1
<1>2. Inv => PublishedOnce
  BY <1>1
<1> QED BY <1>2, SpecInv, PTL

\* publish_attempts of a row counts the publishes that raised, and the one that was marked.
THEOREM AttemptsAreCounted == Spec => []AttemptsAreEvidence
<1>1. Inv => AttemptsAreEvidence
  BY DEF Inv, OutboxInv
<1> QED BY <1>1, SpecInv, PTL

\* Operators publish a dead letter once between them, but for the replays that were cut off.
THEOREM LettersAreReplayedOnce == Spec => []ReplayedOnce
<1>1. ASSUME Inv PROVE ReplayedOnce
  <2> SUFFICES ASSUME NEW i \in DOMAIN letters PROVE letters[i].sends <= letters[i].cuts + 1
    BY DEF ReplayedOnce
  <2>1. letters[i].sends = letters[i].cuts + (IF letters[i].replayed \/ Sending(i) THEN 1 ELSE 0)
    BY <1>1 DEF Inv, LettersInv, LetterAccount
  <2>2. letters[i].cuts \in Nat
    <3>1. letters[i] \in Letter
      BY <1>1 DEF Inv, Typed, TypeOK
    <3> QED BY <3>1 DEF Letter
  <2> QED BY <2>1, <2>2
<1>2. Inv => ReplayedOnce
  BY <1>1
<1> QED BY <1>2, SpecInv, PTL

=============================================================================
