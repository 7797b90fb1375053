---------------------------- MODULE EventRuntime ----------------------------
(***************************************************************************)
(* Domain events of the worker's event runtime, from the commit that wrote *)
(* a row of outbox_events to the commit of its effect at every consumer:   *)
(*                                                                         *)
(*   dispatch  OutboxDispatcher locks the oldest unpublished rows, skips   *)
(*             what others have locked, publishes and marks row by row in  *)
(*             one transaction, and stops at the first publish that raises;*)
(*   consume   consume_one takes a message, validates it, inserts the      *)
(*             inbox row and runs the handler in one transaction, and      *)
(*             answers the broker after the commit;                        *)
(*   bury      an error that is not transient is recorded as a dead letter *)
(*             in a transaction of its own before the message is rejected; *)
(*   replay    an operator publishes a dead letter again, to the exchange  *)
(*             and so to every consumer, and marks it.                     *)
(*                                                                         *)
(* The queues of the consumers are declared before the first event.  Every *)
(* process may crash between two statements; the broker takes a message    *)
(* back when its process dies or its connection is lost.                   *)
(***************************************************************************)
EXTENDS Naturals, Sequences, FiniteSets

CONSTANTS Events,       \* events, numbered by created_at
          Malformed,    \* those whose envelope does not validate
          Consumers,    \* names of consumers
          Processes,    \* processes that run consume_one
          ConsumerOf,   \* [Processes -> Consumers]
          Dispatchers,  \* outbox dispatcher processes
          Operators,    \* runs of replay-dead-letter
          BatchLimit,   \* rows of one dispatch transaction
          MaxReplays,   \* bound: replays that are started
          MaxFaults,    \* bound: calls that raise, handlers' errors included
          MaxCrashes    \* bound: crashes of processes

ASSUME EventsAssumption ==
  /\ Events \subseteq Nat /\ Events # {} /\ Malformed \subseteq Events
  /\ ConsumerOf \in [Processes -> Consumers]
  /\ BatchLimit \in Nat \ {0}
  /\ MaxReplays \in Nat /\ MaxFaults \in Nat /\ MaxCrashes \in Nat

VARIABLES outbox,      \* [Events -> row of outbox_events]
          dispatcher,  \* [Dispatchers -> its open transaction]
          queue,       \* [Consumers -> [Events -> messages ready]]
          process,     \* [Processes -> the message it works on]
          inbox,       \* committed rows of inbox_events
          letters,     \* dead_letter_records, in the order of their commits
          operator,    \* [Operators -> the letter it replays]
          bounds,      \* counters behind MaxReplays, MaxFaults, MaxCrashes
          history      \* what happened: see HistoryType

vars == <<outbox, dispatcher, queue, process, inbox, letters, operator, bounds, history>>

Row == [state : {"absent", "unpublished", "published"}, attempts : Nat]
Transaction == [batch : SUBSET Events, sent : SUBSET Events, tried : SUBSET Events,
                failed : BOOLEAN]
Closed == [batch |-> {}, sent |-> {}, tried |-> {}, failed |-> FALSE]

(* What process() may raise: the code and the retryable attribute of the   *)
(* exception.  A time-out of the driver has neither: its code is the name  *)
(* of its type.                                                            *)
Errors == {"invalid", "rejected", "cancelled", "throttled", "TimeoutError"}
Code(error) == CASE error = "cancelled" -> "CANCELLED"
                 [] error = "throttled" -> "PROVIDER_429"
                 [] OTHER -> error
Retryable(error) == IF error \in {"invalid", "rejected"} THEN "false" ELSE "unset"

TransientCodes == {"TIMEOUT", "RATE_LIMITED", "PROVIDER_429", "PROVIDER_500", "PROVIDER_502",
                   "PROVIDER_503", "PROVIDER_504", "STORAGE_TEMPORARY", "BROKER_UNAVAILABLE"}
Category(error) ==
  IF Code(error) = "CANCELLED" THEN "cancelled"
  ELSE IF Retryable(error) = "unset" /\ Code(error) \in TransientCodes THEN "transient"
  ELSE "permanent"

(* held: the broker has delivered the message here and not taken it back.  *)
ProcessState == [pc : {"idle", "received", "handling", "answered", "raised", "recorded"},
                 event : Events, held : BOOLEAN, error : Errors \cup {"none"}]
Idle == [pc |-> "idle", event |-> CHOOSE e \in Events : TRUE, held |-> FALSE, error |-> "none"]

(* sends and cuts: replays of the letter that were published, and those of *)
(* them that were cut off before the mark.  What a record says of its      *)
(* error is left out: no replay looks at it.                               *)
Letter == [consumer : Consumers, event : Events, replayed : BOOLEAN, sends : Nat, cuts : Nat]
OperatorState == [pc : {"idle", "locked", "sent"}, letter : Nat]
Off == [pc |-> "idle", letter |-> 0]

(* sent: messages that dispatchers published; cut: those of them whose     *)
(* transaction did not mark them; raised: publishes that raised and whose  *)
(* transaction was committed; effects: commits of a handler's effect.      *)
HistoryType == [sent : [Events -> Nat], cut : [Events -> Nat], raised : [Events -> Nat],
                effects : [Consumers -> [Events -> Nat]]]

TypeOK ==
  /\ outbox \in [Events -> Row]
  /\ dispatcher \in [Dispatchers -> Transaction]
  /\ queue \in [Consumers -> [Events -> Nat]]
  /\ process \in [Processes -> ProcessState]
  /\ inbox \subseteq Consumers \X Events
  /\ letters \in Seq(Letter)
  /\ operator \in [Operators -> OperatorState]
  /\ bounds \in [replays : 0 .. MaxReplays, faults : 0 .. MaxFaults, crashes : 0 .. MaxCrashes]
  /\ history \in HistoryType

Init ==
  /\ outbox = [e \in Events |-> [state |-> "absent", attempts |-> 0]]
  /\ dispatcher = [d \in Dispatchers |-> Closed]
  /\ queue = [c \in Consumers |-> [e \in Events |-> 0]]
  /\ process = [p \in Processes |-> Idle]
  /\ inbox = {}
  /\ letters = <<>>
  /\ operator = [o \in Operators |-> Off]
  /\ bounds = [replays |-> 0, faults |-> 0, crashes |-> 0]
  /\ history = [sent |-> [e \in Events |-> 0], cut |-> [e \in Events |-> 0],
                raised |-> [e \in Events |-> 0],
                effects |-> [c \in Consumers |-> [e \in Events |-> 0]]]

Fault == bounds.faults < MaxFaults /\ bounds' = [bounds EXCEPT !.faults = @ + 1]
Crash == bounds.crashes < MaxCrashes /\ bounds' = [bounds EXCEPT !.crashes = @ + 1]

(* The topic exchange: a copy for the queue of every consumer.             *)
Published(e) == [c \in Consumers |-> [queue[c] EXCEPT ![e] = @ + 1]]
Count(f, S) == [e \in DOMAIN f |-> IF e \in S THEN f[e] + 1 ELSE f[e]]

-----------------------------------------------------------------------------
(* Producers and dispatchers.                                              *)

(* The transaction of a service commits its row; rows of later             *)
(* transactions may already be there.                                      *)
CreateEvent(e) ==
  /\ outbox[e].state = "absent"
  /\ outbox' = [outbox EXCEPT ![e].state = "unpublished"]
  /\ UNCHANGED <<dispatcher, queue, process, inbox, letters, operator, bounds, history>>

\* Slip: rows that another dispatcher has locked are read, too.
FreeWithoutLocks == {e \in Events : outbox[e].state = "unpublished"}

(* FOR UPDATE SKIP LOCKED: unpublished rows that nobody has locked.        *)
Free == {e \in Events : outbox[e].state = "unpublished"
                          /\ \A d \in Dispatchers : e \notin dispatcher[d].batch}

(* ORDER BY created_at LIMIT.                                              *)
Oldest(rows, free) ==
  /\ rows \subseteq free /\ Cardinality(rows) <= BatchLimit
  /\ Cardinality(rows) = BatchLimit \/ rows = free
  /\ \A e \in rows, f \in free \ rows : e < f

BeginBatch(d) ==
  /\ dispatcher[d] = Closed
  /\ \E rows \in SUBSET Free :
       /\ rows # {} /\ Oldest(rows, Free)
       /\ dispatcher' = [dispatcher EXCEPT ![d].batch = rows]
  /\ UNCHANGED <<outbox, queue, process, inbox, letters, operator, bounds, history>>

Turn(d) == {e \in dispatcher[d].batch \ dispatcher[d].tried :
              \A f \in dispatcher[d].batch \ dispatcher[d].tried : e <= f}

PublishRow(d) ==
  /\ ~dispatcher[d].failed
  /\ \E e \in Turn(d) :
       /\ queue' = Published(e)
       /\ dispatcher' = [dispatcher EXCEPT ![d].sent = @ \cup {e}, ![d].tried = @ \cup {e}]
       /\ history' = [history EXCEPT !.sent[e] = @ + 1]
  /\ UNCHANGED <<outbox, process, inbox, letters, operator, bounds>>

(* The publish raises, after the broker took the message or before; the    *)
(* rest of the batch is not tried.                                         *)
PublishFails(d, accepted) ==
  /\ ~dispatcher[d].failed
  /\ Fault
  /\ \E e \in Turn(d) :
       /\ queue' = IF accepted THEN Published(e) ELSE queue
       /\ dispatcher' = [dispatcher EXCEPT ![d].tried = @ \cup {e}, ![d].failed = TRUE]
       /\ history' = IF accepted THEN [history EXCEPT !.sent[e] = @ + 1, !.cut[e] = @ + 1]
                     ELSE history
  /\ UNCHANGED <<outbox, process, inbox, letters, operator>>

Finished(d) == dispatcher[d].failed \/ (dispatcher[d].sent # {} /\ Turn(d) = {})

\* Slip: every row of the batch is marked, the one that raised, too.
MarkedAll(d) == dispatcher[d].batch

Tried(d) == dispatcher[d].tried
Marked(d) == dispatcher[d].sent

CommitBatch(d) ==
  /\ Finished(d)
  /\ outbox' = [e \in Events |->
        [state |-> IF e \in Marked(d) THEN "published" ELSE outbox[e].state,
         attempts |-> outbox[e].attempts + (IF e \in Tried(d) THEN 1 ELSE 0)]]
  /\ dispatcher' = [dispatcher EXCEPT ![d] = Closed]
  /\ history' = [history EXCEPT !.raised = Count(@, dispatcher[d].tried \ dispatcher[d].sent)]
  /\ UNCHANGED <<queue, process, inbox, letters, operator, bounds>>

(* The process or its database connection dies: the marks roll back.       *)
DispatcherCrash(d) ==
  /\ dispatcher[d] # Closed
  /\ Crash
  /\ dispatcher' = [dispatcher EXCEPT ![d] = Closed]
  /\ history' = [history EXCEPT !.cut = Count(@, dispatcher[d].sent)]
  /\ UNCHANGED <<outbox, queue, process, inbox, letters, operator>>

-----------------------------------------------------------------------------
(* Consumers: consume_one and EventConsumerRuntime.process.                *)

At(p, pc) == process[p].pc = pc
Key(p) == <<ConsumerOf[p], process[p].event>>
Goto(p, pc) == process' = [process EXCEPT ![p].pc = pc]
Raise(p, error) == process' = [process EXCEPT ![p].pc = "raised", ![p].error = error]
Done(p) == process' = [process EXCEPT ![p] = Idle]
Requeued(p) == IF process[p].held
               THEN [queue EXCEPT ![ConsumerOf[p]][process[p].event] = @ + 1] ELSE queue

Receive(p, e) ==
  /\ At(p, "idle") /\ queue[ConsumerOf[p]][e] > 0
  /\ queue' = [queue EXCEPT ![ConsumerOf[p]][e] = @ - 1]
  /\ process' = [process EXCEPT ![p] = [pc |-> "received", event |-> e, held |-> TRUE,
                                        error |-> "none"]]
  /\ UNCHANGED <<outbox, dispatcher, inbox, letters, operator, bounds, history>>

Reject(p) ==
  /\ At(p, "received") /\ process[p].event \in Malformed
  /\ Raise(p, "invalid")
  /\ UNCHANGED <<outbox, dispatcher, queue, inbox, letters, operator, bounds, history>>

\* Slip: the insert does not wait for the one of an open transaction.
InsertWaitsForNobody(p) == FALSE

(* The insert waits for the transaction that has inserted the same key.    *)
InsertWaits(p) == \E q \in Processes \ {p} : At(q, "handling") /\ Key(q) = Key(p)

Duplicate(p) == Key(p) \in inbox

InsertInbox(p) ==
  /\ At(p, "received") /\ process[p].event \notin Malformed
  /\ ~InsertWaits(p)
  /\ Goto(p, IF Duplicate(p) THEN "answered" ELSE "handling")
  /\ UNCHANGED <<outbox, dispatcher, queue, inbox, letters, operator, bounds, history>>

(* The handler's effect and the inbox row are committed together.          *)
Effect(p) ==
  /\ inbox' = inbox \cup {Key(p)}
  /\ history' = [history EXCEPT !.effects[ConsumerOf[p]][process[p].event] = @ + 1]

CommitEffect(p) ==
  /\ At(p, "handling")
  /\ Effect(p)
  /\ Goto(p, "answered")
  /\ UNCHANGED <<outbox, dispatcher, queue, letters, operator, bounds>>

(* The handler raises, and the transaction rolls back.                     *)
HandlerRaises(p, error) ==
  /\ At(p, "handling") /\ error # "invalid"
  /\ Fault
  /\ Raise(p, error)
  /\ UNCHANGED <<outbox, dispatcher, queue, inbox, letters, operator, history>>

(* A statement times out: connect, the insert, or the commit, which        *)
(* PostgreSQL may have taken.                                              *)
DatabaseFault(p, committed) ==
  /\ process[p].pc \in {"received", "handling"} /\ process[p].event \notin Malformed
  /\ committed => At(p, "handling")
  /\ Fault
  /\ Raise(p, "TimeoutError")
  /\ IF committed THEN Effect(p) ELSE UNCHANGED <<inbox, history>>
  /\ UNCHANGED <<outbox, dispatcher, queue, letters, operator>>

Ack(p) ==
  /\ At(p, "answered")
  /\ Done(p)
  /\ UNCHANGED <<outbox, dispatcher, queue, inbox, letters, operator, bounds, history>>

RejectRequeue(p) ==
  /\ At(p, "raised") /\ Category(process[p].error) = "transient"
  /\ queue' = Requeued(p)
  /\ Done(p)
  /\ UNCHANGED <<outbox, dispatcher, inbox, letters, operator, bounds, history>>

RecordDeadLetter(p) ==
  /\ At(p, "raised") /\ Category(process[p].error) # "transient"
  /\ letters' = Append(letters, [consumer |-> ConsumerOf[p], event |-> process[p].event,
                                 replayed |-> FALSE, sends |-> 0, cuts |-> 0])
  /\ process' = [process EXCEPT ![p].pc = "recorded", ![p].error = "none"]
  /\ UNCHANGED <<outbox, dispatcher, queue, inbox, operator, bounds, history>>

(* reject(requeue=False): the broker moves the message to the DLQ, which   *)
(* nothing of the program reads.                                           *)
RejectDead(p) ==
  /\ At(p, "recorded")
  /\ Done(p)
  /\ UNCHANGED <<outbox, dispatcher, queue, inbox, letters, operator, bounds, history>>

(* A crash, or the record of the dead letter raises: the connection closes *)
(* without an answer and the broker takes the message back.                *)
ConsumerCrash(p) ==
  /\ ~At(p, "idle")
  /\ Crash
  /\ queue' = Requeued(p)
  /\ Done(p)
  /\ UNCHANGED <<outbox, dispatcher, inbox, letters, operator, history>>

(* Only the connection to the broker is lost: the process works on, and    *)
(* its answer will reach nobody.                                           *)
Redeliver(p) ==
  /\ ~At(p, "idle") /\ process[p].held
  /\ Fault
  /\ queue' = Requeued(p)
  /\ process' = [process EXCEPT ![p].held = FALSE]
  /\ UNCHANGED <<outbox, dispatcher, inbox, letters, operator, history>>

-----------------------------------------------------------------------------
(* replay-dead-letter.                                                     *)

MayReplay(i) == /\ ~letters[i].replayed
                /\ \A o \in Operators : operator[o].pc # "idle" => operator[o].letter # i

LockLetter(o, i) ==
  /\ operator[o] = Off /\ MayReplay(i)
  /\ bounds.replays < MaxReplays
  /\ bounds' = [bounds EXCEPT !.replays = @ + 1]
  /\ operator' = [operator EXCEPT ![o] = [pc |-> "locked", letter |-> i]]
  /\ UNCHANGED <<outbox, dispatcher, queue, process, inbox, letters, history>>

PublishReplay(o) ==
  /\ operator[o].pc = "locked"
  /\ queue' = Published(letters[operator[o].letter].event)
  /\ letters' = [letters EXCEPT ![operator[o].letter].sends = @ + 1]
  /\ operator' = [operator EXCEPT ![o].pc = "sent"]
  /\ UNCHANGED <<outbox, dispatcher, process, inbox, bounds, history>>

MarkReplayed(o) ==
  /\ operator[o].pc = "sent"
  /\ letters' = [letters EXCEPT ![operator[o].letter].replayed = TRUE]
  /\ operator' = [operator EXCEPT ![o] = Off]
  /\ UNCHANGED <<outbox, dispatcher, queue, process, inbox, bounds, history>>

(* The publish raises or the command dies: the record stays as it was.     *)
ReplayCrash(o) ==
  /\ operator[o].pc # "idle"
  /\ Crash
  /\ letters' = IF operator[o].pc = "sent"
                THEN [letters EXCEPT ![operator[o].letter].cuts = @ + 1] ELSE letters
  /\ operator' = [operator EXCEPT ![o] = Off]
  /\ UNCHANGED <<outbox, dispatcher, queue, process, inbox, history>>

-----------------------------------------------------------------------------
Dispatch(d) == BeginBatch(d) \/ PublishRow(d) \/ CommitBatch(d)

Consume(p) ==
  \/ \E e \in Events : Receive(p, e)
  \/ Reject(p) \/ InsertInbox(p) \/ CommitEffect(p)
  \/ Ack(p) \/ RejectRequeue(p) \/ RecordDeadLetter(p) \/ RejectDead(p)

Next ==
  \/ \E e \in Events : CreateEvent(e)
  \/ \E d \in Dispatchers : Dispatch(d) \/ DispatcherCrash(d)
  \/ \E d \in Dispatchers, accepted \in BOOLEAN : PublishFails(d, accepted)
  \/ \E p \in Processes : Consume(p) \/ ConsumerCrash(p) \/ Redeliver(p)
  \/ \E p \in Processes, error \in Errors : HandlerRaises(p, error)
  \/ \E p \in Processes, committed \in BOOLEAN : DatabaseFault(p, committed)
  \/ \E o \in Operators : \E i \in DOMAIN letters : LockLetter(o, i)
  \/ \E o \in Operators : PublishReplay(o) \/ MarkReplayed(o) \/ ReplayCrash(o)

Spec == Init /\ [][Next]_vars

(* The dispatcher loop is restarted when it stops, and the supervisors     *)
(* call consume_one again and again; nobody has to replay.                 *)
Fairness ==
  /\ \A d \in Dispatchers : WF_vars(Dispatch(d))
  /\ \A p \in Processes : WF_vars(Consume(p))
FairSpec == Spec /\ Fairness

-----------------------------------------------------------------------------
(* Properties.                                                             *)

(* The effect of an event is committed once at each consumer, however      *)
(* often the event was published, redelivered to a second process while    *)
(* the first still works, buried and replayed.                             *)
HandledOnce ==
  \A c \in Consumers, e \in Events : history.effects[c][e] = IF <<c, e>> \in inbox THEN 1 ELSE 0

(* From the moment an event counts as published, no consumer can lose it:  *)
(* a message, a process that has it, the inbox row or a dead letter that   *)
(* was not replayed stands for it.                                         *)
Resting(i) == /\ ~letters[i].replayed
              /\ \A o \in Operators : operator[o].pc = "sent" => operator[o].letter # i
Traceable(c, e) ==
  \/ queue[c][e] > 0
  \/ \E p \in Processes : /\ process[p].pc \in {"received", "handling", "raised"}
                          /\ process[p].held /\ Key(p) = <<c, e>>
  \/ <<c, e>> \in inbox
  \/ \E i \in DOMAIN letters : letters[i].consumer = c /\ letters[i].event = e /\ Resting(i)
NothingIsLost ==
  \A e \in Events, c \in Consumers : outbox[e].state = "published" => Traceable(c, e)

(* Two dispatchers never publish the same row: every message of an event   *)
(* but one is the fault of a crash or of a publish that raised.            *)
PublishedOnce == \A e \in Events : history.sent[e] <= history.cut[e] + 1

(* Evidence of failed publishes survives them: publish_attempts of a row   *)
(* counts each one that raised, and the one that was marked.               *)
AttemptsAreEvidence ==
  \A e \in Events : outbox[e].attempts =
      history.raised[e] + (IF outbox[e].state = "published" THEN 1 ELSE 0)

(* Operators who replay the same dead letter publish it once between them, *)
(* but for the replays that were cut off before the mark.                  *)
ReplayedOnce == \A i \in DOMAIN letters : letters[i].sends <= letters[i].cuts + 1

(* Every committed event takes effect at every consumer or is buried there *)
(* with a record, whatever is published, delivered or crashes in between:  *)
(* since events are finitely many and what has arrived stays so, it is the *)
(* same to say that again and again all that were committed have arrived.  *)
Arrived(c, e) ==
  <<c, e>> \in inbox \/ \E i \in DOMAIN letters : letters[i].consumer = c /\ letters[i].event = e
EventsArrive ==
  []<>(\A c \in Consumers, e \in Events : outbox[e].state # "absent" => Arrived(c, e))

=============================================================================
