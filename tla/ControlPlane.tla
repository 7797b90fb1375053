---------------------------- MODULE ControlPlane ----------------------------
(***************************************************************************)
(* LangGraphControlPlane for one agent run: the commands start, resume and *)
(* cancel, each under RemoteControlPlaneOperationGuard, over               *)
(*                                                                         *)
(*   ops    the idempotency operations of the API, one row per operation   *)
(*          id, that decide whether a call may execute;                    *)
(*   row    agent_run_control, LUMI's copy of the run;                     *)
(*   graph  the LangGraph thread, whose checkpoints are the truth.         *)
(*                                                                         *)
(* A call is one invocation of a command, with a lease owner of its own;   *)
(* calls of one operation are retries of one request.  Operations exclude  *)
(* each other by operation id only, so the commands of one run interleave  *)
(* at every await.  A lease of 60 seconds is never extended, while a graph *)
(* runs as long as it likes.  The events a command publishes are left out: *)
(* publishing is an await that may raise.                                  *)
(***************************************************************************)
EXTENDS Naturals

CONSTANTS Ops,             \* operation ids, each of one request
          Kind,            \* [Ops -> {"start", "resume", "cancel"}]
          Calls,           \* calls that may be in progress at a time
          MaxCheckpoints,  \* bound: checkpoints of the thread
          MaxClaims,       \* bound: executions of one operation
          MaxFaults        \* bound: failed calls of stores, graph and API, and crashes

ASSUME ControlAssumption ==
  /\ Ops # {} /\ Kind \in [Ops -> {"start", "resume", "cancel"}]
  /\ MaxCheckpoints \in Nat \ {0} /\ MaxClaims \in Nat /\ MaxFaults \in Nat

VARIABLES ops, row, graph, call,
          asks,       \* [Ops -> the interrupt a resume operation names, or 0]
          faults,
          claims,     \* history: [Ops -> EXECUTE decisions]
          runs,       \* history: the commands given to the graph
          disturbed   \* history: two commands overlapped, or one broke off

vars == <<ops, row, graph, call, asks, faults, claims, runs, disturbed>>

Checkpoint == 1 .. MaxCheckpoints
Place == 0 .. MaxCheckpoints
Terminal == {"succeeded", "cancelled"}
None == "none"

\* A checkpoint's interrupts are named after it and its node: a node that asks twice has
\* asked under one name.
Snapshot == [status : {"absent", "pending", "running", "interrupted"} \cup Terminal, at : Place]
Absent == [status |-> "absent", at |-> 0]

Operation == [status : {"absent", "in_progress", "succeeded", "failed_final", "ambiguous"},
              owner : Calls \cup {None}, hash : Place]

Invoking == {"claimed", "entering", "running", "reading", "persisting"}
Call == [pc : Invoking \cup {"idle", "asked", "finishing", "failing", "denied"},
         op : Ops \cup {None}, seen : Snapshot, at : Place, snap : Snapshot]

TypeOK ==
  /\ ops \in [Ops -> Operation]
  /\ row \in Snapshot
  /\ graph \in [latest : Place, mark : [Checkpoint -> {None, "node", "interrupt", "end"}]]
  /\ call \in [Calls -> Call]
  /\ asks \in [Ops -> Place]
  /\ faults \in 0 .. MaxFaults
  /\ claims \in [Ops -> 0 .. MaxClaims]
  /\ runs \subseteq [op : Ops, authorised : Place, answered : Place]
  /\ disturbed \in BOOLEAN

Idle == [pc |-> "idle", op |-> None, seen |-> Absent, at |-> 0, snap |-> Absent]

Init ==
  /\ ops = [o \in Ops |-> [status |-> "absent", owner |-> None, hash |-> 0]]
  /\ row = Absent
  /\ graph = [latest |-> 0, mark |-> [k \in Checkpoint |-> None]]
  /\ call = [c \in Calls |-> Idle]
  /\ asks = [o \in Ops |-> 0]
  /\ faults = 0
  /\ claims = [o \in Ops |-> 0] /\ runs = {} /\ disturbed = FALSE

Op(c) == call[c].op
Is(c, kind) == Kind[Op(c)] = kind
At(c, pc) == call[c].pc = pc
Goto(c, pc) == call' = [call EXCEPT ![c].pc = pc]
\* What the call has read is of no more use.
Drop(c, pc) == call' = [call EXCEPT ![c] = [Idle EXCEPT !.pc = pc, !.op = Op(c)]]
End(c) == call' = [call EXCEPT ![c] = Idle]
Fault == faults < MaxFaults /\ faults' = faults + 1

-----------------------------------------------------------------------------
(* The checks before the guard.  A call that is turned away here or by the *)
(* claim has changed nothing: its client may call again.                   *)

\* A retry names the interrupt its first call named.
AskResume(c, o) ==
  /\ At(c, "idle") /\ Kind[o] = "resume"
  /\ row.status = "interrupted" /\ asks[o] \in {0, row.at}
  /\ asks' = [asks EXCEPT ![o] = row.at]
  /\ call' = [call EXCEPT ![c].pc = "asked", ![c].op = o, ![c].seen = row]
  /\ UNCHANGED <<ops, row, graph, faults, claims, runs>>

-----------------------------------------------------------------------------
(* The guard's claim, decided by the gateway.                              *)

\* The hash of a resume covers the checkpoint that was loaded before the claim.
Hash(c, o) == IF Kind[o] = "resume" THEN call[c].seen.at ELSE 0

\* The guard never marks an attempt as started, so an operation executes again once its
\* lease has lapsed: at any time.
Takeable(c, o) ==
  \/ ops[o].status = "absent"
  \/ ops[o].status = "in_progress" /\ ops[o].hash = Hash(c, o)

\* start checks nothing before its claim, and what cancel checks there it checks again.
MayClaim(c, o) ==
  \/ At(c, "asked") /\ Op(c) = o
  \/ At(c, "idle") /\ Kind[o] = "start"
  \/ At(c, "idle") /\ Kind[o] = "cancel" /\ row.status \notin Terminal \cup {"absent"}

\* EXECUTE.  An answer that is lost is a Crash of the call.
Claim(c, o) ==
  /\ MayClaim(c, o) /\ Takeable(c, o) /\ claims[o] < MaxClaims
  /\ ops' = [ops EXCEPT ![o] = [status |-> "in_progress", owner |-> c, hash |-> Hash(c, o)]]
  /\ claims' = [claims EXCEPT ![o] = @ + 1]
  /\ call' = [call EXCEPT ![c].pc = "claimed", ![c].op = o]
  /\ UNCHANGED <<row, graph, asks, faults, runs>>

\* Replay, WAIT, conflict, FINAL_FAILURE or AMBIGUOUS.
TurnAway(c) ==
  /\ At(c, "asked") /\ ops[Op(c)].status # "absent"
  /\ End(c)
  /\ UNCHANGED <<ops, row, graph, asks, faults, claims, runs>>

-----------------------------------------------------------------------------
(* invoke: the row is read.                                                *)

\* Slip: a start that never stored a snapshot may start again.
IsBoundOnce == row.status \notin {"absent", "pending"}

\* bind_start finds the run of an earlier start.
IsBound == row.status # "absent"

\* The executor of this process may not know the graph: GraphNotFoundError, a final error.
BindStart(c) ==
  /\ At(c, "claimed") /\ Is(c, "start")
  /\ IF IsBound
     THEN Drop(c, "finishing") /\ UNCHANGED row
     ELSE row' = [status |-> "pending", at |-> 0] /\ (Goto(c, "entering") \/ Drop(c, "denied"))

\* A terminal run is the answer of the command.
ReadTerminal(c) ==
  /\ At(c, "claimed") /\ ~Is(c, "start") /\ row.status \in Terminal
  /\ Drop(c, "finishing")
  /\ UNCHANGED row

\* Slip: the row read before the claim is trusted.
FreshTrusted(c) == call[c].seen

\* The row a resume is authorised against.
Fresh(c) == row

\* The authorizer may deny: no decision yet, or another one than the request's.  A
\* decision is never withdrawn, so reading it with the row loses nothing.  The executor
\* may not know the graph, which ends like a denial, here and in a cancellation.
ReadResume(c) ==
  /\ At(c, "claimed") /\ Is(c, "resume") /\ row.status \notin Terminal
  /\ LET fresh == Fresh(c)
     IN  IF fresh.status # "interrupted" THEN Drop(c, "failing")
         ELSE \/ Drop(c, "denied")
              \/ fresh.at = asks[Op(c)] /\ call' = [call EXCEPT ![c].pc = "entering", ![c].seen = fresh]
  /\ UNCHANGED row

ReadCancel(c) ==
  /\ At(c, "claimed") /\ Is(c, "cancel") /\ row.status \notin Terminal
  /\ \/ Drop(c, "denied")
     \/ call' = [call EXCEPT ![c].pc = "reading", ![c].seen = row]
  /\ UNCHANGED row

Read(c) ==
  /\ BindStart(c) \/ ReadTerminal(c) \/ ReadResume(c) \/ ReadCancel(c)
  /\ UNCHANGED <<ops, graph, asks, faults, claims, runs>>

-----------------------------------------------------------------------------
(* invoke: the graph runs, to its end or to an interrupt.                  *)

Put(mark) ==
  /\ graph.latest < MaxCheckpoints
  /\ graph' = [latest |-> graph.latest + 1, mark |-> [graph.mark EXCEPT ![graph.latest + 1] = mark]]

\* ainvoke(input) on the new thread.
EnterStart(c) ==
  /\ At(c, "entering") /\ Is(c, "start") /\ Put("node")
  /\ call' = [call EXCEPT ![c].pc = "running", ![c].at = graph.latest + 1]
  /\ runs' = runs \cup {[op |-> Op(c), authorised |-> 0, answered |-> graph.latest]}

\* ainvoke(Command(resume = value)): the value goes to whatever the thread waits for now.
EnterResume(c) ==
  /\ At(c, "entering") /\ Is(c, "resume")
  /\ LET ended == graph.mark[graph.latest] = "end"
     IN  /\ call' = IF ended THEN [call EXCEPT ![c].pc = "reading"]
                    ELSE [call EXCEPT ![c].pc = "running", ![c].at = graph.latest]
         /\ runs' = IF ended THEN runs
                    ELSE runs \cup {[op |-> Op(c), authorised |-> call[c].seen.at, answered |-> graph.latest]}
  /\ UNCHANGED graph

\* The nodes of c's checkpoint have run.
Superstep(c) ==
  /\ At(c, "running")
  /\ \/ Put("node") /\ call' = [call EXCEPT ![c].at = graph.latest + 1]
     \/ Put("end") /\ call' = [call EXCEPT ![c].pc = "reading", ![c].at = 0]
  /\ UNCHANGED runs

\* A node of c's checkpoint calls interrupt(): its first, or its next one after an answer.
Interrupt(c) ==
  /\ At(c, "running") /\ graph.mark[call[c].at] \in {"node", "interrupt"}
  /\ graph' = [graph EXCEPT !.mark[call[c].at] = "interrupt"]
  /\ call' = [call EXCEPT ![c].pc = "reading", ![c].at = 0] /\ UNCHANGED runs

Run(c) ==
  /\ EnterStart(c) \/ EnterResume(c) \/ Superstep(c) \/ Interrupt(c)
  /\ UNCHANGED <<ops, row, asks, faults, claims>>

\* Slip: nodes still to run are not looked at.
StatusWithoutNext(mark) == IF mark = "interrupt" THEN "interrupted" ELSE "succeeded"

StatusOf(mark) ==
  CASE mark = "interrupt" -> "interrupted"
    [] mark = "node" -> "running"
    [] OTHER -> "succeeded"

\* aget_state: the thread's latest checkpoint, which another command may have put.
ReadGraph(c) ==
  /\ At(c, "reading")
  /\ LET k == graph.latest
         status == IF Is(c, "cancel") THEN "cancelled" ELSE StatusOf(graph.mark[k])
     IN  call' = [call EXCEPT ![c].pc = "persisting", ![c].snap = [status |-> status, at |-> k]]
  /\ UNCHANGED <<ops, row, graph, asks, faults, claims, runs>>

-----------------------------------------------------------------------------
(* invoke: the snapshot is persisted and published.                        *)

\* persist_snapshot compares the checkpoint alone, and not at all for a start.
Unmoved(c) == Is(c, "start") \/ row.at = call[c].seen.at

\* Slip: a checkpoint conflict counts as a final error, nothing having been stored.
ConflictIsFinal == "denied"

\* GraphCheckpointConflictError is no final error of the guard.
ConflictEnds == "failing"

Persist(c) ==
  /\ At(c, "persisting")
  /\ IF Unmoved(c)
     THEN row' = call[c].snap /\ Drop(c, "finishing")
     ELSE Drop(c, ConflictEnds) /\ UNCHANGED row
  /\ UNCHANGED <<ops, graph, asks, faults, claims, runs>>

\* A store, the graph, the approval reader or the event sink raises, a commit is heard as
\* a failure, or the success is not confirmed.
Raises(c) ==
  /\ call[c].pc \in Invoking \cup {"finishing"} /\ Fault /\ Drop(c, "failing")
  /\ UNCHANGED <<ops, row, graph, asks, claims, runs>>

-----------------------------------------------------------------------------
(* The guard's end.                                                        *)

Holds(c) == ops[Op(c)].status = "in_progress" /\ ops[Op(c)].owner = c

\* An UPDATE that matches only the operation whose lease is the caller's.
Close(c, status) ==
  /\ ops' = IF Holds(c)
            THEN [ops EXCEPT ![Op(c)] = [@ EXCEPT !.status = status, !.owner = None]]
            ELSE ops
  /\ End(c)

Settle(c) ==
  /\ \/ At(c, "finishing") /\ Close(c, "succeeded")
     \/ At(c, "failing") /\ Close(c, "ambiguous")
     \/ At(c, "denied") /\ Close(c, "failed_final")
  /\ UNCHANGED <<row, graph, asks, faults, claims, runs>>

\* The process of the call dies, or its last post fails.
Crash(c) ==
  /\ call[c].pc # "idle" /\ Fault /\ End(c)
  /\ UNCHANGED <<ops, row, graph, asks, claims, runs>>

-----------------------------------------------------------------------------
InFlight == {c \in Calls : call[c].pc \in Invoking}

Step(c) ==
  \/ \E o \in Ops : AskResume(c, o) \/ Claim(c, o)
  \/ TurnAway(c) \/ Read(c) \/ Run(c) \/ ReadGraph(c)
  \/ Persist(c) \/ Raises(c) \/ Settle(c) \/ Crash(c)

Overlap == \E b, c \in InFlight : b # c

BrokeOff == \E c \in InFlight : call'[c].pc \in {"failing", "idle"}

Next ==
  /\ \E c \in Calls : Step(c)
  /\ disturbed' = (disturbed \/ Overlap' \/ BrokeOff)

Spec == Init /\ [][Next]_vars

-----------------------------------------------------------------------------
(* The graph is started once, whichever starts are retried, lapse or race: *)
(* bind_start lets one of them through.                                    *)
StartRunsOnce == \A r, s \in runs : Kind[r.op] = "start" /\ Kind[s.op] = "start" => r = s

(* A value reaches the interrupt it was authorised for, as long as no two  *)
(* commands overlap inside the guard and none breaks off there: what the   *)
(* second read of the row, inside the guard, is for.                       *)
BoundWhenAlone == ~disturbed => \A r \in runs : Kind[r.op] = "resume" => r.authorised = r.answered

(* An operation that answers with a final failure, and was executed only   *)
(* once, has not given the graph anything.                                 *)
FinalFailureDidNothing ==
  \A r \in runs : claims[r.op] = 1 => ops[r.op].status # "failed_final"

(* What the row says of its checkpoint is so: the graph waits there for an *)
(* answer, or has ended there.                                             *)
RowTellsTheTruth ==
  /\ row.status = "interrupted" => graph.mark[row.at] = "interrupt"
  /\ row.status = "succeeded" => graph.mark[row.at] = "end"

(* The row never returns to an earlier checkpoint, and a run that has      *)
(* succeeded stays so.                                                     *)
RowMovesForward == [][row'.at >= row.at /\ (row.status = "succeeded" => row' = row)]_vars

(* The class and the comment in invoke: a value is never applied to an     *)
(* interrupt it was not authorised for.  Two resumes that overlap inside   *)
(* their guards break it.                                                  *)
ResumeIsBound == \A r \in runs : Kind[r.op] = "resume" => r.authorised = r.answered
=============================================================================
