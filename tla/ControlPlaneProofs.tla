------------------------ MODULE ControlPlaneProofs ------------------------
(***************************************************************************)
(* Inductive invariants of ControlPlane, for any operations and calls.     *)
(***************************************************************************)
EXTENDS ControlPlane, TLAPS

Active == {"entering", "running", "reading", "persisting"}

(* What a row or a snapshot says of its checkpoint is so, and stays so:    *)
(* only nodes that are still to run can change a checkpoint's mark.        *)
Truthful(s) ==
  /\ s.at <= graph.latest
  /\ s.status \in {"absent", "pending"} => s.at = 0
  /\ s.status \in {"running", "interrupted", "succeeded"} => s.at > 0
  /\ s.status = "running" => graph.mark[s.at] \in {"node", "interrupt"}
  /\ s.status = "interrupted" => graph.mark[s.at] = "interrupt"
  /\ s.status = "succeeded" => graph.mark[s.at] = "end"

GraphInv == \A k \in Checkpoint : k <= graph.latest => graph.mark[k] # None

(* The calls that are under way have an operation.                         *)
Named == \A c \in Calls : ~At(c, "idle") => Op(c) \in Ops

(* What a call has read, by the place it has reached.                      *)
CallOK(c) ==
  /\ At(c, "running") => call[c].at > 0 /\ call[c].at <= graph.latest
  /\ call[c].pc \in {"entering", "running"} => ~Is(c, "cancel")
  /\ At(c, "reading") /\ ~Is(c, "cancel") => graph.latest > 0
  /\ call[c].pc \in Active /\ ~Is(c, "start") =>
       /\ Truthful(call[c].seen) /\ call[c].seen.status \notin Terminal
       /\ Is(c, "resume") => call[c].seen.status = "interrupted"
  /\ At(c, "persisting") =>
       /\ Truthful(call[c].snap) /\ call[c].snap.status \notin {"absent", "pending"}
       /\ Is(c, "cancel") <=> call[c].snap.status = "cancelled"
       /\ ~Is(c, "start") => call[c].seen.at <= call[c].snap.at
       /\ Is(c, "start") => call[c].snap.at = graph.latest

CallInv == \A c \in Calls : CallOK(c)

Starting(c) == call[c].pc \in Active /\ Is(c, "start")
Started == \E r \in runs : Kind[r.op] = "start"

(* While a start is under way nothing else moves the graph.                *)
StartInv ==
  /\ row.status = "absent" =>
       ~Started /\ \A c \in Calls : call[c].pc \in Active => Is(c, "cancel")
  /\ \A c \in Calls : Starting(c) =>
       /\ row.status \in {"pending", "cancelled"}
       /\ \A d \in Calls \ {c} : call[d].pc \in Active => Is(d, "cancel")
       /\ At(c, "entering") => ~Started
  /\ StartRunsOnce

Inv == TypeOK /\ Named /\ GraphInv /\ Truthful(row) /\ CallInv /\ StartInv

(* Calls that have claimed their operation.                                *)
Executing(c) == call[c].pc \in Invoking \cup {"finishing", "failing", "denied"}

(* An operation that was claimed once has one call, and that call enters   *)
(* the graph or is denied.                                                 *)
ClaimInv ==
  /\ \A c \in Calls : Executing(c) => claims[Op(c)] > 0
  /\ \A r \in runs : claims[r.op] > 0
  /\ \A o \in Ops : ops[o].status = "failed_final" => claims[o] > 0
  /\ \A c, d \in Calls :
       Executing(c) /\ Executing(d) /\ Op(c) = Op(d) /\ claims[Op(c)] = 1 => c = d
  /\ \A c \in Calls : Executing(c) /\ claims[Op(c)] = 1 =>
       /\ ops[Op(c)].status # "failed_final"
       /\ call[c].pc \in {"claimed", "entering", "denied"} => \A r \in runs : r.op # Op(c)
  /\ FinalFailureDidNothing

(* With one command inside the guard at a time the row is at the graph's   *)
(* checkpoint, but while the graph runs.                                   *)
AloneInv == ~disturbed =>
  /\ \A c, d \in InFlight : c = d
  /\ (\A c \in Calls : call[c].pc \notin {"running", "reading", "persisting"}) => row.at = graph.latest
  /\ \A c \in Calls : At(c, "persisting") => call[c].snap.at = graph.latest
  /\ \A c \in Calls : At(c, "entering") /\ Is(c, "resume") => call[c].seen.at = graph.latest
  /\ \A r \in runs : Kind[r.op] = "resume" => r.authorised = r.answered

-----------------------------------------------------------------------------
(* Types. *)

PCs == Invoking \cup {"idle", "asked", "finishing", "failing", "denied"}

\* What the steps make of a call is a call.
LEMMA CallTypes ==
  ASSUME NEW r \in Call
  PROVE  /\ \A pc \in PCs :
              /\ [r EXCEPT !.pc = pc] \in Call
              /\ \A o \in Ops : [r EXCEPT !.pc = pc, !.op = o] \in Call
              /\ \A o \in Ops, s \in Snapshot : [r EXCEPT !.pc = pc, !.op = o, !.seen = s] \in Call
              /\ \A s \in Snapshot : [r EXCEPT !.pc = pc, !.seen = s] \in Call
              /\ \A s \in Snapshot : [r EXCEPT !.pc = pc, !.snap = s] \in Call
              /\ \A p \in Place : [r EXCEPT !.pc = pc, !.at = p] \in Call
         /\ \A p \in Place : [r EXCEPT !.at = p] \in Call
  BY DEF Call, PCs

LEMMA IdleTypes ==
  ASSUME NEW pc \in PCs, NEW o \in Ops \cup {None}
  PROVE  Idle \in Call /\ [Idle EXCEPT !.pc = pc, !.op = o] \in Call
  <1>1. Absent \in Snapshot /\ 0 \in Place
    BY ControlAssumption DEF Snapshot, Absent, Place
  <1> QED
    BY <1>1 DEF Call, PCs, Idle

LEMMA TypeInit == Init => TypeOK
  <1> SUFFICES ASSUME Init PROVE TypeOK
    OBVIOUS
  <1>1. Idle \in Call
    BY IdleTypes DEF PCs, Invoking
  <1>2. call \in [Calls -> Call]
    BY <1>1 DEF Init
  <1>3. row \in Snapshot
    BY ControlAssumption DEF Init, Snapshot, Absent, Place
  <1>4. graph \in [latest : Place, mark : [Checkpoint -> {None, "node", "interrupt", "end"}]]
    BY ControlAssumption DEF Init, Place
  <1>5. ops \in [Ops -> Operation]
    BY ControlAssumption DEF Init, Operation, Place
  <1>6. asks \in [Ops -> Place] /\ faults \in 0 .. MaxFaults /\ claims \in [Ops -> 0 .. MaxClaims]
    BY ControlAssumption DEF Init, Place
  <1> QED
    BY <1>2, <1>3, <1>4, <1>5, <1>6 DEF Init, TypeOK

\* Every step keeps the types.
LEMMA TypeStep == TypeOK /\ Named /\ Next => TypeOK' /\ Named'
  <1> SUFFICES ASSUME TypeOK, Named, Next PROVE TypeOK' /\ Named'
    OBVIOUS
  <1> USE DEF At, Op
  <1>1. PICK c \in Calls : Step(c)
    BY DEF Next
  <1>2. disturbed' \in BOOLEAN
    BY DEF Next, Overlap, BrokeOff
  <1>3. call[c] \in Call /\ row \in Snapshot /\ graph.latest \in Place /\ Op(c) \in Ops \cup {None}
    BY DEF TypeOK, Call
  <1>4. Idle \in Call /\ \A pc \in PCs : [Idle EXCEPT !.pc = pc, !.op = Op(c)] \in Call
    BY <1>3, IdleTypes DEF PCs
  <1>5. ASSUME NEW o \in Ops, AskResume(c, o)
        PROVE  TypeOK' /\ Named'
    <2>1. call' = [call EXCEPT ![c] = [call[c] EXCEPT !.pc = "asked", !.op = o, !.seen = row]]
      BY <1>5 DEF AskResume, TypeOK, Call
    <2>2. call' \in [Calls -> Call]
      BY <2>1, <1>3, CallTypes DEF PCs, TypeOK
    <2>3. Named'
      BY <2>1 DEF Named, TypeOK, Call
    <2>4. asks' \in [Ops -> Place]
      BY <1>3, <1>5 DEF AskResume, TypeOK, Snapshot
    <2> QED
      BY <2>2, <2>3, <2>4, <1>2, <1>5 DEF AskResume, TypeOK
  <1>6. ASSUME NEW o \in Ops, Claim(c, o)
        PROVE  TypeOK' /\ Named'
    <2>1. call' = [call EXCEPT ![c] = [call[c] EXCEPT !.pc = "claimed", !.op = o]]
      BY <1>6 DEF Claim, TypeOK, Call
    <2>2. call' \in [Calls -> Call]
      BY <2>1, <1>3, CallTypes DEF PCs, Invoking, TypeOK
    <2>3. Named'
      BY <2>1 DEF Named, TypeOK, Call
    <2>4. Hash(c, o) \in Place
      BY <1>3, ControlAssumption DEF Hash, Call, Snapshot, Place
    <2>5. ops' \in [Ops -> Operation]
      BY <2>4, <1>6 DEF Claim, TypeOK, Operation
    <2>6. claims' \in [Ops -> 0 .. MaxClaims]
      BY <1>6, ControlAssumption DEF Claim, TypeOK
    <2> QED
      BY <2>2, <2>3, <2>5, <2>6, <1>2, <1>6 DEF Claim, TypeOK
  <1>7. CASE TurnAway(c)
    <2>1. call' \in [Calls -> Call]
      BY <1>4, <1>7 DEF TurnAway, End, TypeOK
    <2>2. Named'
      BY <1>7 DEF TurnAway, End, Idle, Named, TypeOK
    <2> QED
      BY <2>1, <2>2, <1>2, <1>7 DEF TurnAway, TypeOK
  <1>8. ASSUME NEW pc \in PCs, Drop(c, pc), ~At(c, "idle")
        PROVE  call' \in [Calls -> Call] /\ Named'
    BY <1>4, <1>8 DEF Drop, Idle, Named, TypeOK
  <1>9. ASSUME End(c)
        PROVE  call' \in [Calls -> Call] /\ Named'
    BY <1>4, <1>9 DEF End, Idle, Named, TypeOK
  <1>17. ASSUME NEW r \in Call, r.op \in Ops, call' = [call EXCEPT ![c] = r]
         PROVE  call' \in [Calls -> Call] /\ Named'
    BY <1>17 DEF TypeOK, Named
  <1>10. CASE Read(c)
    <2>1. row' \in Snapshot
      BY <1>3, <1>10, ControlAssumption
      DEF Read, BindStart, ReadTerminal, ReadResume, ReadCancel, Snapshot, Place
    <2>2. call' \in [Calls -> Call] /\ Named'
      <3>1. CASE BindStart(c)
        <4>1. CASE Drop(c, "finishing") \/ Drop(c, "denied")
          BY <4>1, <3>1, <1>8 DEF BindStart, PCs
        <4>2. CASE Goto(c, "entering")
          <5>1. call' = [call EXCEPT ![c] = [call[c] EXCEPT !.pc = "entering"]]
            BY <4>2 DEF Goto, TypeOK, Call
          <5>2. [call[c] EXCEPT !.pc = "entering"] \in Call
            BY <1>3, CallTypes DEF PCs, Invoking
          <5>3. [call[c] EXCEPT !.pc = "entering"].op \in Ops
            BY <3>1, <1>3 DEF BindStart, Named, Call
          <5> QED
            BY <5>1, <5>2, <5>3, <1>17
        <4> QED
          BY <4>1, <4>2, <3>1 DEF BindStart
      <3>2. CASE ReadTerminal(c)
        BY <3>2, <1>8 DEF ReadTerminal, PCs
      <3>3. CASE ReadResume(c)
        <4>1. CASE call' = [call EXCEPT ![c].pc = "entering", ![c].seen = Fresh(c)]
          <5>1. call' = [call EXCEPT ![c] = [call[c] EXCEPT !.pc = "entering", !.seen = row]]
            BY <4>1 DEF Fresh, TypeOK, Call
          <5>2. [call[c] EXCEPT !.pc = "entering", !.seen = row] \in Call
            BY <1>3, CallTypes DEF PCs, Invoking
          <5>3. [call[c] EXCEPT !.pc = "entering", !.seen = row].op \in Ops
            BY <3>3, <1>3 DEF ReadResume, Named, Call
          <5> QED
            BY <5>1, <5>2, <5>3, <1>17
        <4> QED
          BY <4>1, <3>3, <1>8 DEF ReadResume, PCs
      <3>4. CASE ReadCancel(c)
        <4>1. CASE call' = [call EXCEPT ![c].pc = "reading", ![c].seen = row]
          <5>1. call' = [call EXCEPT ![c] = [call[c] EXCEPT !.pc = "reading", !.seen = row]]
            BY <4>1 DEF TypeOK, Call
          <5>2. [call[c] EXCEPT !.pc = "reading", !.seen = row] \in Call
            BY <1>3, CallTypes DEF PCs, Invoking
          <5>3. [call[c] EXCEPT !.pc = "reading", !.seen = row].op \in Ops
            BY <3>4, <1>3 DEF ReadCancel, Named, Call
          <5> QED
            BY <5>1, <5>2, <5>3, <1>17
        <4> QED
          BY <4>1, <3>4, <1>8 DEF ReadCancel, PCs
      <3> QED
        BY <3>1, <3>2, <3>3, <3>4, <1>10 DEF Read
    <2> QED
      BY <2>1, <2>2, <1>2, <1>10 DEF Read, TypeOK
  <1>11. CASE Run(c)
    <2>1. Op(c) \in Ops /\ call[c].seen.at \in Place
      BY <1>11, <1>3 DEF Run, EnterStart, EnterResume, Superstep, Interrupt, Named, Call, Snapshot
    <2>2. ASSUME NEW mark \in {"node", "end"}, Put(mark)
          PROVE  /\ graph.latest + 1 \in Place
                 /\ graph' \in [latest : Place, mark : [Checkpoint -> {None, "node", "interrupt", "end"}]]
      BY <2>2, <1>3, ControlAssumption DEF Put, TypeOK, Place, Checkpoint
    <2>7. /\ [call[c] EXCEPT !.pc = "reading", !.at = 0] \in Call
          /\ [call[c] EXCEPT !.pc = "reading", !.at = 0].op \in Ops
      <3>1. 0 \in Place /\ "reading" \in PCs
        BY ControlAssumption DEF Place, PCs, Invoking
      <3>2. [call[c] EXCEPT !.pc = "reading", !.at = 0] \in Call
        BY <3>1, <1>3, CallTypes
      <3> QED
        BY <3>2, <1>3, <2>1 DEF Call
    <2>3. CASE EnterStart(c)
      <3>1. call' = [call EXCEPT ![c] = [call[c] EXCEPT !.pc = "running", !.at = graph.latest + 1]]
        BY <2>3 DEF EnterStart, TypeOK, Call
      <3>2. graph.latest + 1 \in Place
        BY <2>2, <2>3 DEF EnterStart
      <3>5. /\ [call[c] EXCEPT !.pc = "running", !.at = graph.latest + 1] \in Call
            /\ [call[c] EXCEPT !.pc = "running", !.at = graph.latest + 1].op \in Ops
        <4>1. [call[c] EXCEPT !.pc = "running", !.at = graph.latest + 1] \in Call
          BY <1>3, <3>2, CallTypes DEF PCs, Invoking
        <4> QED
          BY <4>1, <1>3, <2>1 DEF Call
      <3>3. call' \in [Calls -> Call] /\ Named'
        BY <3>1, <3>5, <1>17
      <3>4. runs' \subseteq [op : Ops, authorised : Place, answered : Place]
        BY <2>1, <2>3, <1>3, ControlAssumption DEF EnterStart, TypeOK, Place
      <3> QED
        BY <3>3, <3>4, <2>2, <2>3, <1>2, <1>11 DEF EnterStart, Run, TypeOK
    <2>4. CASE EnterResume(c)
      <3>1. ASSUME call' = [call EXCEPT ![c].pc = "reading"]
            PROVE  call' \in [Calls -> Call] /\ Named'
        <4>1. call' = [call EXCEPT ![c] = [call[c] EXCEPT !.pc = "reading"]]
          BY <3>1 DEF TypeOK, Call
        <4>2. [call[c] EXCEPT !.pc = "reading"] \in Call
          BY <1>3, CallTypes DEF PCs, Invoking
        <4>3. [call[c] EXCEPT !.pc = "reading"].op \in Ops
          BY <1>3, <2>1 DEF Call
        <4> QED
          BY <4>1, <4>2, <4>3, <1>17
      <3>2. ASSUME call' = [call EXCEPT ![c].pc = "running", ![c].at = graph.latest]
            PROVE  call' \in [Calls -> Call] /\ Named'
        <4>1. call' = [call EXCEPT ![c] = [call[c] EXCEPT !.pc = "running", !.at = graph.latest]]
          BY <3>2 DEF TypeOK, Call
        <4>2. [call[c] EXCEPT !.pc = "running", !.at = graph.latest] \in Call
          BY <1>3, CallTypes DEF PCs, Invoking
        <4>3. [call[c] EXCEPT !.pc = "running", !.at = graph.latest].op \in Ops
          BY <1>3, <2>1 DEF Call
        <4> QED
          BY <4>1, <4>2, <4>3, <1>17
      <3>3. call' \in [Calls -> Call] /\ Named'
        BY <3>1, <3>2, <2>4 DEF EnterResume
      <3>4. runs' \subseteq [op : Ops, authorised : Place, answered : Place]
        BY <2>1, <2>4, <1>3 DEF EnterResume, TypeOK
      <3> QED
        BY <3>3, <3>4, <2>4, <1>2, <1>11 DEF EnterResume, Run, TypeOK
    <2>5. CASE Superstep(c)
      <3>1. CASE Put("node") /\ call' = [call EXCEPT ![c].at = graph.latest + 1]
        <4>1. call' = [call EXCEPT ![c] = [call[c] EXCEPT !.at = graph.latest + 1]]
          BY <3>1 DEF TypeOK, Call
        <4>3. graph.latest + 1 \in Place
          BY <2>2, <3>1
        <4>4. [call[c] EXCEPT !.at = graph.latest + 1] \in Call
          BY <1>3, <4>3, CallTypes
        <4>5. [call[c] EXCEPT !.at = graph.latest + 1].op \in Ops
          BY <1>3, <2>1 DEF Call
        <4>2. call' \in [Calls -> Call] /\ Named'
          BY <4>1, <4>4, <4>5, <1>17
        <4> QED
          BY <4>2, <3>1, <2>2, <2>5, <1>2, <1>11 DEF Superstep, Run, TypeOK
      <3>2. CASE Put("end") /\ call' = [call EXCEPT ![c].pc = "reading", ![c].at = 0]
        <4>1. call' = [call EXCEPT ![c] = [call[c] EXCEPT !.pc = "reading", !.at = 0]]
          BY <3>2 DEF TypeOK, Call
        <4>3. call' \in [Calls -> Call] /\ Named'
          BY <4>1, <2>7, <1>17
        <4> QED
          BY <4>3, <3>2, <2>2, <2>5, <1>2, <1>11 DEF Superstep, Run, TypeOK
      <3> QED
        BY <3>1, <3>2, <2>5 DEF Superstep
    <2>6. CASE Interrupt(c)
      <3>1. call' = [call EXCEPT ![c] = [call[c] EXCEPT !.pc = "reading", !.at = 0]]
        BY <2>6 DEF Interrupt, TypeOK, Call
      <3>3. call' \in [Calls -> Call] /\ Named'
        BY <3>1, <2>7, <1>17
      <3>4. graph' \in [latest : Place, mark : [Checkpoint -> {None, "node", "interrupt", "end"}]]
        BY <2>6 DEF Interrupt, TypeOK
      <3> QED
        BY <3>3, <3>4, <2>6, <1>2, <1>11 DEF Interrupt, Run, TypeOK
    <2> QED
      BY <2>3, <2>4, <2>5, <2>6, <1>11 DEF Run
  <1>12. CASE ReadGraph(c)
    <2> DEFINE k == graph.latest
               status == IF Is(c, "cancel") THEN "cancelled" ELSE StatusOf(graph.mark[k])
               s == [status |-> status, at |-> k]
    <2>1. s \in Snapshot
      BY <1>3 DEF StatusOf, Snapshot, Terminal
    <2>2. call' = [call EXCEPT ![c] = [call[c] EXCEPT !.pc = "persisting", !.snap = s]]
      BY <1>12 DEF ReadGraph, TypeOK, Call
    <2>3. Op(c) \in Ops
      BY <1>12 DEF ReadGraph, Named
    <2> HIDE DEF s
    <2>5. [call[c] EXCEPT !.pc = "persisting", !.snap = s] \in Call
      BY <2>1, <1>3, CallTypes DEF PCs, Invoking
    <2>6. [call[c] EXCEPT !.pc = "persisting", !.snap = s].op \in Ops
      BY <2>3, <1>3 DEF Call
    <2>4. call' \in [Calls -> Call] /\ Named'
      BY <2>2, <2>5, <2>6, <1>17
    <2> QED
      BY <2>4, <1>2, <1>12 DEF ReadGraph, TypeOK
  <1>13. CASE Persist(c)
    <2>1. row' \in Snapshot
      BY <1>3, <1>13 DEF Persist, Call
    <2>2. call' \in [Calls -> Call] /\ Named'
      BY <1>8, <1>13 DEF Persist, ConflictEnds, PCs
    <2> QED
      BY <2>1, <2>2, <1>2, <1>13 DEF Persist, TypeOK
  <1>14. CASE Raises(c)
    <2>1. call' \in [Calls -> Call] /\ Named'
      BY <1>8, <1>14 DEF Raises, PCs, Invoking
    <2>2. faults' \in 0 .. MaxFaults
      BY <1>14, ControlAssumption DEF Raises, Fault, TypeOK
    <2> QED
      BY <2>1, <2>2, <1>2, <1>14 DEF Raises, TypeOK
  <1>15. CASE Settle(c)
    <2>1. call' \in [Calls -> Call] /\ Named'
      BY <1>9, <1>15 DEF Settle, Close
    <2>2. ops' \in [Ops -> Operation]
      <3>1. \A r \in Operation, status \in {"succeeded", "failed_final", "ambiguous"} :
              [r EXCEPT !.status = status, !.owner = None] \in Operation
        BY DEF Operation
      <3>2. Op(c) \in Ops
        BY <1>15 DEF Settle, Named
      <3>3. PICK status \in {"succeeded", "failed_final", "ambiguous"} : Close(c, status)
        BY <1>15 DEF Settle
      <3>4. \/ ops' = ops
            \/ ops' = [ops EXCEPT ![Op(c)] = [ops[Op(c)] EXCEPT !.status = status, !.owner = None]]
        BY <3>3 DEF Close
      <3>5. ops[Op(c)] \in Operation
        BY <3>2 DEF TypeOK
      <3>6. [ops[Op(c)] EXCEPT !.status = status, !.owner = None] \in Operation
        BY <3>1, <3>5
      <3> QED
        BY <3>2, <3>4, <3>6 DEF TypeOK
    <2> QED
      BY <2>1, <2>2, <1>2, <1>15 DEF Settle, TypeOK
  <1>16. CASE Crash(c)
    <2>1. call' \in [Calls -> Call] /\ Named'
      BY <1>9, <1>16 DEF Crash
    <2>2. faults' \in 0 .. MaxFaults
      BY <1>16, ControlAssumption DEF Crash, Fault, TypeOK
    <2> QED
      BY <2>1, <2>2, <1>2, <1>16 DEF Crash, TypeOK
  <1> QED
    BY <1>1, <1>5, <1>6, <1>7, <1>10, <1>11, <1>12, <1>13, <1>14, <1>15, <1>16 DEF Step

-----------------------------------------------------------------------------
(* The graph, and what calls and row say of it. *)

\* The graph only grows, and what was said of it stays true.
LEMMA GraphGrows ==
  ASSUME TypeOK, GraphInv, NEW c \in Calls, CallOK(c), Run(c)
  PROVE  /\ GraphInv' /\ graph'.latest >= graph.latest
         /\ \A s \in Snapshot : Truthful(s) => Truthful(s)'
         /\ ~At(c, "entering") /\ ~At(c, "running") => graph' = graph
  <1> USE ControlAssumption DEF At
  <1>1. ASSUME NEW mark \in {"node", "end"}, Put(mark)
        PROVE  /\ GraphInv' /\ graph'.latest >= graph.latest
               /\ \A s \in Snapshot : Truthful(s) => Truthful(s)'
    <2>1. /\ graph.latest \in 0 .. MaxCheckpoints /\ graph'.latest = graph.latest + 1
          /\ \A k \in Checkpoint : k # graph.latest + 1 => graph'.mark[k] = graph.mark[k]
          /\ graph.latest + 1 \in Checkpoint => graph'.mark[graph.latest + 1] = mark
      BY <1>1 DEF Put, TypeOK, Place, Checkpoint
    <2>2. GraphInv'
      BY <2>1, <1>1 DEF GraphInv, Checkpoint, None
    <2>3. ASSUME NEW s \in Snapshot, Truthful(s)
          PROVE  Truthful(s)'
      <3>1. s.at \in 0 .. MaxCheckpoints /\ s.at <= graph.latest
        BY <2>3 DEF Snapshot, Truthful, Place
      <3>2. s.at > 0 => graph'.mark[s.at] = graph.mark[s.at]
        BY <3>1, <2>1 DEF Checkpoint
      <3> QED
        BY <3>1, <3>2, <2>1, <2>3 DEF Truthful
    <2> QED
      BY <2>1, <2>2, <2>3
  <1>2. CASE Interrupt(c)
    <2>1. /\ graph'.latest = graph.latest /\ graph.latest \in Nat
          /\ call[c].at \in Checkpoint /\ graph.mark[call[c].at] \in {"node", "interrupt"}
          /\ \A k \in Checkpoint :
               graph'.mark[k] = IF k = call[c].at THEN "interrupt" ELSE graph.mark[k]
      BY <1>2 DEF Interrupt, CallOK, TypeOK, Place, Checkpoint, Call
    <2>2. GraphInv'
      BY <2>1 DEF GraphInv, None
    <2>3. ASSUME NEW s \in Snapshot, Truthful(s)
          PROVE  Truthful(s)'
      <3>1. s.at \in 0 .. MaxCheckpoints /\ s.at <= graph.latest
        BY <2>3 DEF Snapshot, Truthful, Place
      <3>2. s.at > 0 => graph'.mark[s.at] = IF s.at = call[c].at THEN "interrupt" ELSE graph.mark[s.at]
        BY <3>1, <2>1 DEF Checkpoint
      <3> QED
        BY <3>1, <3>2, <2>1, <2>3 DEF Truthful
    <2> QED
      BY <2>1, <2>2, <2>3, <1>2 DEF Interrupt
  <1>3. CASE EnterResume(c)
    BY <1>3 DEF EnterResume, GraphInv, Truthful, TypeOK, Place
  <1> QED
    BY <1>1, <1>2, <1>3 DEF Run, EnterStart, Superstep

\* What a call has read stays as it is under the steps of others.
LEMMA CallFrame ==
  ASSUME TypeOK, NEW d \in Calls, CallOK(d), call'[d] = call[d],
         graph.latest \in Nat, graph'.latest \in Nat, graph'.latest >= graph.latest,
         \A s \in Snapshot : Truthful(s) => Truthful(s)',
         At(d, "persisting") /\ Is(d, "start") => graph'.latest = graph.latest
  PROVE  CallOK(d)'
  <1>1. call[d].seen \in Snapshot /\ call[d].snap \in Snapshot /\ call[d].at \in Nat
    BY ControlAssumption DEF TypeOK, Call, Place
  <1>2. (Truthful(call[d].seen) => Truthful(call[d].seen)') /\ (Truthful(call[d].snap) => Truthful(call[d].snap)')
    BY <1>1
  <1> QED
    BY <1>1, <1>2 DEF CallOK, Truthful, At, Is, Op

\* A step changes one call, and that one keeps its operation while it is in the guard.
LEMMA Others ==
  ASSUME TypeOK, NEW c \in Calls, Step(c)
  PROVE  /\ \A d \in Calls \ {c} : call'[d] = call[d]
         /\ call'[c].pc \in Active => call[c].pc \in Active \cup {"claimed"} /\ call'[c].op = call[c].op
  <1> USE DEF Active, Invoking, Idle, At, Op
  <1>0. call \in [Calls -> Call] /\ call[c] \in Call
    BY DEF TypeOK
  <1>1. ASSUME NEW o \in Ops, AskResume(c, o) \/ Claim(c, o)
        PROVE  /\ \A d \in Calls \ {c} : call'[d] = call[d]
               /\ call'[c].pc \notin Active
    BY <1>0, <1>1 DEF AskResume, Claim, Call
  <1>2. ASSUME NEW pc \in PCs, Drop(c, pc)
        PROVE  (\A d \in Calls \ {c} : call'[d] = call[d]) /\ call'[c].pc = pc
    BY <1>0, <1>2 DEF Drop
  <1>3. ASSUME End(c)
        PROVE  (\A d \in Calls \ {c} : call'[d] = call[d]) /\ call'[c].pc \notin Active
    BY <1>0, <1>3 DEF End
  <1>4. CASE Read(c)
    <2>1. CASE BindStart(c)
      BY <2>1, <1>0, <1>2 DEF BindStart, Goto, PCs, Call
    <2>2. CASE ReadTerminal(c)
      BY <2>2, <1>2 DEF ReadTerminal, PCs
    <2>3. CASE ReadResume(c)
      BY <2>3, <1>0, <1>2 DEF ReadResume, PCs, Call
    <2>4. CASE ReadCancel(c)
      BY <2>4, <1>0, <1>2 DEF ReadCancel, PCs, Call
    <2> QED
      BY <2>1, <2>2, <2>3, <2>4, <1>4 DEF Read
  <1>5. CASE Run(c)
    BY <1>5, <1>0 DEF Run, EnterStart, EnterResume, Superstep, Interrupt, Call
  <1>6. CASE ReadGraph(c)
    BY <1>6, <1>0 DEF ReadGraph, Call
  <1>7. CASE Persist(c) \/ Raises(c)
    BY <1>7, <1>2 DEF Persist, Raises, ConflictEnds, PCs
  <1>8. CASE TurnAway(c) \/ Settle(c) \/ Crash(c)
    BY <1>8, <1>3 DEF TurnAway, Settle, Close, Crash
  <1> QED
    BY <1>1, <1>4, <1>5, <1>6, <1>7, <1>8 DEF Step

\* A step keeps what the calls and the row say of the graph.
LEMMA TruthStep ==
  ASSUME Inv, NEW c \in Calls, Step(c), TypeOK'
  PROVE  GraphInv' /\ Truthful(row)' /\ CallInv'
  <1> USE ControlAssumption DEF At
  <1>0. /\ TypeOK /\ GraphInv /\ Truthful(row) /\ CallOK(c) /\ row \in Snapshot /\ call[c] \in Call
        /\ graph.latest \in Nat /\ call[c].seen \in Snapshot /\ call[c].snap \in Snapshot
        /\ ~At(c, "idle") => Op(c) \in Ops
    BY DEF Inv, CallInv, Named, TypeOK, Call, Place
  <1>1. /\ GraphInv' /\ graph'.latest >= graph.latest /\ graph'.latest \in Nat
        /\ \A s \in Snapshot : Truthful(s) => Truthful(s)'
        /\ ~At(c, "entering") /\ ~At(c, "running") => graph' = graph
    <2>1. CASE Run(c)
      BY <2>1, <1>0, GraphGrows DEF TypeOK, Place
    <2>2. CASE graph' = graph
      BY <2>2, <1>0 DEF GraphInv, Truthful
    <2> QED
      BY <2>1, <2>2 DEF Step, AskResume, Claim, TurnAway, Read, ReadGraph, Persist, Raises, Settle, Crash
  <1>2. ASSUME NEW d \in Calls, d # c
        PROVE  CallOK(d)'
    <2>1. call'[d] = call[d] /\ CallOK(d)
      BY <1>2, Others DEF Inv, CallInv
    <2>2. ASSUME At(d, "persisting"), Is(d, "start")
          PROVE  graph' = graph
      <3>1. call[c].pc \in Active => Is(c, "cancel")
        BY <2>2, <1>2 DEF Inv, StartInv, Starting, Active
      <3>2. ~At(c, "entering") /\ ~At(c, "running")
        BY <3>1, <1>0 DEF CallOK, Active
      <3> QED
        BY <3>2, <1>1
    <2> QED
      BY <2>1, <2>2, <1>0, <1>1, CallFrame
  <1>3. ASSUME call'[c].pc \notin Active
        PROVE  CallOK(c)'
    BY <1>3 DEF CallOK, Active
  <1>12. ASSUME NEW pc \in PCs, Drop(c, pc)
         PROVE  call'[c].pc = pc
    BY <1>0, <1>12 DEF Drop, Idle, TypeOK
  <1>4. CASE Read(c)
    <2>1. CASE BindStart(c)
      <3>1. row' = row \/ row' = [status |-> "pending", at |-> 0]
        BY <2>1 DEF BindStart
      <3>2. Truthful(row)'
        BY <3>1, <1>0, <1>1 DEF Truthful
      <3>3. CASE Drop(c, "finishing") \/ Drop(c, "denied")
        <4>1. call'[c].pc \notin Active
          BY <3>3, <1>12 DEF Active, PCs
        <4> QED
          BY <4>1, <3>2, <1>1, <1>2, <1>3 DEF CallInv
      <3>4. CASE Goto(c, "entering")
        <4>1. call'[c].pc = "entering" /\ call'[c].op = call[c].op
          BY <3>4, <1>0 DEF Goto, TypeOK, Call
        <4>2. CallOK(c)'
          BY <4>1, <2>1 DEF BindStart, CallOK, Is, Op
        <4> QED
          BY <4>2, <3>2, <1>1, <1>2 DEF CallInv
      <3> QED
        BY <3>3, <3>4, <2>1 DEF BindStart
    <2>2. CASE ReadTerminal(c)
      BY <2>2, <1>0, <1>1, <1>2, <1>3 DEF ReadTerminal, Drop, Active, CallInv, TypeOK, Truthful
    <2>3. CASE ReadResume(c)
      <3>1. Truthful(row)' /\ row' = row
        BY <2>3, <1>0, <1>1 DEF ReadResume, Truthful
      <3>2. CASE call'[c].pc \notin Active
        BY <3>1, <3>2, <1>1, <1>2, <1>3 DEF CallInv
      <3>3. CASE call'[c].pc \in Active
        <4>1. /\ call'[c].pc = "entering" /\ call'[c].op = call[c].op /\ call'[c].seen = row
              /\ row.status = "interrupted"
          <5>1. /\ row.status = "interrupted"
                /\ call' = [call EXCEPT ![c].pc = "entering", ![c].seen = row]
            BY <3>3, <2>3, <1>12 DEF ReadResume, Fresh, Active, PCs
          <5> QED
            BY <5>1, <1>0 DEF TypeOK, Call
        <4>2. CallOK(c)'
          BY <4>1, <3>1, <2>3 DEF ReadResume, CallOK, Is, Op, Active, Terminal, Truthful
        <4> QED
          BY <4>2, <3>1, <1>1, <1>2 DEF CallInv
      <3> QED
        BY <3>2, <3>3
    <2>4. CASE ReadCancel(c)
      <3>1. Truthful(row)' /\ row' = row
        BY <2>4, <1>0, <1>1 DEF ReadCancel, Truthful
      <3>2. CASE call' = [call EXCEPT ![c].pc = "reading", ![c].seen = row]
        <4>1. call'[c].pc = "reading" /\ call'[c].op = call[c].op /\ call'[c].seen = row
          BY <3>2, <1>0 DEF TypeOK, Call
        <4>2. CallOK(c)'
          BY <4>1, <3>1, <2>4, <1>0 DEF ReadCancel, CallOK, Is, Op, Active, Truthful
        <4> QED
          BY <4>2, <3>1, <1>1, <1>2 DEF CallInv
      <3>3. CASE Drop(c, "denied")
        BY <3>3, <3>1, <1>1, <1>2, <1>3, <1>12 DEF Active, PCs, CallInv
      <3> QED
        BY <3>2, <3>3, <2>4 DEF ReadCancel
    <2> QED
      BY <2>1, <2>2, <2>3, <2>4, <1>4 DEF Read
  <1>5. ASSUME CallOK(c)', row' = row
        PROVE  GraphInv' /\ Truthful(row)' /\ CallInv'
    <2>1. Truthful(row)'
      BY <1>5, <1>0, <1>1 DEF Truthful
    <2> QED
      BY <2>1, <1>1, <1>2, <1>5 DEF CallInv
  <1>6. CASE Run(c)
    <2>1. row' = row
      BY <1>6 DEF Run
    <2>2. CallOK(c)'
      <3>1. CASE EnterStart(c)
        <4>1. /\ call'[c].pc = "running" /\ call'[c].op = call[c].op /\ call'[c].at = graph.latest + 1
              /\ graph'.latest = graph.latest + 1 /\ call'[c].seen = call[c].seen /\ Is(c, "start")
          BY <3>1, <1>0 DEF EnterStart, Put, TypeOK, Call
        <4> QED
          BY <4>1, <1>0 DEF CallOK, Is, Op
      <3>2. CASE EnterResume(c)
        <4>1. /\ call'[c].op = call[c].op /\ graph' = graph /\ call'[c].seen = call[c].seen
              /\ \/ call'[c].pc = "reading"
                 \/ call'[c].pc = "running" /\ call'[c].at = graph.latest
              /\ Is(c, "resume") /\ At(c, "entering")
          BY <3>2, <1>0 DEF EnterResume, TypeOK, Call
        <4>2. /\ Truthful(call[c].seen) /\ call[c].seen.status = "interrupted"
          BY <4>1, <1>0 DEF CallOK, Active, Is
        <4>3. Truthful(call[c].seen)' /\ graph.latest > 0
          BY <4>1, <4>2, <1>0, <1>1 DEF Truthful, Snapshot, Place
        <4> QED
          BY <4>1, <4>2, <4>3, <1>0 DEF CallOK, Is, Op, Truthful, Terminal
      <3>3. CASE Superstep(c) \/ Interrupt(c)
        <4>1. /\ call'[c].op = call[c].op /\ call'[c].seen = call[c].seen /\ At(c, "running")
              /\ \/ call'[c].pc = "reading"
                 \/ call'[c].pc = "running" /\ call'[c].at = graph.latest + 1 /\ graph'.latest = graph.latest + 1
          BY <3>3, <1>0 DEF Superstep, Interrupt, Put, TypeOK, Call
        <4>2. call[c].at > 0 /\ call[c].at <= graph.latest /\ call[c].at \in Nat /\ ~Is(c, "cancel")
          BY <4>1, <1>0 DEF CallOK, Call, Place
        <4>3. graph'.latest > 0
          BY <4>2, <1>0, <1>1
        <4>4. ASSUME ~Is(c, "start")
              PROVE  /\ Truthful(call[c].seen)' /\ call[c].seen.status \notin Terminal
                     /\ Is(c, "resume") => call[c].seen.status = "interrupted"
          BY <4>1, <4>4, <1>0, <1>1 DEF CallOK, Active
        <4> QED
          BY <4>1, <4>2, <4>3, <4>4, <1>0 DEF CallOK, Is, Op, Truthful
      <3> QED
        BY <3>1, <3>2, <3>3, <1>6 DEF Run
    <2> QED
      BY <2>1, <2>2, <1>5
  <1>7. CASE ReadGraph(c)
    <2> DEFINE k == graph.latest
               status == IF Is(c, "cancel") THEN "cancelled" ELSE StatusOf(graph.mark[k])
    <2>1. /\ call'[c].pc = "persisting" /\ call'[c].op = call[c].op /\ call'[c].seen = call[c].seen
          /\ call'[c].snap = [status |-> status, at |-> k] /\ graph' = graph /\ row' = row /\ At(c, "reading")
      BY <1>7, <1>0 DEF ReadGraph, TypeOK, Call
    <2>2. ~Is(c, "cancel") => graph.latest > 0 /\ graph.mark[k] \in {"node", "interrupt", "end"}
      <3>1. ~Is(c, "cancel") => graph.latest > 0
        BY <2>1, <1>0 DEF CallOK
      <3>2. graph.latest > 0 => graph.latest \in Checkpoint /\ graph.mark[k] # None
        BY <1>0 DEF GraphInv, TypeOK, Place, Checkpoint
      <3> QED
        BY <3>1, <3>2, <1>0 DEF TypeOK
    <2>3. /\ Truthful(call'[c].snap) /\ call'[c].snap.at = graph.latest
          /\ call'[c].snap.status \notin {"absent", "pending"}
          /\ Is(c, "cancel") <=> call'[c].snap.status = "cancelled"
      BY <2>1, <2>2, <1>0 DEF Truthful, StatusOf
    <2>4. ASSUME ~Is(c, "start")
          PROVE  /\ Truthful(call[c].seen) /\ call[c].seen.status \notin Terminal
                 /\ Is(c, "resume") => call[c].seen.status = "interrupted"
      BY <2>1, <2>4, <1>0 DEF CallOK, Active
    <2>5. CallOK(c)'
      BY <2>1, <2>3, <2>4, <1>0 DEF CallOK, Is, Op, Truthful
    <2> QED
      BY <2>1, <2>5, <1>5
  <1>8. CASE Persist(c)
    <2>1. call'[c].pc \notin Active
      BY <1>8, <1>12 DEF Persist, ConflictEnds, Active, PCs
    <2>2. graph' = graph /\ (row' = row \/ row' = call[c].snap)
      BY <1>8 DEF Persist
    <2>3. Truthful(call[c].snap)
      BY <1>8, <1>0 DEF Persist, CallOK
    <2>4. Truthful(row)'
      BY <2>2, <2>3, <1>0 DEF Truthful
    <2> QED
      BY <2>1, <2>4, <1>1, <1>2, <1>3 DEF CallInv
  <1>9. ASSUME NEW o \in Ops, AskResume(c, o) \/ Claim(c, o)
        PROVE  GraphInv' /\ Truthful(row)' /\ CallInv'
    <2>1. call'[c].pc \notin Active /\ row' = row
      BY <1>9, <1>0 DEF AskResume, Claim, Active, TypeOK, Call
    <2> QED
      BY <2>1, <1>3, <1>5
  <1>10. CASE Raises(c)
    <2>1. call'[c].pc \notin Active /\ row' = row
      BY <1>10, <1>0 DEF Raises, Drop, Active, TypeOK
    <2> QED
      BY <2>1, <1>3, <1>5
  <1>11. CASE TurnAway(c) \/ Settle(c) \/ Crash(c)
    <2>1. call'[c].pc \notin Active /\ row' = row
      BY <1>11, <1>0 DEF TurnAway, Settle, Close, Crash, End, Idle, Active, TypeOK
    <2> QED
      BY <2>1, <1>3, <1>5
  <1> QED
    BY <1>4, <1>6, <1>7, <1>8, <1>9, <1>10, <1>11 DEF Step

\* While a start is under way nothing else moves the graph, and it is the only one.
LEMMA StartStep ==
  ASSUME Inv, NEW c \in Calls, Step(c), TypeOK'
  PROVE  StartInv'
  <1> USE ControlAssumption DEF At
  <1>0. /\ TypeOK /\ StartInv /\ CallOK(c) /\ call \in [Calls -> Call] /\ call[c] \in Call
        /\ ~At(c, "idle") => Op(c) \in Ops
        /\ \A d \in Calls \ {c} : call'[d] = call[d]
        /\ call'[c].pc \in Active => call[c].pc \in Active \cup {"claimed"} /\ call'[c].op = call[c].op
    BY Others DEF Inv, CallInv, Named, TypeOK
  <1>1. CASE BindStart(c) /\ row.status = "absent"
    <2>1. /\ row'.status = "pending" /\ Is(c, "start") /\ call[c].pc = "claimed"
          /\ \/ call'[c].pc = "entering" /\ call'[c].op = call[c].op
             \/ call'[c].pc \notin Active
      <3>1. row'.status = "pending" /\ Is(c, "start") /\ call[c].pc = "claimed"
        BY <1>1 DEF BindStart, IsBound
      <3>2. CASE Goto(c, "entering")
        BY <3>1, <3>2, <1>0 DEF Goto, Call
      <3>3. CASE Drop(c, "denied")
        BY <3>1, <3>3, <1>0 DEF Drop, Idle, Active, TypeOK
      <3> QED
        BY <3>2, <3>3, <1>1 DEF BindStart, IsBound
    <2>2. runs' = runs
      BY <1>1, <1>0 DEF Step, AskResume, Claim, TurnAway, Read, Run, EnterStart, EnterResume,
        Superstep, Interrupt, BindStart, ReadGraph, Persist, Raises, Settle, Crash, Drop, Goto
    <2>3. ~Started' /\ StartRunsOnce'
      BY <2>2, <1>1, <1>0 DEF StartInv, Started, StartRunsOnce
    <2>4. \A d \in Calls \ {c} : call[d].pc \in Active => Is(d, "cancel")
      BY <1>1, <1>0 DEF StartInv
    <2> QED
      BY <2>1, <2>3, <2>4, <1>0 DEF StartInv, Starting, Is, Op
  <1>2. ASSUME row' = row, Started' => Started, StartRunsOnce',
               call'[c].pc = "entering" => Is(c, "resume"),
               call'[c].pc \in Active /\ call[c].pc = "claimed" =>
                 Is(c, "cancel") \/ (row.status = "interrupted" /\ Is(c, "resume"))
        PROVE  StartInv'
    <2>1. call'[c].pc \in Active =>
            \/ call[c].pc \in Active
            \/ Is(c, "cancel") \/ (row.status = "interrupted" /\ Is(c, "resume"))
      BY <1>2, <1>0 DEF Active
    <2>2. row.status = "absent" => ~Started' /\ (\A d \in Calls : call'[d].pc \in Active => Kind[call'[d].op] = "cancel")
      BY <2>1, <1>2, <1>0 DEF StartInv, Is, Op
    <2>3. ASSUME NEW d \in Calls, call'[d].pc \in Active, Kind[call'[d].op] = "start"
          PROVE  /\ Starting(d) /\ (call'[d].pc = "entering" => At(d, "entering") /\ d # c)
                 /\ \A e \in Calls \ {d} : call'[e].pc \in Active => Kind[call'[e].op] = "cancel"
      <3>1. Starting(d) /\ (call'[d].pc = "entering" => At(d, "entering") /\ d # c)
        BY <2>1, <2>3, <1>2, <1>0 DEF Starting, Is, Op
      <3>2. row.status \in {"pending", "cancelled"} /\ \A e \in Calls \ {d} : call[e].pc \in Active => Is(e, "cancel")
        BY <3>1, <1>0 DEF StartInv
      <3> QED
        BY <3>1, <3>2, <2>1, <1>0 DEF Is, Op
    <2> QED
      BY <2>2, <2>3, <1>2, <1>0 DEF StartInv, Starting, Is, Op
  <1>3. ASSUME row' = row, runs' = runs,
               call'[c].pc = "entering" => Is(c, "resume"),
               call'[c].pc \in Active /\ call[c].pc = "claimed" =>
                 Is(c, "cancel") \/ (row.status = "interrupted" /\ Is(c, "resume"))
        PROVE  StartInv'
    <2>1. (Started' => Started) /\ StartRunsOnce'
      BY <1>3, <1>0 DEF Started, StartInv, StartRunsOnce
    <2> QED
      BY <2>1, <1>2, <1>3
  <1>4. CASE Read(c)
    <2>0. runs' = runs
      BY <1>4 DEF Read
    <2>5. ASSUME NEW pc \in {"finishing", "failing", "denied"}, Drop(c, pc)
          PROVE  call'[c].pc \notin Active
      BY <1>0, <2>5 DEF Drop, Idle, Active
    <2>1. CASE BindStart(c) /\ row.status # "absent"
      BY <2>0, <2>1, <2>5, <1>3 DEF BindStart, IsBound, Active
    <2>2. CASE ReadTerminal(c)
      BY <2>0, <2>2, <2>5, <1>3 DEF ReadTerminal, Active
    <2>3. CASE ReadResume(c)
      <3>1. Is(c, "resume") /\ row' = row
        BY <2>3 DEF ReadResume
      <3>2. call'[c].pc \in Active => row.status = "interrupted"
        BY <2>3, <2>5 DEF ReadResume, Fresh
      <3> QED
        BY <2>0, <3>1, <3>2, <1>3
    <2>4. CASE ReadCancel(c)
      <3>1. Is(c, "cancel") /\ row' = row /\ call'[c].pc # "entering"
        BY <2>4, <2>5, <1>0 DEF ReadCancel, Active, Call
      <3>2. call'[c].pc = "entering" => Is(c, "resume")
        BY <3>1
      <3>3. call'[c].pc \in Active /\ call[c].pc = "claimed" =>
              Is(c, "cancel") \/ (row.status = "interrupted" /\ Is(c, "resume"))
        BY <3>1
      <3> QED
        BY <2>0, <3>1, <3>2, <3>3, <1>3
    <2> QED
      BY <2>1, <2>2, <2>3, <2>4, <1>1, <1>4 DEF Read
  <1>5. CASE EnterStart(c) /\ row' = row
    <2>1. /\ call'[c].pc = "running" /\ call'[c].op = call[c].op /\ Starting(c) /\ At(c, "entering")
      BY <1>5, <1>0 DEF EnterStart, Starting, Active, Call
    <2>2. /\ row.status \in {"pending", "cancelled"} /\ ~Started
          /\ \A d \in Calls \ {c} : call[d].pc \in Active => Is(d, "cancel")
      BY <2>1, <1>0 DEF StartInv
    <2>3. StartRunsOnce'
      BY <2>2, <1>5 DEF EnterStart, Started, StartRunsOnce
    <2>4. ASSUME NEW d \in Calls, d # c
          PROVE  call'[d].pc \in Active => Kind[call'[d].op] = "cancel"
      BY <2>4, <2>2, <1>0 DEF Is, Op
    <2> QED
      BY <2>1, <2>2, <2>3, <2>4, <1>5 DEF StartInv, Starting, Is, Op
  <1>6. CASE EnterResume(c) /\ row' = row
    <2>1. Op(c) \in Ops /\ Kind[Op(c)] = "resume" /\ call[c].pc = "entering" /\ call'[c].pc # "entering"
      BY <1>6, <1>0 DEF EnterResume, Is, Call
    <2>2. \A r \in runs' : Kind[r.op] = "start" => r \in runs
      BY <2>1, <1>6 DEF EnterResume
    <2>3. (Started' => Started) /\ StartRunsOnce'
      BY <2>2, <1>0 DEF Started, StartInv, StartRunsOnce
    <2> QED
      BY <2>1, <2>3, <1>2, <1>6
  <1>7. CASE Superstep(c) \/ Interrupt(c)
    <2>1. call[c].pc = "running" /\ call'[c].pc # "entering" /\ runs' = runs
      BY <1>7, <1>0 DEF Superstep, Interrupt, Call
    <2>2. row' = row
      BY <1>7, <2>1 DEF Step, AskResume, Claim, TurnAway, Read, Run, BindStart, ReadTerminal, ReadResume,
        ReadCancel, ReadGraph, Persist, Raises, Settle, Crash
    <2> QED
      BY <2>1, <2>2, <1>3
  <1>8. CASE ReadGraph(c)
    <2>1. call[c].pc = "reading" /\ call'[c].pc = "persisting" /\ runs' = runs /\ row' = row
      BY <1>8, <1>0 DEF ReadGraph, Call
    <2> QED
      BY <2>1, <1>3
  <1>9. CASE Persist(c)
    <2>1. call[c].pc = "persisting" /\ runs' = runs /\ (row' = row \/ row' = call[c].snap)
      BY <1>9 DEF Persist
    <2>2. call'[c].pc \notin Active
      BY <1>9, <1>0 DEF Persist, Drop, Idle, ConflictEnds, Active
    <2>3. CASE row' = row
      BY <2>1, <2>2, <2>3, <1>3 DEF Active
    <2>4. CASE row' = call[c].snap
      <3>1. row'.status # "absent" /\ (Is(c, "cancel") => row'.status = "cancelled")
        BY <2>1, <2>4, <1>0 DEF CallOK
      <3>2. ASSUME NEW d \in Calls, call'[d].pc \in Active, Kind[call'[d].op] = "start"
            PROVE  /\ row'.status \in {"pending", "cancelled"}
                   /\ \A e \in Calls \ {d} : call'[e].pc \in Active => Kind[call'[e].op] = "cancel"
                   /\ call'[d].pc = "entering" => ~Started
        <4>1. d # c /\ Starting(d) /\ call'[d] = call[d]
          BY <3>2, <2>2, <1>0 DEF Starting, Is, Op
        <4>2. Is(c, "cancel")
          BY <4>1, <2>1, <1>0 DEF StartInv, Active
        <4>3. \A e \in Calls \ {d} : call[e].pc \in Active => Is(e, "cancel")
          BY <4>1, <1>0 DEF StartInv
        <4>4. At(d, "entering") => ~Started
          BY <4>1, <1>0 DEF StartInv
        <4> QED
          BY <3>1, <4>1, <4>2, <4>3, <4>4, <2>2, <1>0 DEF Is, Op
      <3>3. Started' = Started /\ StartRunsOnce'
        BY <2>1, <1>0 DEF Started, StartInv, StartRunsOnce
      <3> QED
        BY <3>1, <3>2, <3>3 DEF StartInv, Starting, Is, Op
    <2> QED
      BY <2>1, <2>3, <2>4
  <1>10. ASSUME NEW o \in Ops, AskResume(c, o) \/ Claim(c, o)
         PROVE  StartInv'
    <2>1. call'[c].pc \notin Active /\ row' = row /\ runs' = runs
      BY <1>10, <1>0 DEF AskResume, Claim, Active, Call
    <2> QED
      BY <2>1, <1>3 DEF Active
  <1>11. CASE TurnAway(c) \/ Raises(c) \/ Settle(c) \/ Crash(c)
    <2>1. row' = row /\ runs' = runs
      BY <1>11 DEF TurnAway, Raises, Settle, Crash
    <2>2. End(c) \/ Drop(c, "failing")
      BY <1>11 DEF TurnAway, Raises, Settle, Close, Crash
    <2>3. call'[c].pc \in {"idle", "failing"}
      <3>1. ASSUME End(c) PROVE call'[c].pc = "idle"
        BY <3>1, <1>0 DEF End, Idle
      <3>2. ASSUME Drop(c, "failing") PROVE call'[c].pc = "failing"
        BY <3>2, <1>0 DEF Drop, Idle
      <3> QED
        BY <2>2, <3>1, <3>2
    <2> QED
      BY <2>1, <2>3, <1>3 DEF Active
  <1> QED
    BY <1>4, <1>5, <1>6, <1>7, <1>8, <1>9, <1>10, <1>11 DEF Step, Run

LEMMA InvInit == Init => Inv
  <1> SUFFICES ASSUME Init PROVE Inv
    OBVIOUS
  <1> USE ControlAssumption DEF At, Op, Init, Idle
  <1>1. TypeOK
    BY TypeInit
  <1>2. Named /\ GraphInv /\ CallInv
    BY DEF Named, GraphInv, Checkpoint, CallInv, CallOK, Active
  <1>3. Truthful(row) /\ StartInv
    BY DEF Truthful, Absent, StartInv, Started, Starting, StartRunsOnce, Active
  <1> QED
    BY <1>1, <1>2, <1>3 DEF Inv

LEMMA InvStep == Inv /\ [Next]_vars => Inv'
  <1> SUFFICES ASSUME Inv, [Next]_vars PROVE Inv'
    OBVIOUS
  <1>1. CASE Next
    <2>1. PICK c \in Calls : Step(c)
      BY <1>1 DEF Next
    <2>2. TypeOK' /\ Named'
      BY <1>1, TypeStep DEF Inv
    <2> QED
      BY <2>1, <2>2, TruthStep, StartStep DEF Inv
  <1>2. CASE UNCHANGED vars
    <2>1. TypeOK' /\ Named' /\ GraphInv' /\ Truthful(row)'
      BY <1>2 DEF vars, Inv, TypeOK, Named, At, Op, GraphInv, Truthful
    <2>2. CallInv'
      BY <1>2 DEF vars, Inv, CallInv, CallOK, At, Is, Op, Truthful
    <2>3. StartInv'
      BY <1>2 DEF vars, Inv, StartInv, Started, Starting, StartRunsOnce, At, Is, Op
    <2> QED
      BY <2>1, <2>2, <2>3 DEF Inv
  <1> QED
    BY <1>1, <1>2

LEMMA Invariance == Spec => []Inv
  BY InvInit, InvStep, PTL DEF Spec

-----------------------------------------------------------------------------
(* The row, the operations and the calls keep their types.                 *)
THEOREM TypeCorrect == Spec => []TypeOK
  <1>1. Inv => TypeOK
    BY DEF Inv
  <1> QED
    BY <1>1, Invariance, PTL

(* bind_start lets one start through, whichever starts are retried, lapse  *)
(* or race: the graph is started once.                                     *)
THEOREM StartedOnce == Spec => []StartRunsOnce
  <1>1. Inv => StartRunsOnce
    BY DEF Inv, StartInv
  <1> QED
    BY <1>1, Invariance, PTL

(* persist_snapshot stores what the graph says of its checkpoint, and what *)
(* it says of it does not change.                                          *)
THEOREM RowTruthful == Spec => []RowTellsTheTruth
  <1>1. Inv => RowTellsTheTruth
    BY DEF Inv, Truthful, RowTellsTheTruth
  <1> QED
    BY <1>1, Invariance, PTL

(* persist_snapshot compares checkpoints, and a run that has succeeded is  *)
(* at a checkpoint no command under way has read.                          *)
THEOREM RowForward == Spec => RowMovesForward
  <1>1. ASSUME Inv, Next
        PROVE  row'.at >= row.at /\ (row.status = "succeeded" => row' = row)
    <2>1. PICK c \in Calls : Step(c)
      BY <1>1 DEF Next
    <2>2. /\ row \in Snapshot /\ Truthful(row) /\ CallOK(c) /\ call[c].seen \in Snapshot
          /\ call[c].snap \in Snapshot /\ row.at \in Nat /\ call[c].seen.at \in Nat /\ call[c].snap.at \in Nat
          /\ graph.latest \in Nat
      BY <1>1 DEF Inv, CallInv, TypeOK, Call, Snapshot, Place
    <2>3. CASE row' = row
      BY <2>2, <2>3
    <2>4. CASE Persist(c) /\ row' # row
      <3>1. At(c, "persisting") /\ Unmoved(c) /\ row' = call[c].snap
        BY <2>4 DEF Persist
      <3>2. CASE Is(c, "start")
        <4>1. call[c].snap.at = graph.latest
          BY <3>1, <3>2, <2>2 DEF CallOK
        <4>2. row.status \in {"pending", "cancelled"}
          BY <1>1, <3>1, <3>2 DEF Inv, StartInv, Starting, Active, At
        <4> QED
          BY <3>1, <4>1, <4>2, <2>2 DEF Truthful
      <3>3. CASE ~Is(c, "start")
        <4>1. /\ row.at = call[c].seen.at /\ call[c].seen.at <= call[c].snap.at
              /\ Truthful(call[c].seen) /\ call[c].seen.status \notin Terminal
          BY <3>1, <3>3, <2>2 DEF CallOK, Unmoved, Active, At
        <4>2. row.status # "succeeded"
          BY <4>1, <2>2 DEF Truthful, Snapshot, Terminal
        <4> QED
          BY <3>1, <4>1, <4>2, <2>2
      <3> QED
        BY <3>2, <3>3
    <2>5. CASE BindStart(c) /\ row.status = "absent"
      BY <2>5, <2>2 DEF BindStart, IsBound, Truthful
    <2>6. row' = row \/ Persist(c) \/ BindStart(c)
      BY <2>1 DEF Step, AskResume, Claim, TurnAway, Read, ReadTerminal, ReadResume, ReadCancel, Run,
        ReadGraph, Raises, Settle, Crash
    <2>7. BindStart(c) => row' = row \/ row.status = "absent"
      BY DEF BindStart, IsBound
    <2> QED
      BY <2>3, <2>4, <2>5, <2>6, <2>7
  <1>2. Inv /\ [Next]_vars => [row'.at >= row.at /\ (row.status = "succeeded" => row' = row)]_vars
    BY <1>1
  <1> QED
    BY <1>2, Invariance, PTL DEF Spec, RowMovesForward

-----------------------------------------------------------------------------
(* Executions of an operation. *)

\* A step of c keeps what it does not touch.
LEMMA ClaimStep ==
  ASSUME TypeOK, Named, ClaimInv, NEW c \in Calls, Step(c), TypeOK'
  PROVE  ClaimInv'
  <1> USE ControlAssumption DEF At
  <1>0. /\ call \in [Calls -> Call] /\ call[c] \in Call
        /\ \A d \in Calls : ~At(d, "idle") => Op(d) \in Ops
        /\ \A d \in Calls \ {c} : call'[d] = call[d]
        /\ \A o \in Ops : claims[o] \in Nat
        /\ \A r \in runs : r.op \in Ops
    BY Others DEF Named, TypeOK
  \* Every step but Claim leaves claims alone.
  <1>1. ASSUME claims' = claims,
               Executing(c)' => Executing(c) /\ call'[c].op = call[c].op,
               \A r \in runs' : r \in runs \/ (r.op = Op(c) /\ At(c, "entering") /\ ~At(c, "entering")'),
               call'[c].pc \in {"claimed", "entering"} => At(c, "claimed"),
               call'[c].pc = "denied" => call[c].pc \in {"claimed", "entering"} /\ runs' = runs,
               \A o \in Ops : ops'[o].status = "failed_final" =>
                 \/ ops[o].status = "failed_final"
                 \/ o = Op(c) /\ At(c, "denied") /\ ~Executing(c)'
        PROVE  ClaimInv'
    <2>1. ASSUME NEW d \in Calls, Executing(d)'
          PROVE  Executing(d) /\ call'[d].op = call[d].op /\ Op(d) \in Ops
      BY <2>1, <1>1, <1>0 DEF Executing, Invoking
    <2>2. \A d \in Calls : Executing(d)' => claims'[Op(d)'] > 0
      BY <2>1, <1>1 DEF ClaimInv, Op
    <2>3. \A r \in runs' : claims'[r.op] > 0
      <3>1. At(c, "entering") => Executing(c)
        BY DEF Executing, Invoking
      <3> QED
        BY <3>1, <1>1 DEF ClaimInv
    <2>4. \A o \in Ops : ops'[o].status = "failed_final" => claims'[o] > 0
      <3>1. At(c, "denied") => Executing(c)
        BY DEF Executing
      <3> QED
        BY <3>1, <1>1 DEF ClaimInv
    <2>5. \A d, e \in Calls :
            Executing(d)' /\ Executing(e)' /\ Op(d)' = Op(e)' /\ claims'[Op(d)'] = 1 => d = e
      BY <2>1, <1>1 DEF ClaimInv, Op
    <2>6. ASSUME NEW d \in Calls, Executing(d)', claims'[Op(d)'] = 1
          PROVE  /\ ops'[Op(d)'].status # "failed_final"
                 /\ call'[d].pc \in {"claimed", "entering", "denied"} => \A r \in runs' : r.op # Op(d)'
      <3>1. Executing(d) /\ Op(d)' = Op(d) /\ Op(d) \in Ops /\ claims[Op(d)] = 1
        BY <2>1, <2>6, <1>1 DEF Op
      <3>2. /\ ops[Op(d)].status # "failed_final"
            /\ call[d].pc \in {"claimed", "entering", "denied"} => \A r \in runs : r.op # Op(d)
        BY <3>1 DEF ClaimInv
      <3>3. Executing(c) /\ Op(c) = Op(d) => c = d
        BY <3>1 DEF ClaimInv
      <3>4. ops'[Op(d)].status # "failed_final"
        <4>1. At(c, "denied") => Executing(c)
          BY DEF Executing
        <4> QED
          BY <4>1, <3>1, <3>2, <3>3, <2>6, <1>1
      <3>5. ASSUME call'[d].pc \in {"claimed", "entering", "denied"}, NEW r \in runs'
            PROVE  r.op # Op(d)
        <4>1. CASE d # c
          <5>1. \A s \in runs : s.op # Op(d)
            BY <4>1, <3>2, <3>5, <1>0
          <5>2. At(c, "entering") => Executing(c)
            BY DEF Executing, Invoking
          <5> QED
            BY <4>1, <5>1, <5>2, <3>3, <3>5, <1>1
        <4>2. CASE d = c
          <5>1. call[c].pc \in {"claimed", "entering", "denied"}
            BY <4>2, <3>5, <1>1
          <5>2. \A s \in runs : s.op # Op(d)
            BY <4>2, <5>1, <3>2
          <5>3. CASE r \in runs
            BY <5>2, <5>3
          <5>4. CASE r \notin runs
            BY <4>2, <5>4, <3>5, <1>1
          <5> QED
            BY <5>3, <5>4
        <4> QED
          BY <4>1, <4>2
      <3> QED
        BY <3>1, <3>4, <3>5
    <2>7. FinalFailureDidNothing'
      <3>1. SUFFICES ASSUME NEW r \in runs', claims'[r.op] = 1, ops'[r.op].status = "failed_final"
                     PROVE  FALSE
        BY DEF FinalFailureDidNothing
      <3>2. r.op \in Ops
        BY <3>1 DEF TypeOK
      <3>3. CASE ops[r.op].status = "failed_final"
        <4>1. r \notin runs
          BY <3>1, <3>3, <1>1 DEF ClaimInv, FinalFailureDidNothing
        <4>2. r.op = Op(c) /\ Executing(c)
          BY <4>1, <3>1, <1>1 DEF Executing, Invoking
        <4> QED
          BY <4>2, <3>1, <3>3, <1>1 DEF ClaimInv
      <3>4. CASE r.op = Op(c) /\ At(c, "denied") /\ ~Executing(c)'
        <4>1. r \in runs
          BY <3>1, <3>4, <1>1
        <4>2. Executing(c) /\ claims[Op(c)] = 1
          BY <3>1, <3>4, <1>1 DEF Executing
        <4> QED
          BY <4>1, <4>2, <3>4 DEF ClaimInv
      <3> QED
        BY <3>1, <3>2, <3>3, <3>4, <1>1
    <2> QED
      BY <2>2, <2>3, <2>4, <2>5, <2>6, <2>7 DEF ClaimInv
  <1>2. ASSUME claims' = claims, runs' = runs, ops' = ops,
               call'[c].pc \in {"idle", "asked"} \/ (Executing(c) /\ call'[c].op = call[c].op),
               call'[c].pc \notin {"claimed", "entering", "denied"} \/ At(c, "claimed")
        PROVE  ClaimInv'
    BY <1>1, <1>2 DEF Executing, Invoking
  <1>3. ASSUME NEW o \in Ops, Claim(c, o)
        PROVE  ClaimInv'
    <2>1. /\ call'[c].op = o /\ ~Executing(c)
          /\ claims' = [claims EXCEPT ![o] = claims[o] + 1] /\ runs' = runs
          /\ ops'[o].status = "in_progress"
          /\ \A p \in Ops \ {o} : ops'[p] = ops[p] /\ claims'[p] = claims[p]
          /\ claims'[o] = claims[o] + 1
      BY <1>3, <1>0 DEF Claim, MayClaim, Executing, Invoking, TypeOK, Call
    <2>2. claims'[o] = 1 =>
            /\ \A d \in Calls : Executing(d) => Op(d) # o
            /\ \A r \in runs : r.op # o
      BY <2>1, <1>0 DEF ClaimInv
    <2>3. ASSUME NEW d \in Calls, Executing(d)'
          PROVE  /\ Op(d)' \in Ops
                 /\ d # c => Executing(d) /\ Op(d)' = Op(d) /\ call'[d] = call[d]
      BY <2>1, <2>3, <1>0 DEF Executing, Invoking, Op
    <2>4. (\A r \in runs' : claims'[r.op] > 0) /\ (\A p \in Ops : ops'[p].status = "failed_final" => claims'[p] > 0)
      BY <2>1, <1>0 DEF ClaimInv
    <2>5. \A d \in Calls : Executing(d)' => claims'[Op(d)'] > 0
      <3>1. Op(c)' = o
        BY <2>1 DEF Op
      <3> QED
        BY <3>1, <2>1, <2>3, <1>0 DEF ClaimInv
    <2>6. \A d, e \in Calls :
            Executing(d)' /\ Executing(e)' /\ Op(d)' = Op(e)' /\ claims'[Op(d)'] = 1 => d = e
      <3>1. Op(c)' = o
        BY <2>1 DEF Op
      <3> QED
        BY <3>1, <2>1, <2>2, <2>3 DEF ClaimInv
    <2>7. ASSUME NEW d \in Calls, Executing(d)', claims'[Op(d)'] = 1
          PROVE  /\ ops'[Op(d)'].status # "failed_final"
                 /\ call'[d].pc \in {"claimed", "entering", "denied"} => \A r \in runs' : r.op # Op(d)'
      <3>1. CASE Op(d)' = o
        BY <3>1, <2>1, <2>2, <2>7
      <3>2. CASE Op(d)' # o
        <4>1. d # c
          BY <3>2, <2>1 DEF Op
        <4> QED
          BY <4>1, <3>2, <2>1, <2>3, <2>7 DEF ClaimInv
      <3> QED
        BY <3>1, <3>2
    <2>8. FinalFailureDidNothing'
      BY <2>1, <2>2, <1>0 DEF ClaimInv, FinalFailureDidNothing
    <2> QED
      BY <2>4, <2>5, <2>6, <2>7, <2>8 DEF ClaimInv
  <1>4. ASSUME NEW o \in Ops, AskResume(c, o)
        PROVE  ClaimInv'
    <2>1. call'[c].pc = "asked"
      BY <1>4, <1>0 DEF AskResume, Call
    <2> QED
      BY <2>1, <1>2, <1>4 DEF AskResume
  <1>5. ASSUME NEW pc \in {"finishing", "failing", "denied"}, Drop(c, pc)
        PROVE  call'[c].pc = pc /\ call'[c].op = call[c].op
    BY <1>0, <1>5 DEF Drop, Idle, Op
  <1>6. ASSUME End(c)
        PROVE  call'[c].pc = "idle"
    BY <1>0, <1>6 DEF End, Idle
  <1>7. CASE TurnAway(c)
    BY <1>7, <1>6, <1>2 DEF TurnAway
  <1>8. CASE Crash(c)
    BY <1>8, <1>6, <1>2 DEF Crash
  <1>9. CASE Raises(c)
    BY <1>9, <1>5, <1>2 DEF Raises, Executing
  <1>10. CASE Persist(c)
    <2>1. call'[c].pc \in {"finishing", "failing"} /\ call'[c].op = call[c].op
      BY <1>10, <1>5 DEF Persist, ConflictEnds
    <2> QED
      BY <2>1, <1>2, <1>10 DEF Persist, Executing, Invoking
  <1>11. CASE ReadGraph(c)
    <2>1. call'[c].pc = "persisting" /\ call'[c].op = call[c].op
      BY <1>11, <1>0 DEF ReadGraph, Call
    <2> QED
      BY <2>1, <1>2, <1>11 DEF ReadGraph, Executing, Invoking
  <1>12. CASE Read(c)
    <2>1. At(c, "claimed") /\ claims' = claims /\ runs' = runs /\ ops' = ops
      BY <1>12 DEF Read, BindStart, ReadTerminal, ReadResume, ReadCancel
    <2>2. call'[c].op = call[c].op
      <3>1. ASSUME Goto(c, "entering")
            PROVE  call'[c].op = call[c].op
        BY <3>1, <1>0 DEF Goto, Call
      <3>2. ASSUME \/ call' = [call EXCEPT ![c].pc = "entering", ![c].seen = Fresh(c)]
                   \/ call' = [call EXCEPT ![c].pc = "reading", ![c].seen = row]
            PROVE  call'[c].op = call[c].op
        BY <3>2, <1>0 DEF Call
      <3> QED
        BY <3>1, <3>2, <1>5, <1>12 DEF Read, BindStart, ReadTerminal, ReadResume, ReadCancel
    <2> QED
      BY <2>1, <2>2, <1>2 DEF Executing, Invoking
  <1>13. CASE Run(c)
    <2>1. /\ claims' = claims /\ ops' = ops /\ call'[c].op = call[c].op
          /\ call[c].pc \in {"entering", "running"} /\ call'[c].pc \in {"running", "reading"}
      BY <1>13, <1>0 DEF Run, EnterStart, EnterResume, Superstep, Interrupt, Call
    <2>2. \A r \in runs' : r \in runs \/ (r.op = Op(c) /\ At(c, "entering"))
      BY <1>13 DEF Run, EnterStart, EnterResume, Superstep, Interrupt
    <2> QED
      BY <2>1, <2>2, <1>1 DEF Executing, Invoking
  <1>14. CASE Settle(c)
    <2>1. call'[c].pc = "idle" /\ claims' = claims /\ runs' = runs /\ ~Executing(c)'
      BY <1>14, <1>6 DEF Settle, Close, Executing, Invoking
    <2>2. \A o \in Ops : ops'[o].status = "failed_final" =>
            ops[o].status = "failed_final" \/ (o = Op(c) /\ At(c, "denied"))
      <3>1. ASSUME NEW status \in {"succeeded", "ambiguous", "failed_final"}, Close(c, status)
            PROVE  \A o \in Ops : ops'[o].status = "failed_final" =>
                     ops[o].status = "failed_final" \/ (o = Op(c) /\ status = "failed_final")
        BY <3>1 DEF Close, TypeOK, Operation
      <3> QED
        BY <3>1, <1>14 DEF Settle
    <2> QED
      BY <2>1, <2>2, <1>1
  <1> QED
    BY <1>3, <1>4, <1>7, <1>8, <1>9, <1>10, <1>11, <1>12, <1>13, <1>14 DEF Step

(* A call that was denied has not reached the graph, and only it decides   *)
(* what an operation executed once answers.                                *)
THEOREM FinalFailureIsHarmless == Spec => []FinalFailureDidNothing
  <1>1. Init => ClaimInv
    BY DEF Init, ClaimInv, Executing, Invoking, Idle, FinalFailureDidNothing
  <1>2. Inv /\ Inv' /\ ClaimInv /\ [Next]_vars => ClaimInv'
    <2> SUFFICES ASSUME Inv, Inv', ClaimInv, [Next]_vars PROVE ClaimInv'
      OBVIOUS
    <2>1. CASE Next
      BY <2>1, ClaimStep DEF Next, Inv
    <2>2. CASE UNCHANGED vars
      BY <2>2 DEF vars, ClaimInv, Executing, At, Op, FinalFailureDidNothing
    <2> QED
      BY <2>1, <2>2
  <1>3. ClaimInv => FinalFailureDidNothing
    BY DEF ClaimInv
  <1> QED
    BY <1>1, <1>2, <1>3, Invariance, PTL DEF Spec

-----------------------------------------------------------------------------
(* A command that is alone inside the guard. *)

LEMMA AloneStep ==
  ASSUME Inv, AloneInv, NEW c \in Calls, Step(c), ~disturbed, ~Overlap', ~BrokeOff
  PROVE  AloneInv'
  <1> USE ControlAssumption DEF At
  <1>0. /\ call \in [Calls -> Call] /\ call[c] \in Call /\ Truthful(row) /\ TypeOK
        /\ \A d \in Calls \ {c} : call'[d] = call[d]
        /\ \A d, e \in Calls : call[d].pc \in Invoking /\ call[e].pc \in Invoking => d = e
        /\ \A d, e \in Calls : call'[d].pc \in Invoking /\ call'[e].pc \in Invoking => d = e
        /\ call[c].pc \in Invoking => call'[c].pc \notin {"failing", "idle"}
    BY Others DEF Inv, TypeOK, AloneInv, InFlight, Overlap, BrokeOff
  \* A step that moves neither the graph nor the row.
  <1>1. ASSUME graph' = graph, row' = row, runs' = runs,
               call'[c].pc \in {"entering", "persisting", "running"} => FALSE,
               call[c].pc \in {"running", "reading", "persisting"} =>
                 call'[c].pc \in {"running", "reading", "persisting"}
        PROVE  AloneInv'
    <2>1. (\A d \in Calls : call'[d].pc \notin {"running", "reading", "persisting"}) => row'.at = graph'.latest
      BY <1>1, <1>0 DEF AloneInv
    <2>2. \A d \in Calls : call'[d].pc = "persisting" => call'[d].snap.at = graph'.latest
      BY <1>1, <1>0 DEF AloneInv
    <2>3. \A d \in Calls : call'[d].pc = "entering" /\ Kind[call'[d].op] = "resume" => call'[d].seen.at = graph'.latest
      BY <1>1, <1>0 DEF AloneInv, Is, Op
    <2>4. \A r \in runs' : Kind[r.op] = "resume" => r.authorised = r.answered
      BY <1>1 DEF AloneInv
    <2> QED
      BY <2>1, <2>2, <2>3, <2>4, <1>0 DEF AloneInv, InFlight, Is, Op
  \* A step inside the guard: no other call is in there.
  <1>2. ASSUME call[c].pc \in Invoking,
               call'[c].pc \notin {"running", "reading", "persisting"} => row'.at = graph'.latest,
               call'[c].pc = "persisting" => call'[c].snap.at = graph'.latest,
               call'[c].pc = "entering" /\ Kind[call'[c].op] = "resume" => call'[c].seen.at = graph'.latest,
               \A r \in runs' : Kind[r.op] = "resume" => r.authorised = r.answered
        PROVE  AloneInv'
    <2>1. \A d \in Calls \ {c} : call'[d].pc \notin Invoking
      BY <1>2, <1>0
    <2> QED
      BY <2>1, <1>2, <1>0 DEF AloneInv, InFlight, Invoking, Is, Op
  <1>3. \A r \in runs : Kind[r.op] = "resume" => r.authorised = r.answered
    BY DEF AloneInv
  <1>4. call[c].pc \in {"claimed", "entering"} => row.at = graph.latest
    BY <1>0 DEF AloneInv, Invoking
  <1>5. ASSUME NEW pc \in {"finishing", "failing", "denied"}, Drop(c, pc)
        PROVE  call'[c].pc = pc
    BY <1>0, <1>5 DEF Drop, Idle
  <1>6. CASE Read(c)
    <2>1. /\ graph' = graph /\ runs' = runs /\ call[c].pc = "claimed" /\ row.at = graph.latest
          /\ row'.at = row.at
      BY <1>6, <1>4, <1>0 DEF Read, BindStart, IsBound, ReadTerminal, ReadResume, ReadCancel, Truthful
    <2>2. /\ call'[c].pc # "persisting"
          /\ call'[c].pc = "entering" /\ Kind[call'[c].op] = "resume" => call'[c].seen.at = row.at
      <3>1. CASE BindStart(c)
        <4>1. CASE Goto(c, "entering")
          BY <4>1, <3>1, <1>0 DEF BindStart, Goto, Is, Op, Call
        <4> QED
          BY <4>1, <3>1, <1>5 DEF BindStart
      <3>2. CASE ReadTerminal(c)
        BY <3>2, <1>5 DEF ReadTerminal
      <3>3. CASE ReadResume(c)
        <4>1. CASE call' = [call EXCEPT ![c].pc = "entering", ![c].seen = row]
          BY <4>1, <1>0 DEF Call
        <4> QED
          BY <4>1, <3>3, <1>5 DEF ReadResume, Fresh
      <3>4. CASE ReadCancel(c)
        BY <3>4, <1>0, <1>5 DEF ReadCancel, Call
      <3> QED
        BY <3>1, <3>2, <3>3, <3>4, <1>6 DEF Read
    <2> QED
      BY <2>1, <2>2, <1>2, <1>3 DEF Invoking
  <1>7. CASE Run(c)
    <2>1. call[c].pc \in Invoking /\ call'[c].pc \in {"running", "reading"}
      BY <1>7, <1>0 DEF Run, EnterStart, EnterResume, Superstep, Interrupt, Invoking, Call
    <2>2. \A r \in runs' : Kind[r.op] = "resume" => r.authorised = r.answered
      <3>1. CASE EnterStart(c)
        BY <3>1, <1>3 DEF EnterStart, Is
      <3>2. CASE EnterResume(c)
        <4>1. call[c].seen.at = graph.latest
          BY <3>2 DEF EnterResume, AloneInv
        <4> QED
          BY <4>1, <3>2, <1>3 DEF EnterResume
      <3>3. CASE Superstep(c) \/ Interrupt(c)
        BY <3>3, <1>3 DEF Superstep, Interrupt
      <3> QED
        BY <3>1, <3>2, <3>3, <1>7 DEF Run
    <2> QED
      BY <2>1, <2>2, <1>2
  <1>8. CASE ReadGraph(c)
    <2>1. /\ call[c].pc = "reading" /\ call'[c].pc = "persisting" /\ call'[c].snap.at = graph.latest
          /\ graph' = graph /\ runs' = runs
      BY <1>8, <1>0 DEF ReadGraph, Call
    <2> QED
      BY <2>1, <1>2, <1>3 DEF Invoking
  <1>9. CASE Persist(c)
    <2>1. /\ call[c].pc = "persisting" /\ call[c].snap.at = graph.latest /\ graph' = graph /\ runs' = runs
      BY <1>9 DEF Persist, AloneInv
    <2>2. ~Drop(c, ConflictEnds)
      BY <2>1, <1>5, <1>0 DEF ConflictEnds, Invoking
    <2>3. row' = call[c].snap /\ call'[c].pc = "finishing"
      BY <2>2, <1>5, <1>9 DEF Persist
    <2> QED
      BY <2>1, <2>3, <1>2, <1>3 DEF Invoking
  <1>10. ASSUME NEW o \in Ops, AskResume(c, o) \/ Claim(c, o)
         PROVE  AloneInv'
    <2>1. call[c].pc \in {"idle", "asked"} /\ call'[c].pc \in {"asked", "claimed"}
      BY <1>10, <1>0 DEF AskResume, Claim, MayClaim, Call
    <2> QED
      BY <2>1, <1>1, <1>10 DEF AskResume, Claim
  <1>11. CASE TurnAway(c) \/ Raises(c) \/ Settle(c) \/ Crash(c)
    <2>1. graph' = graph /\ row' = row /\ runs' = runs
      BY <1>11 DEF TurnAway, Raises, Settle, Crash
    <2>2. call'[c].pc \in {"idle", "failing"}
      <3>1. ASSUME End(c) PROVE call'[c].pc = "idle"
        BY <3>1, <1>0 DEF End, Idle
      <3>2. End(c) \/ Drop(c, "failing")
        BY <1>11 DEF TurnAway, Raises, Settle, Close, Crash
      <3> QED
        BY <3>1, <3>2, <1>5
    <2>3. call[c].pc \notin Invoking
      BY <2>2, <1>0
    <2> QED
      BY <2>1, <2>2, <2>3, <1>1 DEF Invoking
  <1> QED
    BY <1>6, <1>7, <1>8, <1>9, <1>10, <1>11 DEF Step

(* The second read of the row, inside the guard, binds a value to the      *)
(* interrupt the graph waits at, as long as commands do not overlap there. *)
THEOREM BoundAlone == Spec => []BoundWhenAlone
  <1>1. Init => AloneInv
    BY DEF Init, AloneInv, InFlight, Invoking, Idle, Absent, At, Is, Op
  <1>2. Inv /\ AloneInv /\ [Next]_vars => AloneInv'
    <2> SUFFICES ASSUME Inv, AloneInv, [Next]_vars PROVE AloneInv'
      OBVIOUS
    <2>1. CASE Next
      <3>1. CASE disturbed'
        BY <3>1 DEF AloneInv
      <3>2. CASE ~disturbed'
        <4>1. ~disturbed /\ ~Overlap' /\ ~BrokeOff
          BY <2>1, <3>2 DEF Next
        <4> QED
          BY <4>1, <2>1, AloneStep DEF Next
      <3> QED
        BY <3>1, <3>2
    <2>2. CASE UNCHANGED vars
      BY <2>2 DEF vars, AloneInv, InFlight, At, Is, Op
    <2> QED
      BY <2>1, <2>2
  <1>3. AloneInv => BoundWhenAlone
    BY DEF AloneInv, BoundWhenAlone
  <1> QED
    BY <1>1, <1>2, <1>3, Invariance, PTL DEF Spec
=============================================================================
