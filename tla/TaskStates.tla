---------------------------- MODULE TaskStates ----------------------------
(***************************************************************************)
(* The task and graph states of the durable task graph (task_graph/        *)
(* states.py), the transitions its state machine allows (state_machine.py) *)
(* and the join rule that decides what happens to a PENDING task           *)
(* (lifecycle.py).  The code has three wait states, WAITING_APPROVAL,      *)
(* WAITING_INPUT and WAITING_EXTERNAL, which every function treats alike:  *)
(* "WAITING" stands for the three of them.                                 *)
(***************************************************************************)
EXTENDS Integers, FiniteSets

TaskState == {"PENDING", "READY", "RUNNING", "WAITING", "SUCCEEDED",
              "FAILED_RETRYABLE", "FAILED_FINAL", "CANCELLED", "SKIPPED"}

TaskGraphState == {"RUNNING", "WAITING", "SUCCEEDED", "FAILED_FINAL", "CANCELLED"}

TERMINAL_TASK_STATES == {"SUCCEEDED", "FAILED_FINAL", "CANCELLED", "SKIPPED"}

TERMINAL_GRAPH_STATES == {"SUCCEEDED", "FAILED_FINAL", "CANCELLED"}

\* state_machine._ALLOWED, as a set of edges.
Allowed ==
    {"PENDING"}          \X {"READY", "CANCELLED", "SKIPPED"}
    \cup {"READY"}            \X {"RUNNING", "CANCELLED", "SKIPPED"}
    \cup {"RUNNING"}          \X {"SUCCEEDED", "FAILED_RETRYABLE", "FAILED_FINAL",
                                  "WAITING", "CANCELLED"}
    \cup {"WAITING"}          \X {"READY", "CANCELLED"}
    \cup {"FAILED_RETRYABLE"} \X {"READY", "FAILED_FINAL", "CANCELLED"}

(***************************************************************************)
(* lifecycle._join_decision for a task that depends on the tasks D, whose  *)
(* states are status.  A join is a record [policy, minimum]; each policy   *)
(* asks for a number of successes, which is attained, out of reach, or     *)
(* still open.                                                             *)
(***************************************************************************)
JoinNeeds(join, D) ==
    CASE join.policy = "ALL"         -> Cardinality(D)
      [] join.policy = "ANY"         -> 1
      [] join.policy = "MIN_SUCCESS" -> join.minimum
      [] OTHER                       -> 0

JoinDecision(join, D, status) ==
    LET needs     == JoinNeeds(join, D)
        successes == Cardinality({d \in D : status[d] = "SUCCEEDED"})
        open      == Cardinality({d \in D : status[d] \notin TERMINAL_TASK_STATES})
    IN  IF D = {} THEN "ready"
        ELSE IF needs \notin 1 .. Cardinality(D) THEN "impossible"
        ELSE IF successes >= needs THEN "ready"
        ELSE IF successes + open < needs THEN "impossible"
        ELSE "pending"

=============================================================================
