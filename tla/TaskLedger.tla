---------------------------- MODULE TaskLedger ----------------------------
(***************************************************************************)
(* What the task graph runtime promises about each of its tasks, whatever  *)
(* stores it: a task moves along the edges of its state machine; moving to *)
(* RUNNING opens the next attempt; leaving RUNNING closes that attempt     *)
(* with the state the task moves to; and nothing else touches the ledger.  *)
(* Several tasks may move at once, as in a cancellation.                   *)
(***************************************************************************)
EXTENDS Integers

CONSTANTS
    Task,
    States,       \* the states of a task
    Outcomes,     \* the states of an attempt, "NONE" and "RUNNING" among them
    Edges,        \* the moves of the state machine, pairs of states
    InitialStates,
    MaxAttempts

VARIABLES status, attempts, ledger

vars == <<status, attempts, ledger>>

Init ==
    /\ status \in [Task -> InitialStates]
    /\ attempts = [t \in Task |-> 0]
    /\ ledger = [t \in Task |-> [n \in 1 .. MaxAttempts |-> "NONE"]]

Moves(t) == <<status[t], status'[t]>> \in Edges

Stays(t) ==
    status'[t] = status[t] /\ attempts'[t] = attempts[t] /\ ledger'[t] = ledger[t]

\* A worker begins the next attempt.
Opens(t) ==
    /\ Moves(t) /\ status'[t] = "RUNNING"
    /\ attempts[t] < MaxAttempts
    /\ attempts'[t] = attempts[t] + 1
    /\ ledger[t][attempts'[t]] = "NONE"
    /\ ledger'[t] = [ledger[t] EXCEPT ![attempts'[t]] = "RUNNING"]

\* The attempt ends, and so does the task's run.
Closes(t) ==
    /\ Moves(t) /\ status[t] = "RUNNING"
    /\ attempts'[t] = attempts[t]
    /\ ledger[t][attempts[t]] = "RUNNING"
    /\ ledger'[t] = [ledger[t] EXCEPT ![attempts[t]] = status'[t]]

\* A task that is not running becomes ready, is cancelled, is skipped or appears.
Turns(t) ==
    /\ Moves(t) /\ status[t] # "RUNNING" /\ status'[t] # "RUNNING"
    /\ attempts'[t] = attempts[t] /\ ledger'[t] = ledger[t]

Next ==
    /\ status' \in [Task -> States]
    /\ attempts' \in [Task -> 0 .. MaxAttempts]
    /\ ledger' \in [Task -> [1 .. MaxAttempts -> Outcomes]]
    /\ \A t \in Task : Stays(t) \/ Opens(t) \/ Closes(t) \/ Turns(t)

Spec == Init /\ [][Next]_vars
=============================================================================
