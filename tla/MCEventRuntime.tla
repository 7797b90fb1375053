--------------------------- MODULE MCEventRuntime ---------------------------
(***************************************************************************)
(* A small instance of EventRuntime: a consumer with two processes.        *)
(***************************************************************************)
EXTENDS EventRuntime, TLC

CONSTANTS p1, p2, c1

TwoProcesses == p1 :> c1 @@ p2 :> c1
=============================================================================
