--------------------------- MODULE MCControlPlane ---------------------------
(***************************************************************************)
(* Instances of ControlPlane for TLC.                                      *)
(***************************************************************************)
EXTENDS ControlPlane, TLC

CONSTANTS start, resume, again, cancel, c1, c2

KindOf == (start :> "start") @@ (resume :> "resume") @@ (again :> "resume") @@ (cancel :> "cancel")

\* Calls are alike, and so are the two resumes.
Alike == Permutations(Calls) \cup Permutations({resume, again})
=============================================================================
