----------------------------- MODULE MCVideoJobs -----------------------------
(***************************************************************************)
(* Small instances of VideoJobs: one or two quality retries, which the     *)
(* budget pays for only when the estimates are low enough.                 *)
(***************************************************************************)
EXTENDS VideoJobs
=============================================================================
