----------------------------- MODULE MCMediaJobs -----------------------------
(***************************************************************************)
(* A small instance of MediaJobs: one job, two workers, two dispatchers.   *)
(***************************************************************************)
EXTENDS MediaJobs
=============================================================================
