----------------------------- MODULE MCRepoScan -----------------------------
(***************************************************************************)
(* Two walks and a clear request on an event log of up to three records,   *)
(* of which two are asked for; or a walk over up to three sensor records   *)
(* of a header and two chunks.                                             *)
(***************************************************************************)
EXTENDS RepoScan
===========================================================================
