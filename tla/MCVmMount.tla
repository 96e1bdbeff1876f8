----------------------------- MODULE MCVmMount -----------------------------
(***************************************************************************)
(* Two mounts that overlap and two unmount requests that overlap with them *)
(* and with each other.                                                    *)
(***************************************************************************)
EXTENDS VmMount, TLC

\* Sound for the safety runs: requests are told apart by their state alone.
ReqSymmetry == Permutations(Reqs) \cup Permutations(Unmounters)
===========================================================================
