------------------------------- MODULE MCSol -------------------------------
(***************************************************************************)
(* Three sequence numbers and four pieces of output, so that the fourth    *)
(* carries the number of the first.  The BMC may give up on any of them:   *)
(* on the second and third in a row, and the fourth passes for the first.  *)
(***************************************************************************)
EXTENDS Sol
===========================================================================
