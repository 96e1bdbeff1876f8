--------------------------- MODULE MCKvmSession ---------------------------
(***************************************************************************)
(* Two session identities, the old one and the new one: enough for every   *)
(* overlap of a session that ends with the one that replaces it, and, as   *)
(* identities are recycled, for reconnecting without bound.                *)
(***************************************************************************)
EXTENDS KvmSession, TLC

\* Sound for the safety runs only: Gens are told apart by nothing but their state.
GenSymmetry == Permutations(Gens)
===========================================================================
