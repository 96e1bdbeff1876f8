----------------------------- MODULE MCAvoBits -----------------------------
(***************************************************************************)
(* Registers of three bits, bytes of one, every body of up to four words:  *)
(* two words are read ahead, one or two are left for consume to fetch.     *)
(***************************************************************************)
EXTENDS AvoBits

MCOrder == LittleEndian(1)
===========================================================================
