--------------------------- MODULE MCIpmiClient ---------------------------
(***************************************************************************)
(* Two handlers on one session with the three attempts of the code: enough *)
(* for replies to come after their call has returned and meet a later one. *)
(***************************************************************************)
EXTENDS IpmiClient
===========================================================================
