---------------------------- MODULE MCFramePush ----------------------------
(***************************************************************************)
(* Two browsers, so that one may hang, be gone or fall behind while the    *)
(* other goes on.                                                          *)
(***************************************************************************)
EXTENDS FramePush
===========================================================================
