---------------------------- MODULE MCPiSession ----------------------------
(* Two submissions, in one session or in two that take turns. *)
EXTENDS PiSession

MCAttempts == 1..2
=============================================================================
