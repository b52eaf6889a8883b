---------------------------- MODULE MCCliSession ----------------------------
(* The small instances of CliSession that TLC checks. *)
EXTENDS CliSession, TLC
=============================================================================
