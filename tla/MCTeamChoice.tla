---------------------------- MODULE MCTeamChoice ----------------------------
(* TeamChoice for TLC: see teamchoice.cfg.                                  *)
EXTENDS TeamChoice
=============================================================================
