------------------------------ MODULE MCTorps ------------------------------
(* Torps for TLC: see torps.cfg.                                            *)
EXTENDS Torps
=============================================================================
