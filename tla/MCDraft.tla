------------------------------ MODULE MCDraft ------------------------------
(* Draft for TLC: see draft.cfg.                                            *)
EXTENDS Draft
=============================================================================
