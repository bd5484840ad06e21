------------------------------- MODULE MCBays -------------------------------
(* Bays as it stands: its constants are ordinary values.                    *)
EXTENDS Bays
=============================================================================
