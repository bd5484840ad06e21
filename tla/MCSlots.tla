------------------------------ MODULE MCSlots ------------------------------
(* Two slots.  PICKUP scans both, lowest first; HOME, when the run has it,  *)
(* prefers slot 2 and then starts again from the lowest.                    *)
EXTENDS Slots, TLC
CONSTANTS pickup, home
MCScan == [q \in Queue |-> SelectSeq(IF q = pickup THEN <<1, 2>> ELSE <<2, 1, 2>>, LAMBDA s : s \in Slot)]
=============================================================================
