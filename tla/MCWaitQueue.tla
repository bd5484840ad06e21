---------------------------- MODULE MCWaitQueue ----------------------------
(* WaitQueue as it stands: its constants are ordinary values.               *)
EXTENDS WaitQueue
=============================================================================
