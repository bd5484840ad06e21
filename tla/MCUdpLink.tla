----------------------------- MODULE MCUdpLink -----------------------------
(* UdpLink for TLC: see udplink.cfg.                                        *)
EXTENDS UdpLink
=============================================================================
