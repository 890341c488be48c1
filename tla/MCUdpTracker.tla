----------------------------- MODULE MCUdpTracker -----------------------------
(* Instances of UdpTracker for TLC.                                          *)
EXTENDS UdpTracker

\* Too short for either reply, as long as a connect reply, longer than an
\* announce reply without peers.
Sizes == {12, 16, 26}
==============================================================================
