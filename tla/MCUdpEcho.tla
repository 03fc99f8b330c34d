----------------------------- MODULE MCUdpEcho -----------------------------
(***************************************************************************)
(* Two clients of the echo server.  They take the same steps on disjoint   *)
(* data, but TLC's symmetry is not used: the run checks liveness.          *)
(***************************************************************************)
EXTENDS UdpEcho

CONSTANTS c1, c2

Clients == {c1, c2}
=============================================================================
