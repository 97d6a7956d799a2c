------------------------------ MODULE MCEdgeTcp ------------------------------
(* Model values for EdgeTcp.                                               *)
EXTENDS EdgeTcp

CONSTANTS h1, h2

=============================================================================
