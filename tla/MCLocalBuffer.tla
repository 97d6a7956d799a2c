--------------------------- MODULE MCLocalBuffer ---------------------------
\* The local buffer with two readings, one status and two concurrent tasks.
EXTENDS LocalBuffer

CONSTANTS r1, r2, s1, t1, t2
=============================================================================
