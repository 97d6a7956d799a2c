----------------------------- MODULE MCFirmware -----------------------------
\* Two sensors, a queue of two, packets larger than the room in the socket, and
\* numbers that wrap after three packets.
EXTENDS Firmware

CONSTANTS a, b

\* The ends of every integer range the calibration uses, and their neighbours.
MCEdges == UNION {{v - 1, v, v + 1} : v \in
               {-32768, -255, -100, 0, 100, 255, 32512, 32767, 65535}}
=============================================================================
