------------------------------- MODULE MCErsha -------------------------------
(* The small instances of Ersha that TLC checks.                           *)
EXTENDS Ersha, TLC

CONSTANTS r1, s1, d1, c1, c2

MCDeviceOf == (r1 :> d1) @@ (s1 :> d1)
MCDeviceOfS == s1 :> d1

\* s1 reports a critical battery and one faulty sensor of two ...
MCBattery == s1 :> 9
MCSensorStates == s1 :> <<"Active", "Faulty">>

\* ... or nothing to alert anybody about.
MCFullBattery == s1 :> 10
MCHealthySensors == s1 :> <<"Inactive">>

\* Connection slots are interchangeable.
ConnSymmetry == Permutations(Conns)

=============================================================================
