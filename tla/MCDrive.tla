------------------------------ MODULE MCDrive -------------------------------
(* Drive with a distance of one and one of two ticks, and turns of less    *)
(* than one tick and of two.  A byte holds eight values, so that counters  *)
(* carry within a few ticks.                                               *)
EXTENDS Drive

MCDistances == {0, 5, 10}
MCAngles == {0, 15, 45}
=============================================================================
