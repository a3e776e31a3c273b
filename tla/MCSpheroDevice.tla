--------------------------- MODULE MCSpheroDevice ---------------------------
(* Angles and bytes for model checking SpheroDevice: quarter turns through  *)
(* more than a full circle in both directions, a heading of one byte and    *)
(* one of two, and bytes on both sides of Java's sign.                      *)
EXTENDS SpheroDevice

SomeDirections == {-810, 450}
SomeRolls == {-30, 725}
SomeHeadings == {0, 270}
SomeSpeeds == {-1, 300}
SomeLevels == {0, 200}
=============================================================================
