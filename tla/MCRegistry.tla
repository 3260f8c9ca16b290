------------------------------ MODULE MCRegistry ------------------------------
\* Instances of Registry for TLC: the second caller joins or follows the flight
\* of the first.
EXTENDS Registry

CONSTANTS c1, c2

TwoCallers == {c1, c2}
=============================================================================
