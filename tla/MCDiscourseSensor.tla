------------------------- MODULE MCDiscourseSensor -------------------------
\* The instances of the sensor that TLC checks.
EXTENDS DiscourseSensor, TLC

ItemSymmetry == Permutations(Items)

=============================================================================
