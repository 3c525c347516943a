------------------------------ MODULE MCHsicPm ------------------------------
\* Instances of HsicPm for TLC.
EXTENDS HsicPm, TLC

Symmetry == Permutations(Intfs) \cup Permutations(Reporters)
=============================================================================
