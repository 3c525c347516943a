----------------------------- MODULE MCHsicBus -----------------------------
\* Instances of HsicBus for TLC.
EXTENDS HsicBus, TLC

Symmetry == Permutations(Users) \cup Permutations(Skbs)
=============================================================================
