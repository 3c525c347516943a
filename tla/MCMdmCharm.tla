----------------------------- MODULE MCMdmCharm -----------------------------
\* Instances of MdmCharm for TLC.
EXTENDS MdmCharm, TLC

Symmetry == Permutations(Jobs)
=============================================================================
