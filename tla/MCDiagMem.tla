----------------------------- MODULE MCDiagMem -----------------------------
\* Instances of DiagMem for TLC.
EXTENDS DiagMem, TLC

Symmetry == Permutations(Threads)
=============================================================================
