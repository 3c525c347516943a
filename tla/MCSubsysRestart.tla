-------------------------- MODULE MCSubsysRestart --------------------------
\* Instances of SubsysRestart for TLC: the racing callers, and one caller at
\* a time.
EXTENDS SubsysRestart, TLC

\* Jobs and callers are interchangeable; only safety runs use the symmetry.
Symmetry == Permutations(Callers) \union Permutations(Jobs)
                \union Permutations(Subsystems)
=============================================================================
