-------------------------- MODULE MCSanctionPolicy --------------------------
EXTENDS SanctionPolicy, TLC

\* Messages of one channel are interchangeable.
Symmetric == Permutations(Elsewhere) \cup Permutations(Messages \ Elsewhere)
=============================================================================
