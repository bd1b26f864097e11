-------------------------------- MODULE MCKfSync --------------------------------
\* Symmetry for KfSync where all users may print.
EXTENDS KfSync

Symmetry == Permutations(Users)
=============================================================================
