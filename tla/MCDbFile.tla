------------------------------ MODULE MCDbFile ------------------------------
EXTENDS DbFile, TLC

\* Processes are interchangeable.
Symmetry == Permutations(Proc)
=============================================================================
