------------------------------ MODULE MCMaster ------------------------------
EXTENDS Master, TLC

\* Process ids are interchangeable.
Symmetry == Permutations(Pid)
=============================================================================
