----------------------------- MODULE MCTwoSkip -----------------------------
EXTENDS TwoSkip, TLC

\* Values and processes are interchangeable.
Symmetry == Permutations(Val) \cup Permutations(Proc)
=============================================================================
