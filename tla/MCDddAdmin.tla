----------------------------- MODULE MCDddAdmin -----------------------------
EXTENDS DddAdmin, TLC

\* Nothing tells one person, or one value, from another.
Symmetry == Permutations(People) \cup Permutations(Values)
=============================================================================
