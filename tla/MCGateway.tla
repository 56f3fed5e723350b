------------------------------ MODULE MCGateway ------------------------------
EXTENDS Gateway, TLC

\* Requests are alike.
Symmetry == Permutations(Procs)
=============================================================================
