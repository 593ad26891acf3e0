------------------------------ MODULE MCScopes ------------------------------
EXTENDS Scopes

Symmetry == Permutations(Names)
=============================================================================
