------------------------------- MODULE MCIPAM -------------------------------
EXTENDS IPAM, TLC

CONSTANTS c1, c2

MCCtrs == {c1, c2}

Symmetry == Permutations(MCCtrs)
=============================================================================
