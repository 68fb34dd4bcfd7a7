----------------------------- MODULE MCCatalog ------------------------------
EXTENDS Catalog, TLC

CONSTANTS home, other, s0, s1, s2, p, g, r, h1, h2

Symmetry == Permutations({h1, h2}) \cup Permutations({s1, s2})

=============================================================================
